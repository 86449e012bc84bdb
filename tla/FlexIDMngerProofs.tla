------------------------- MODULE FlexIDMngerProofs -------------------------
(***************************************************************************)
(* Theorems about FlexIDMnger for all devices, hashes, attributes,         *)
(* requests and bounds.                                                    *)
(***************************************************************************)
EXTENDS FlexIDMnger, FiniteSetTheorems, TLAPS

-----------------------------------------------------------------------------
(***************************************************************************)
(* The inductive invariant.                                                *)
(***************************************************************************)
\* What the position of a handler says about its request and its locals.
Control ==
    /\ cur.pc \in {"genID", "device", "neighbors"} =>
         cur.req \in JoinRequests /\ cur.req.device \in Devices
    /\ cur.pc = "leave" => cur.req.op = "leave"
    /\ cur.pc = "exists" => cur.req.op \in {"register", "update", "query"}
    /\ cur.pc \in {"genID", "exists"} => cur.ids = << >> /\ cur.rows = << >>
    /\ cur.pc \in {"found", "update"} => cur.req \in UpdateRequests
    /\ cur.pc = "query" => cur.req.op = "query"
    /\ cur.pc \in {"items", "registerID", "insert"} =>
         /\ cur.req \in RegisterRequests
         /\ Len(cur.ids) <= Len(cur.req.items)
         /\ Len(cur.rows) = Len(cur.ids)
         /\ \A k \in DOMAIN cur.ids :
              /\ cur.rows[k].table = "RegisterList"
              /\ cur.rows[k].id = cur.ids[k]
              /\ cur.rows[k].device = cur.id
    /\ cur.pc = "registerID" => Len(cur.ids) < Len(cur.req.items)

TypeInv == TypeOK /\ Control

Elems(s) == {s[i] : i \in DOMAIN s}

Ascending(s) == \A i, j \in DOMAIN s : i < j => s[i].nr < s[j].nr

\* Each query and answer carries its number as its ID, an answer is older
\* than every query that is still to be executed, and what a handler waits
\* for is the newest of all.
CacheInOrder(cache) ==
    \A q \in DOMAIN cache : cache[q] # Waiting =>
        cache[q].nr = q /\ \A m \in Elems(toDB) : q < m.nr

InOrder ==
    /\ Ascending(toDB)
    /\ \A m \in Elems(toDB) : m.queryID = m.nr /\ m.nr \in 1 .. sent
    /\ \A a \in Elems(fromDB) :
         a.queryID = a.nr /\ a.nr \in 1 .. sent /\ \A m \in Elems(toDB) : a.nr < m.nr
    /\ CacheInOrder(dbQuery_cache)
    /\ cur.pc \in Spins => cur.queryID = cur.nr /\ cur.nr = sent

\* The answers that came back, on their way or stored.
Arrived ==
    Elems(fromDB)
      \cup {dbQuery_cache[q] : q \in {p \in DOMAIN dbQuery_cache : dbQuery_cache[p] # Waiting}}

Own(messages) == {m \in messages : m.nr = cur.nr}

\* A deletion on its way is of nothing that is promised.
DeletesUnpromised ==
    \A m \in Elems(toDB) : m.query.sql = "delete" =>
        /\ m.query.table = "Device" =>
             m.query.id \notin members /\ \A p \in provided : p.device # m.query.id
        /\ m.query.table = "RegisterList" => \A p \in provided : p.id # m.query.id

\* Promises are numbered by the requests that made them.
PromisesNumbered ==
    \A p \in provided : p.nr <= requests /\ (cur.pc \in Steps => p.nr < requests)

\* The query that the handler waits for, where it matters which it is.
OwnQuery ==
    /\ cur.pc = "device" =>
         \A m \in Own(Elems(toDB)) :
             m.query = Insert([i \in 1 .. cur.req.codes |-> DeviceRow(cur.id)])
    /\ cur.pc = "registerID" =>
         \A m \in Own(Elems(toDB)) :
             m.query = Select("RegisterList", newID(cur.flag, Item(cur).hash))
    /\ cur.pc = "insert" => \A m \in Own(Elems(toDB)) : m.query = Insert(cur.rows)

\* A join that went well so far has its row, under an ID nobody has.
Fresh == DeviceRow(cur.id) \in db /\ cur.id \notin members

JoinInv ==
    /\ cur.pc = "device" /\ cur.req.codes > 0 =>
         \A a \in Own(Arrived) : ~a.error => Fresh
    /\ cur.pc = "neighbors" /\ cur.req.codes > 0 =>
         Fresh /\ \A m \in Elems(toDB) : m.query.sql # "delete"

\* An ID chosen with collision avoidance is promised to nobody.
Free(id) == \A q \in provided : q.id # id

\* The rows of a registration are in, and were not before.
AllIn ==
    \A k \in DOMAIN cur.ids :
        /\ cur.rows[k] \in db
        /\ \A q \in provided : q.id = cur.ids[k] => q.device # cur.id
        /\ \A l \in DOMAIN cur.ids : k # l => cur.ids[k] # cur.ids[l]

RegisterInv ==
    /\ cur.pc \in {"items", "registerID", "insert"} =>
         \A k \in DOMAIN cur.ids :
             cur.req.items[k].collisionAvoid /\ k \notin cur.misread => Free(cur.ids[k])
    /\ cur.pc = "registerID" =>
         \A a \in Own(Arrived) :
             ~a.error /\ ~a.found => Free(newID(cur.flag, Item(cur).hash))
    /\ cur.pc = "insert" => \A a \in Own(Arrived) : ~a.error => AllIn

HandlerInv == OwnQuery /\ JoinInv /\ RegisterInv

SafeInv ==
    /\ TypeInv /\ InOrder
    /\ PromisesKept /\ DeletesUnpromised /\ PromisesNumbered
    /\ HandlerInv

-----------------------------------------------------------------------------
(***************************************************************************)
(* Sequences of messages.                                                  *)
(***************************************************************************)
LEMMA ElemsOfAppend ==
    ASSUME NEW S, NEW s \in Seq(S), NEW x \in S
    PROVE  /\ Append(s, x) \in Seq(S)
           /\ Elems(Append(s, x)) = Elems(s) \cup {x}
<1>1. /\ Append(s, x) \in Seq(S) /\ Len(Append(s, x)) = Len(s) + 1
      /\ \A i \in 1 .. Len(s) : Append(s, x)[i] = s[i]
      /\ Append(s, x)[Len(s) + 1] = x
  OBVIOUS
<1>2. /\ Len(s) \in Nat
      /\ DOMAIN s = 1 .. Len(s) /\ DOMAIN Append(s, x) = 1 .. Len(s) + 1
  BY <1>1
<1>. QED
  BY <1>1, <1>2 DEF Elems

LEMMA AscendingAppend ==
    ASSUME NEW S, NEW s \in Seq(S), NEW x \in S, Ascending(s),
           \A m \in Elems(s) : m.nr < x.nr
    PROVE  Ascending(Append(s, x))
<1>1. /\ Len(Append(s, x)) = Len(s) + 1 /\ Len(s) \in Nat
      /\ \A i \in 1 .. Len(s) : Append(s, x)[i] = s[i]
      /\ Append(s, x)[Len(s) + 1] = x
      /\ DOMAIN s = 1 .. Len(s) /\ DOMAIN Append(s, x) = 1 .. Len(s) + 1
  OBVIOUS
<1>. SUFFICES ASSUME NEW i \in 1 .. Len(s) + 1, NEW j \in 1 .. Len(s) + 1, i < j
              PROVE  Append(s, x)[i].nr < Append(s, x)[j].nr
  BY <1>1 DEF Ascending
<1>2. i \in 1 .. Len(s)
  BY <1>1
<1>3. CASE j \in 1 .. Len(s)
  BY <1>1, <1>2, <1>3 DEF Ascending
<1>4. CASE j = Len(s) + 1
  BY <1>1, <1>2, <1>4 DEF Elems
<1>. QED
  BY <1>1, <1>3, <1>4

LEMMA ElemsOfTail ==
    ASSUME NEW S, NEW s \in Seq(S), s # << >>
    PROVE  /\ Head(s) \in S /\ Head(s) \in Elems(s) /\ Tail(s) \in Seq(S)
           /\ Elems(Tail(s)) \subseteq Elems(s)
           /\ Ascending(s) =>
                /\ Ascending(Tail(s))
                /\ \A m \in Elems(Tail(s)) : Head(s).nr < m.nr
<1>1. /\ Len(s) \in Nat /\ Len(s) > 0 /\ Len(Tail(s)) = Len(s) - 1
      /\ Head(s) = s[1] /\ Head(s) \in S /\ Tail(s) \in Seq(S)
      /\ \A i \in 1 .. Len(s) - 1 : Tail(s)[i] = s[i + 1]
      /\ DOMAIN s = 1 .. Len(s) /\ DOMAIN Tail(s) = 1 .. Len(s) - 1
  OBVIOUS
<1>2. Head(s) \in Elems(s)
  BY <1>1 DEF Elems
<1>3. Elems(Tail(s)) \subseteq Elems(s)
  BY <1>1 DEF Elems
<1>4. ASSUME Ascending(s)
      PROVE  Ascending(Tail(s)) /\ \A m \in Elems(Tail(s)) : Head(s).nr < m.nr
  <2>1. ASSUME NEW i \in 1 .. Len(s) - 1
        PROVE  i + 1 \in 1 .. Len(s) /\ s[1].nr < s[i + 1].nr
    BY <1>1, <1>4 DEF Ascending
  <2>2. ASSUME NEW i \in 1 .. Len(s) - 1, NEW j \in 1 .. Len(s) - 1, i < j
        PROVE  s[i + 1].nr < s[j + 1].nr
    BY <1>1, <1>4, <2>2 DEF Ascending
  <2>. QED
    BY <1>1, <2>1, <2>2 DEF Ascending, Elems
<1>. QED
  BY <1>1, <1>2, <1>3, <1>4

LEMMA ElemsTyped == ASSUME NEW S, NEW s \in Seq(S) PROVE Elems(s) \subseteq S
  BY DEF Elems

-----------------------------------------------------------------------------
(***************************************************************************)
(* Requests and rows.                                                      *)
(***************************************************************************)
\* A request's fields are those of its kind.
LEMMA RequestKinds ==
    ASSUME NEW req \in Requests
    PROVE  /\ req.op = "join" => req \in JoinRequests
           /\ req.op = "register" => req \in RegisterRequests
           /\ req.op = "update" => req \in UpdateRequests
           /\ req.op \in {"join", "leave", "register", "update", "query", "garbage"}
           /\ req.op # "garbage" => req.device \in Senders
<1>1. req \in JoinRequests \cup RegisterRequests \cup UpdateRequests
                  \cup QueryRequests \cup LeaveRequests \cup GarbageRequests
  BY RequestsAssumption
<1>2. CASE req \in JoinRequests
  BY <1>2 DEF JoinRequests
<1>3. CASE req \in RegisterRequests
  BY <1>3 DEF RegisterRequests
<1>4. CASE req \in UpdateRequests
  BY <1>4 DEF UpdateRequests
<1>5. CASE req \in QueryRequests \cup LeaveRequests \cup GarbageRequests
  BY <1>5 DEF QueryRequests, LeaveRequests, GarbageRequests
<1>. QED
  BY <1>1, <1>2, <1>3, <1>4, <1>5

LEMMA DeviceRowType == ASSUME NEW d \in DeviceIDs PROVE DeviceRow(d) \in Rows
  BY DEF Rows, DeviceRow

LEMMA NeighborRowType ==
    ASSUME NEW n \in Devices, NEW d \in DeviceIDs PROVE NeighborRow(n, d) \in Rows
  BY DEF Rows, NeighborRow

LEMMA RegisterListRows ==
    ASSUME NEW r \in Rows, r.table = "RegisterList"
    PROVE  r \in [table : {"RegisterList"}, id : ProvidingIDs, device : DeviceIDs,
                  attributes : Seq(Attributes)]
  BY DEF Rows, DeviceRow, NeighborRow

LEMMA QueryTypes ==
    /\ \A d \in DeviceIDs : Select("Device", d) \in Queries /\ Delete("Device", d) \in Queries
    /\ \A p \in ProvidingIDs :
         /\ Select("RegisterList", p) \in Queries /\ Delete("RegisterList", p) \in Queries
         /\ \A t \in Seq(Attributes) : SetAttributes(p, t) \in Queries
    /\ \A rows \in Seq(Rows) : Insert(rows) \in Queries
    /\ SelectNothing \in Queries
  BY DEF Queries, Select, Delete, SetAttributes, Insert, SelectNothing

-----------------------------------------------------------------------------
(***************************************************************************)
(* Asking and publishing.                                                  *)
(***************************************************************************)
\* A handler, started or on its way.
AnyHandlers ==
    [pc : Steps \cup {"start"}, req : Requests, id : DeviceIDs, flag : Flags, queryID : Nat,
     nr : Nat, ids : Seq(ProvidingIDs), rows : Seq(Rows), attrList : Seq(Attributes),
     misread : SUBSET (Nat \ {0})]

CacheTyped(cache) ==
    /\ DOMAIN cache \subseteq 1 .. sent
    /\ \A q \in DOMAIN cache : cache[q] \in Answers \cup {Waiting}

\* What asking makes of the handler, the cache and the queries.
LEMMA AskIs ==
    ASSUME TypeOK, InOrder, NEW h \in AnyHandlers, NEW cache, NEW pc \in Spins,
           NEW sql \in Queries, CacheTyped(cache), CacheInOrder(cache),
           Ask(h, cache, pc, sql), UNCHANGED fromDB
    PROVE  /\ cur' \in Handlers /\ cur'.pc = pc /\ cur'.nr = sent + 1
           /\ cur'.req = h.req /\ cur'.id = h.id /\ cur'.flag = h.flag /\ cur'.ids = h.ids
           /\ cur'.rows = h.rows /\ cur'.misread = h.misread
           /\ cur'.queryID \in DOMAIN dbQuery_cache' /\ sent' \in Nat
           /\ sent' = sent + 1
           /\ CacheTyped(dbQuery_cache)' /\ toDB' \in Seq(Messages)
           /\ InOrder'
           /\ \A m \in Elems(toDB') : m \in Elems(toDB) \/ (m.nr = sent + 1 /\ m.query = sql)
           /\ \A q \in DOMAIN dbQuery_cache' :
                dbQuery_cache'[q] # Waiting => dbQuery_cache'[q].nr <= sent
<1>. DEFINE n == sent + 1
            msg == [queryID |-> n, nr |-> n, query |-> sql]
<1>1. sent \in Nat /\ n \in Nat
  BY DEF TypeOK
<1>2. /\ dbQuery_cache' = With(cache, n, Waiting)
      /\ toDB' = Append(toDB, msg)
      /\ cur' = [h EXCEPT !.pc = pc, !.queryID = n, !.nr = n]
      /\ sent' = n
  BY DEF Ask, queryID
<1>3. /\ cur' \in Handlers /\ cur'.pc = pc /\ cur'.nr = n /\ cur'.queryID = n
      /\ cur'.req = h.req /\ cur'.id = h.id /\ cur'.flag = h.flag /\ cur'.ids = h.ids
      /\ cur'.rows = h.rows /\ cur'.misread = h.misread
  BY <1>1, <1>2 DEF AnyHandlers, Handlers, Steps
<1>4. msg \in Messages
  BY <1>1 DEF Messages
<1>5. /\ toDB' \in Seq(Messages) /\ Elems(toDB') = Elems(toDB) \cup {msg}
  BY <1>2, <1>4, ElemsOfAppend DEF TypeOK
<1>6. Ascending(toDB')
  <2>1. \A m \in Elems(toDB) : m.nr < msg.nr
    BY <1>1 DEF InOrder
  <2>. QED
    BY <1>2, <1>4, <2>1, AscendingAppend DEF TypeOK, InOrder
<1>7. /\ DOMAIN dbQuery_cache' = DOMAIN cache \cup {n}
      /\ \A q \in DOMAIN cache \ {n} : dbQuery_cache'[q] = cache[q]
      /\ dbQuery_cache'[n] = Waiting
  BY <1>2 DEF With
<1>8. CacheTyped(dbQuery_cache)'
  BY <1>1, <1>2, <1>7 DEF CacheTyped
<1>9. ASSUME NEW q \in DOMAIN dbQuery_cache', dbQuery_cache'[q] # Waiting
      PROVE  /\ q \in DOMAIN cache /\ dbQuery_cache'[q] = cache[q] /\ q <= sent
             /\ dbQuery_cache'[q].nr = q
             /\ \A m \in Elems(toDB) : q < m.nr
  BY <1>1, <1>7, <1>9 DEF CacheTyped, CacheInOrder
<1>10. CacheInOrder(dbQuery_cache)'
  BY <1>1, <1>5, <1>9 DEF CacheInOrder
<1>11. \A m \in Elems(toDB') : m.queryID = m.nr /\ m.nr \in 1 .. sent'
  BY <1>1, <1>2, <1>5 DEF InOrder
<1>12. \A a \in Elems(fromDB') :
         a.queryID = a.nr /\ a.nr \in 1 .. sent' /\ \A m \in Elems(toDB') : a.nr < m.nr
  BY <1>1, <1>2, <1>5 DEF InOrder
<1>13. InOrder'
  BY <1>2, <1>3, <1>6, <1>10, <1>11, <1>12 DEF InOrder
<1>. QED
  BY <1>1, <1>2, <1>3, <1>5, <1>7, <1>8, <1>9, <1>13

\* A handler whose answer has come: nothing is on its way to the service.
LEMMA WhenAnswered ==
    ASSUME TypeOK, InOrder, NEW pc \in Spins, Answered(pc)
    PROVE  /\ cur \in Handlers /\ cur \in AnyHandlers /\ cur.pc = pc
           /\ Answer \in Answers /\ Answer \in Own(Arrived) /\ Answer.nr = cur.nr
           /\ Elems(toDB) = {}
           /\ CacheTyped(dbQuery_cache) /\ CacheInOrder(dbQuery_cache)
           /\ CacheTyped(Cleared) /\ CacheInOrder(Cleared)
<1>1. cur.pc = pc /\ dbQuery_cache[cur.queryID] # Waiting
  BY DEF Answered
<1>2. cur \in Handlers
  BY <1>1 DEF TypeOK, Idle, Dead, Spins
<1>3. cur \in AnyHandlers
  BY <1>2 DEF Handlers, AnyHandlers
<1>4. cur.queryID \in DOMAIN dbQuery_cache /\ cur.queryID = cur.nr /\ cur.nr = sent
  BY <1>1 DEF TypeOK, InOrder
<1>5. Answer \in Answers /\ Answer.nr = cur.nr
  BY <1>1, <1>4 DEF Answer, TypeOK, InOrder, CacheInOrder
<1>6. Answer \in Own(Arrived)
  BY <1>1, <1>4, <1>5 DEF Answer, Own, Arrived
<1>7. Elems(toDB) = {}
  <2>. SUFFICES ASSUME NEW m \in Elems(toDB) PROVE FALSE
    OBVIOUS
  <2>1. sent < m.nr
    BY <1>1, <1>4 DEF InOrder, CacheInOrder
  <2>2. m.nr \in 1 .. sent
    BY DEF InOrder
  <2>. QED
    BY <2>1, <2>2 DEF TypeOK
<1>8. CacheTyped(dbQuery_cache) /\ CacheInOrder(dbQuery_cache)
  BY DEF CacheTyped, TypeOK, InOrder
<1>9. CacheTyped(Cleared) /\ CacheInOrder(Cleared)
  BY <1>8 DEF CacheTyped, CacheInOrder, Cleared, Without
<1>. QED
  BY <1>1, <1>2, <1>3, <1>5, <1>6, <1>7, <1>8, <1>9

\* What is left to say of a step by which a handler asks.
LEMMA AskKeeps ==
    ASSUME SafeInv, NEW h \in AnyHandlers, NEW cache, NEW pc \in Spins, NEW sql \in Queries,
           CacheTyped(cache), CacheInOrder(cache),
           Ask(h, cache, pc, sql), UNCHANGED <<subscribed, fromDB, db, lost, faults>>,
           deviceID_cache' \subseteq DeviceIDs, requests' \in 0 .. MaxRequests,
           members' \subseteq members, provided' \subseteq provided,
           \A p \in provided : p.nr < requests',
           sql.sql = "delete" =>
             /\ sql.table = "Device" =>
                  sql.id \notin members' /\ \A p \in provided' : p.device # sql.id
             /\ sql.table = "RegisterList" => \A p \in provided' : p.id # sql.id
    PROVE  /\ TypeOK' /\ InOrder'
           /\ PromisesKept' /\ DeletesUnpromised' /\ PromisesNumbered'
           /\ Own(Arrived)' = {}
           /\ \A m \in Own(Elems(toDB))' : m.query = sql
           /\ \A m \in Elems(toDB)' : m \in Elems(toDB) \/ m.query = sql
           /\ cur'.pc = pc /\ cur'.req = h.req /\ cur'.id = h.id /\ cur'.flag = h.flag
           /\ cur'.ids = h.ids /\ cur'.rows = h.rows /\ cur'.misread = h.misread
<1>. USE DEF SafeInv, TypeInv
<1>1. /\ cur' \in Handlers /\ cur'.pc = pc /\ cur'.nr = sent + 1
      /\ cur'.req = h.req /\ cur'.id = h.id /\ cur'.flag = h.flag /\ cur'.ids = h.ids
      /\ cur'.rows = h.rows /\ cur'.misread = h.misread
      /\ cur'.queryID \in DOMAIN dbQuery_cache' /\ sent' \in Nat
      /\ sent' = sent + 1
      /\ CacheTyped(dbQuery_cache)' /\ toDB' \in Seq(Messages)
      /\ InOrder'
      /\ \A m \in Elems(toDB') : m \in Elems(toDB) \/ (m.nr = sent + 1 /\ m.query = sql)
      /\ \A q \in DOMAIN dbQuery_cache' :
           dbQuery_cache'[q] # Waiting => dbQuery_cache'[q].nr <= sent
  BY AskIs
<1>2. sent \in Nat
  BY DEF TypeOK
<1>3. lost' \subseteq 1 .. sent'
  BY <1>1, <1>2 DEF TypeOK
<1>4. TypeOK'
  BY <1>1, <1>3 DEF TypeOK, CacheTyped
<1>5. PromisesKept'
  BY DEF PromisesKept
<1>6. DeletesUnpromised'
  BY <1>1 DEF DeletesUnpromised
<1>7. PromisesNumbered'
  <2>1. \A p \in provided : p.nr \in Nat
    BY DEF TypeOK, Registry!Provisions
  <2>2. requests' \in Nat
    OBVIOUS
  <2>. QED
    BY <2>1, <2>2 DEF PromisesNumbered
<1>8. ASSUME NEW a \in Arrived' PROVE a.nr # cur'.nr
  <2>1. CASE a \in Elems(fromDB')
    BY <1>1, <1>2, <2>1 DEF InOrder
  <2>2. ASSUME NEW q \in DOMAIN dbQuery_cache', dbQuery_cache'[q] # Waiting,
               a = dbQuery_cache'[q]
        PROVE  a.nr # cur'.nr
    <3>1. a \in Answers
      BY <1>1, <2>2 DEF CacheTyped
    <3>2. a.nr <= sent /\ a.nr \in Nat
      BY <1>1, <2>2, <3>1 DEF Answers
    <3>. QED
      BY <1>1, <1>2, <3>2
  <2>. QED
    BY <2>1, <2>2 DEF Arrived
<1>9. Own(Arrived)' = {}
  BY <1>8 DEF Own
<1>10. \A m \in Own(Elems(toDB))' : m.query = sql
  <2>. SUFFICES ASSUME NEW m \in Elems(toDB'), m.nr = cur'.nr PROVE m.query = sql
    BY DEF Own
  <2>1. m \in Elems(toDB) => m.nr \in 1 .. sent
    BY DEF InOrder
  <2>. QED
    BY <1>1, <1>2, <2>1
<1>. QED
  BY <1>1, <1>4, <1>5, <1>6, <1>7, <1>9, <1>10

\* A handler that has no position of its own owes nothing.
LEMMA NothingOwed ==
    ASSUME cur'.pc \notin {"device", "neighbors", "items", "registerID", "insert"}
    PROVE  HandlerInv'
  BY DEF HandlerInv, OwnQuery, JoinInv, RegisterInv

\* Publishing keeps the state well formed, whatever is promised by it.
LEMMA PublishIs ==
    ASSUME SafeInv, NEW h, NEW cache, NEW ok, CacheTyped(cache), CacheInOrder(cache),
           Publish(h, cache, ok), UNCHANGED <<subscribed, fromDB, db, lost, faults>>,
           deviceID_cache' \subseteq DeviceIDs, requests' \in 0 .. MaxRequests,
           members' \subseteq DeviceIDs, provided' \subseteq Registry!Provisions
    PROVE  TypeInv' /\ InOrder' /\ HandlerInv'
<1>. USE DEF SafeInv, TypeInv
<1>1. cur' = Idle /\ dbQuery_cache' = cache /\ toDB' = toDB /\ sent' = sent
  BY DEF Publish
<1>2. cur'.pc = "idle" /\ cur'.pc \notin Steps /\ cur'.pc \notin Spins
  BY <1>1 DEF Idle, Steps, Spins
<1>3. TypeOK'
  BY <1>1, <1>2 DEF TypeOK, CacheTyped
<1>4. Control'
  BY <1>2 DEF Control, Steps, Spins
<1>5. InOrder'
  BY <1>1, <1>2 DEF InOrder, CacheInOrder
<1>6. HandlerInv'
  BY <1>2, NothingOwed
<1>. QED
  BY <1>3, <1>4, <1>5, <1>6

\* An answer that promises nothing.
LEMMA PublishKeeps ==
    ASSUME SafeInv, NEW h, NEW cache, NEW ok \in BOOLEAN,
           CacheTyped(cache), CacheInOrder(cache),
           Publish(h, cache, ok), UNCHANGED <<subscribed, fromDB, db, lost, faults>>,
           deviceID_cache' \subseteq DeviceIDs, requests' \in 0 .. MaxRequests,
           requests' >= requests,
           ~ok \/ (~Granted(h) /\ ~Registered(h))
    PROVE  SafeInv' /\ UNCHANGED promises
<1>. USE DEF SafeInv, TypeInv
<1>1. /\ members' = members /\ provided' = provided /\ cur' = Idle /\ toDB' = toDB
  BY DEF Publish
<1>2. TypeInv' /\ InOrder' /\ HandlerInv'
  BY <1>1, PublishIs DEF TypeOK
<1>3. PromisesKept' /\ DeletesUnpromised'
  BY <1>1 DEF PromisesKept, DeletesUnpromised
<1>4. PromisesNumbered'
  <2>1. \A p \in provided : p.nr \in Nat
    BY DEF TypeOK, Registry!Provisions
  <2>2. requests \in Nat /\ requests' \in Nat
    BY DEF TypeOK
  <2>. QED
    BY <1>1, <2>1, <2>2 DEF PromisesNumbered, Idle, Steps, Spins
<1>. QED
  BY <1>1, <1>2, <1>3, <1>4 DEF promises

-----------------------------------------------------------------------------
(***************************************************************************)
(* The handlers.                                                           *)
(***************************************************************************)
HandlerFrame == UNCHANGED <<subscribed, fromDB, db, lost, requests, faults>>

LEMMA InHandler ==
    ASSUME SafeInv, cur.pc \in Steps, HandlerFrame
    PROVE  /\ requests' \in 0 .. MaxRequests /\ requests' >= requests
           /\ \A p \in provided : p.nr < requests'
           /\ UNCHANGED <<subscribed, fromDB, db, lost, faults>>
  BY BoundsAssumption DEF SafeInv, TypeInv, TypeOK, PromisesNumbered, HandlerFrame

LEMMA GenIDKeeps ==
    ASSUME SafeInv, NEW h \in AnyHandlers, NEW cache, NEW flag,
           CacheTyped(cache), CacheInOrder(cache),
           h.req \in JoinRequests, h.req.device \in Devices, h.ids = << >>, h.rows = << >>,
           GenID(h, cache, flag), UNCHANGED <<subscribed, fromDB, db, lost, faults>>,
           requests' \in 0 .. MaxRequests, \A p \in provided : p.nr < requests'
    PROVE  SafeInv' /\ UNCHANGED promises
<1>. USE DEF SafeInv, TypeInv
<1>1. PICK f \in Flags :
        /\ deviceID_cache' = deviceID_cache \cup {newID(f, h.req.device)}
        /\ Ask([h EXCEPT !.id = newID(f, h.req.device), !.flag = f], cache,
               "genID", Select("Device", newID(f, h.req.device)))
        /\ UNCHANGED promises
  BY DEF GenID
<1>. DEFINE id == newID(f, h.req.device)
            g == [h EXCEPT !.id = id, !.flag = f]
            sql == Select("Device", id)
<1>2. id \in DeviceIDs
  BY DEF DeviceIDs
<1>3. /\ g \in AnyHandlers /\ g.req = h.req /\ g.ids = << >> /\ g.rows = << >>
  BY <1>2 DEF AnyHandlers
<1>4. sql \in Queries /\ sql.sql # "delete"
  BY <1>2, QueryTypes DEF Select
<1>5. members' = members /\ provided' = provided
  BY <1>1 DEF promises
<1>6. deviceID_cache' \subseteq DeviceIDs
  BY <1>1, <1>2 DEF TypeOK
<1>7. "genID" \in Spins
  BY DEF Spins
<1>8. Ask(g, cache, "genID", sql)
  BY <1>1
<1>. HIDE DEF g, sql
<1>9. /\ TypeOK' /\ InOrder'
      /\ PromisesKept' /\ DeletesUnpromised' /\ PromisesNumbered'
      /\ cur'.pc = "genID" /\ cur'.req = g.req /\ cur'.ids = g.ids /\ cur'.rows = g.rows
  BY <1>3, <1>4, <1>5, <1>6, <1>7, <1>8, AskKeeps
<1>10. Control'
  BY <1>3, <1>9 DEF Control
<1>11. HandlerInv'
  BY <1>9, NothingOwed
<1>. QED
  BY <1>1, <1>9, <1>10, <1>11

LEMMA JoinGenIDKeeps ==
    ASSUME SafeInv, JoinGenID, HandlerFrame PROVE SafeInv' /\ UNCHANGED promises
<1>. USE DEF SafeInv, TypeInv
<1>1. /\ cur \in AnyHandlers /\ cur.pc = "genID"
      /\ CacheTyped(Cleared) /\ CacheInOrder(Cleared)
  BY WhenAnswered DEF JoinGenID, Spins
<1>2. /\ cur.req \in JoinRequests /\ cur.req.device \in Devices
      /\ cur.ids = << >> /\ cur.rows = << >>
  BY <1>1 DEF Control
<1>3. /\ requests' \in 0 .. MaxRequests /\ requests' >= requests
      /\ \A p \in provided : p.nr < requests'
      /\ UNCHANGED <<subscribed, fromDB, db, lost, faults>>
  BY <1>1, InHandler DEF Steps, Spins
<1>4. CASE GenID(cur, Cleared, cur.flag + collision_inc)
  BY <1>1, <1>2, <1>3, <1>4, GenIDKeeps
<1>. DEFINE rows == [i \in 1 .. cur.req.codes |-> DeviceRow(cur.id)]
<1>5. CASE /\ Ask(cur, Cleared, "device", Insert(rows))
           /\ UNCHANGED promises /\ UNCHANGED deviceID_cache
  <2>1. rows \in Seq(Rows)
    BY <1>1, <1>2, DeviceRowType DEF AnyHandlers, JoinRequests
  <2>2. Insert(rows) \in Queries /\ Insert(rows).sql # "delete"
    BY <2>1, QueryTypes DEF Insert
  <2>3. deviceID_cache' \subseteq DeviceIDs /\ members' = members /\ provided' = provided
    BY <1>5 DEF TypeOK, promises
  <2>4. "device" \in Spins
    BY DEF Spins
  <2>. HIDE DEF rows
  <2>5. /\ TypeOK' /\ InOrder'
        /\ PromisesKept' /\ DeletesUnpromised' /\ PromisesNumbered'
        /\ Own(Arrived)' = {}
        /\ \A m \in Own(Elems(toDB))' : m.query = Insert(rows)
        /\ cur'.pc = "device" /\ cur'.req = cur.req /\ cur'.id = cur.id
    BY <1>1, <1>3, <1>5, <2>2, <2>3, <2>4, AskKeeps
  <2>6. Control'
    BY <1>2, <2>5 DEF Control
  <2>7. HandlerInv'
    BY <2>5 DEF HandlerInv, OwnQuery, JoinInv, RegisterInv, rows
  <2>. QED
    BY <1>5, <2>5, <2>6, <2>7
<1>6. CASE Fail(cur, Cleared) /\ UNCHANGED deviceID_cache
  BY <1>1, <1>3, <1>6, PublishKeeps DEF Fail, TypeOK
<1>. QED
  BY <1>4, <1>5, <1>6 DEF JoinGenID

LEMMA JoinDeviceKeeps ==
    ASSUME SafeInv, JoinDevice, HandlerFrame PROVE SafeInv' /\ UNCHANGED promises
<1>. USE DEF SafeInv, TypeInv
<1>1. /\ cur \in AnyHandlers /\ cur.pc = "device"
      /\ Answer \in Own(Arrived) /\ Answer \in Answers /\ Elems(toDB) = {}
      /\ CacheTyped(dbQuery_cache) /\ CacheInOrder(dbQuery_cache)
  BY WhenAnswered DEF JoinDevice, Spins
<1>2. cur.req \in JoinRequests /\ cur.req.device \in Devices
  BY <1>1 DEF Control
<1>3. /\ requests' \in 0 .. MaxRequests /\ requests' >= requests
      /\ \A p \in provided : p.nr < requests'
      /\ UNCHANGED <<subscribed, fromDB, db, lost, faults>>
  BY <1>1, InHandler DEF Steps, Spins
<1>4. deviceID_cache' \subseteq DeviceIDs
  BY DEF JoinDevice, TypeOK
<1>. DEFINE rows == [i \in 1 .. Len(cur.req.neighbors) |->
                       NeighborRow(cur.req.neighbors[i], cur.id)]
<1>5. CASE /\ ~Answer.error
           /\ Ask(cur, dbQuery_cache, "neighbors", Insert(rows))
           /\ UNCHANGED promises
  <2>1. rows \in Seq(Rows)
    BY <1>1, <1>2, NeighborRowType DEF AnyHandlers, JoinRequests
  <2>2. Insert(rows) \in Queries /\ Insert(rows).sql # "delete"
    BY <2>1, QueryTypes DEF Insert
  <2>3. members' = members /\ provided' = provided
    BY <1>5 DEF promises
  <2>4. "neighbors" \in Spins
    BY DEF Spins
  <2>. HIDE DEF rows
  <2>5. /\ TypeOK' /\ InOrder'
        /\ PromisesKept' /\ DeletesUnpromised' /\ PromisesNumbered'
        /\ \A m \in Elems(toDB)' : m \in Elems(toDB) \/ m.query = Insert(rows)
        /\ cur'.pc = "neighbors" /\ cur'.req = cur.req /\ cur'.id = cur.id
    BY <1>1, <1>3, <1>4, <1>5, <2>2, <2>3, <2>4, AskKeeps
  <2>6. Control'
    BY <1>2, <2>5 DEF Control
  <2>7. cur.req.codes > 0 => Fresh
    BY <1>1, <1>5 DEF HandlerInv, JoinInv
  <2>8. \A m \in Elems(toDB)' : m.query.sql # "delete"
    BY <1>1, <2>2, <2>5
  <2>9. HandlerInv'
    BY <1>3, <2>3, <2>5, <2>7, <2>8 DEF HandlerInv, OwnQuery, JoinInv, RegisterInv, Fresh
  <2>. QED
    BY <1>5, <2>5, <2>6, <2>9
<1>6. CASE Fail(cur, dbQuery_cache)
  BY <1>1, <1>3, <1>4, <1>6, PublishKeeps DEF Fail
<1>. QED
  BY <1>5, <1>6 DEF JoinDevice

LEMMA JoinNeighborsKeeps ==
    ASSUME SafeInv, JoinNeighbors, HandlerFrame
    PROVE  /\ SafeInv'
           /\ UNCHANGED promises \/ (cur.id \in DeviceIDs /\ Registry!Admit(cur.id))
<1>. USE DEF SafeInv, TypeInv
<1>1. /\ cur \in AnyHandlers /\ cur.pc = "neighbors"
      /\ Answer \in Answers /\ Elems(toDB) = {}
      /\ CacheTyped(dbQuery_cache) /\ CacheInOrder(dbQuery_cache)
  BY WhenAnswered DEF JoinNeighbors, Spins
<1>2. cur.req \in JoinRequests
  BY <1>1 DEF Control
<1>3. /\ requests' \in 0 .. MaxRequests /\ requests' >= requests
      /\ \A p \in provided : p.nr < requests'
      /\ UNCHANGED <<subscribed, fromDB, db, lost, faults>>
  BY <1>1, InHandler DEF Steps, Spins
<1>4. deviceID_cache' \subseteq DeviceIDs /\ Publish(cur, dbQuery_cache, ~Answer.error)
  BY DEF JoinNeighbors, TypeOK
<1>5. ~Registered(cur) /\ (Granted(cur) <=> cur.req.codes > 0)
  BY <1>2 DEF Registered, Granted, JoinRequests
<1>6. CASE Answer.error \/ ~Granted(cur)
  <2>1. (~Answer.error) \in BOOLEAN
    BY <1>1 DEF Answers
  <2>. QED
    BY <1>1, <1>3, <1>4, <1>5, <1>6, <2>1, PublishKeeps
<1>7. CASE ~Answer.error /\ Granted(cur)
  <2>1. /\ members' = members \cup {cur.id} /\ provided' = provided
        /\ cur' = Idle /\ toDB' = toDB
    BY <1>4, <1>5, <1>7 DEF Publish
  <2>2. Fresh /\ cur.id \in DeviceIDs
    BY <1>1, <1>5, <1>7 DEF HandlerInv, JoinInv, AnyHandlers
  <2>3. members' \subseteq DeviceIDs /\ provided' \subseteq Registry!Provisions
    BY <2>1, <2>2 DEF TypeOK
  <2>4. TypeInv' /\ InOrder' /\ HandlerInv'
    BY <1>1, <1>3, <1>4, <2>3, PublishIs
  <2>5. PromisesKept'
    BY <1>3, <2>1, <2>2 DEF PromisesKept, Fresh
  <2>6. DeletesUnpromised'
    BY <1>1, <2>1 DEF DeletesUnpromised
  <2>7. PromisesNumbered'
    BY <2>1, <1>3 DEF PromisesNumbered, HandlerFrame, Idle, Steps, Spins
  <2>8. Registry!Admit(cur.id)
    BY <2>1, <2>2 DEF Registry!Admit, Fresh
  <2>. QED
    BY <2>2, <2>4, <2>5, <2>6, <2>7, <2>8
<1>. QED
  BY <1>6, <1>7


LEMMA LeaveKeeps ==
    ASSUME SafeInv, Leave, HandlerFrame PROVE SafeInv' /\ UNCHANGED promises
<1>. USE DEF SafeInv, TypeInv
<1>1. /\ cur \in AnyHandlers /\ cur.pc = "leave"
      /\ CacheTyped(dbQuery_cache) /\ CacheInOrder(dbQuery_cache)
      /\ CacheTyped(Cleared) /\ CacheInOrder(Cleared)
  BY WhenAnswered DEF Leave, Spins
<1>2. ~Granted(cur) /\ ~Registered(cur)
  BY <1>1 DEF Control, Granted, Registered
<1>3. /\ requests' \in 0 .. MaxRequests /\ requests' >= requests
      /\ UNCHANGED <<subscribed, fromDB, db, lost, faults>>
  BY <1>1, InHandler DEF Steps, Spins
<1>4. deviceID_cache' \subseteq DeviceIDs
  BY DEF Leave, TypeOK
<1>5. CASE Fail(cur, dbQuery_cache)
  BY <1>1, <1>3, <1>4, <1>5, PublishKeeps DEF Fail
<1>6. CASE Publish(cur, Cleared, cur.id \in deviceID_cache)
  <2>1. (cur.id \in deviceID_cache) \in BOOLEAN
    OBVIOUS
  <2>. QED
    BY <1>1, <1>2, <1>3, <1>4, <1>6, <2>1, PublishKeeps
<1>. QED
  BY <1>5, <1>6 DEF Leave

\* Between two items the handler asks nothing and promises nothing.
LEMMA ItemsKeeps ==
    ASSUME SafeInv, NEW cache, CacheTyped(cache), CacheInOrder(cache),
           cur' \in Handlers, cur'.pc = "items", dbQuery_cache' = cache,
           UNCHANGED <<toDB, sent, promises>>,
           UNCHANGED <<subscribed, fromDB, db, lost, faults>>,
           deviceID_cache' \subseteq DeviceIDs, requests' \in 0 .. MaxRequests,
           \A p \in provided : p.nr < requests'
    PROVE  /\ TypeOK' /\ InOrder'
           /\ PromisesKept' /\ DeletesUnpromised' /\ PromisesNumbered'
<1>. USE DEF SafeInv, TypeInv
<1>1. members' = members /\ provided' = provided
  BY DEF promises
<1>2. cur'.pc \notin Spins
  BY DEF Spins
<1>3. TypeOK'
  BY <1>1, <1>2 DEF TypeOK, CacheTyped
<1>4. InOrder'
  BY <1>2 DEF InOrder, CacheInOrder
<1>5. PromisesKept' /\ DeletesUnpromised'
  BY <1>1 DEF PromisesKept, DeletesUnpromised
<1>6. PromisesNumbered'
  <2>1. \A p \in provided : p.nr \in Nat
    BY DEF TypeOK, Registry!Provisions
  <2>. QED
    BY <1>1, <2>1 DEF PromisesNumbered
<1>. QED
  BY <1>3, <1>4, <1>5, <1>6

LEMMA ContinueKeeps ==
    ASSUME SafeInv, NEW h \in AnyHandlers, NEW cache,
           CacheTyped(cache), CacheInOrder(cache),
           h.ids = << >>, h.rows = << >>,
           Continue(h, cache), UNCHANGED <<subscribed, fromDB, db, lost, faults>>,
           deviceID_cache' \subseteq DeviceIDs, requests' \in 0 .. MaxRequests,
           requests' >= requests, \A p \in provided : p.nr < requests'
    PROVE  SafeInv' /\ UNCHANGED promises
<1>. USE DEF SafeInv, TypeInv
<1>1. h.req \in Requests /\ h.id \in DeviceIDs
  BY DEF AnyHandlers
<1>2. CASE /\ h.req.op = "register" /\ cur' = [h EXCEPT !.pc = "items"]
           /\ dbQuery_cache' = cache /\ UNCHANGED <<toDB, sent, promises>>
  <2>1. /\ cur' \in Handlers /\ cur'.pc = "items" /\ cur'.req = h.req
        /\ cur'.ids = << >> /\ cur'.rows = << >>
    BY <1>2 DEF AnyHandlers, Handlers, Steps
  <2>2. /\ TypeOK' /\ InOrder'
        /\ PromisesKept' /\ DeletesUnpromised' /\ PromisesNumbered'
    BY <1>2, <2>1, ItemsKeeps
  <2>3. h.req \in RegisterRequests
    BY <1>1, <1>2, RequestKinds
  <2>4. Control'
    <3>1. Len(h.req.items) \in Nat
      BY <2>3 DEF RegisterRequests
    <3>. QED
      BY <2>1, <2>3, <3>1 DEF Control
  <2>5. HandlerInv'
    BY <2>1 DEF HandlerInv, OwnQuery, JoinInv, RegisterInv
  <2>. QED
    BY <1>2, <2>2, <2>4, <2>5
<1>3. ASSUME NEW pc \in {"found", "query"}, NEW sql \in Queries, sql.sql = "select",
             pc = "found" => h.req.op = "update", pc = "query" => h.req.op = "query",
             Ask(h, cache, pc, sql), UNCHANGED promises
      PROVE  SafeInv' /\ UNCHANGED promises
  <2>1. members' = members /\ provided' = provided
    BY <1>3 DEF promises
  <2>2. pc \in Spins
    BY DEF Spins
  <2>3. /\ TypeOK' /\ InOrder'
        /\ PromisesKept' /\ DeletesUnpromised' /\ PromisesNumbered'
        /\ cur'.pc = pc /\ cur'.req = h.req
    BY <1>3, <2>1, <2>2, AskKeeps
  <2>4. pc = "found" => h.req \in UpdateRequests
    BY <1>1, <1>3, RequestKinds
  <2>5. Control'
    BY <1>3, <2>3, <2>4 DEF Control
  <2>6. HandlerInv'
    BY <2>3, NothingOwed
  <2>. QED
    BY <1>3, <2>3, <2>5, <2>6
<1>4. CASE h.req.op = "update" /\ Ask(h, cache, "found", SelectNothing) /\ UNCHANGED promises
  <2>1. SelectNothing \in Queries /\ SelectNothing.sql = "select"
    BY QueryTypes DEF SelectNothing
  <2>. QED
    BY <1>3, <1>4, <2>1
<1>5. CASE /\ h.req.op = "query" /\ Ask(h, cache, "query", Select("Device", h.id))
           /\ UNCHANGED promises
  <2>1. Select("Device", h.id) \in Queries /\ Select("Device", h.id).sql = "select"
    BY <1>1, QueryTypes DEF Select
  <2>. QED
    BY <1>3, <1>5, <2>1
<1>6. CASE Fail(h, cache)
  BY <1>6, PublishKeeps DEF Fail
<1>. QED
  BY <1>2, <1>4, <1>5, <1>6 DEF Continue

LEMMA DeviceExistsKeeps ==
    ASSUME SafeInv, DeviceExists, HandlerFrame PROVE SafeInv' /\ UNCHANGED promises
<1>. USE DEF SafeInv, TypeInv
<1>1. /\ cur \in AnyHandlers /\ cur.pc = "exists"
      /\ CacheTyped(Cleared) /\ CacheInOrder(Cleared)
  BY WhenAnswered DEF DeviceExists, Spins
<1>2. cur.ids = << >> /\ cur.rows = << >> /\ cur.id \in DeviceIDs
  BY <1>1 DEF Control, AnyHandlers
<1>3. /\ requests' \in 0 .. MaxRequests /\ requests' >= requests
      /\ \A p \in provided : p.nr < requests'
      /\ UNCHANGED <<subscribed, fromDB, db, lost, faults>>
  BY <1>1, InHandler DEF Steps, Spins
<1>4. deviceID_cache' \subseteq DeviceIDs
  BY <1>2 DEF DeviceExists, TypeOK
<1>5. CASE Continue(cur, Cleared)
  BY <1>1, <1>2, <1>3, <1>4, <1>5, ContinueKeeps
<1>6. CASE Fail(cur, Cleared)
  BY <1>1, <1>3, <1>4, <1>6, PublishKeeps DEF Fail
<1>. QED
  BY <1>5, <1>6 DEF DeviceExists

LEMMA FirstEntries ==
    ASSUME NEW S, NEW s \in Seq(S), NEW t \in Seq(S)
    PROVE  SubSeq(s \o t, 1, Len(t)) \in Seq(S)
<1>1. s \o t \in Seq(S) /\ Len(t) \in Nat /\ Len(t) <= Len(s \o t)
  OBVIOUS
<1>2. \A u \in Seq(S), n \in Nat : n <= Len(u) => SubSeq(u, 1, n) \in Seq(S)
  OBVIOUS
<1>. QED
  BY <1>1, <1>2

\* A handler with one more item, as register's loop leaves it.
LEMMA WithIDIs ==
    ASSUME NEW h \in Handlers, h.req \in RegisterRequests, NEW id \in ProvidingIDs,
           Len(h.rows) = Len(h.ids), Len(h.ids) < Len(h.req.items)
    PROVE  LET g == WithID(h, id) IN
           /\ g \in Handlers /\ g.pc = "items" /\ g.req = h.req /\ g.id = h.id
           /\ g.misread = h.misread
           /\ Len(g.ids) = Len(h.ids) + 1 /\ Len(g.rows) = Len(h.rows) + 1
           /\ \A k \in DOMAIN h.ids : g.ids[k] = h.ids[k] /\ g.rows[k] = h.rows[k]
           /\ g.ids[Len(h.ids) + 1] = id
           /\ g.rows[Len(h.ids) + 1].table = "RegisterList"
           /\ g.rows[Len(h.ids) + 1].id = id
           /\ g.rows[Len(h.ids) + 1].device = h.id
<1>. DEFINE attrList == h.attrList \o Item(h).attributes
            attributes == SubSeq(attrList, 1, Len(Item(h).attributes))
            row == [table |-> "RegisterList", id |-> id, device |-> h.id,
                    attributes |-> attributes]
<1>1. /\ h.ids \in Seq(ProvidingIDs) /\ h.rows \in Seq(Rows)
      /\ h.attrList \in Seq(Attributes) /\ h.id \in DeviceIDs
      /\ h.req.items \in Seq(Items)
  BY DEF Handlers, RegisterRequests
<1>2. Item(h) \in Items
  <2>1. Len(h.ids) + 1 \in 1 .. Len(h.req.items)
    BY <1>1
  <2>. QED
    BY <1>1, <2>1 DEF Item
<1>3. Item(h).attributes \in Seq(Attributes)
  BY <1>2 DEF Items
<1>4. attrList \in Seq(Attributes)
  BY <1>1, <1>3
<1>5. attributes \in Seq(Attributes)
  BY <1>1, <1>3, FirstEntries
<1>. HIDE DEF attributes
<1>6. row \in Rows
  BY <1>1, <1>5 DEF Rows
<1>7. row.table = "RegisterList" /\ row.id = id /\ row.device = h.id
  OBVIOUS
<1>8. WithID(h, id) = [h EXCEPT !.pc = "items", !.ids = Append(h.ids, id),
                         !.rows = Append(h.rows, row), !.attrList = attrList]
  BY DEF WithID, attributes
<1>. HIDE DEF row, attrList
<1>9. /\ Append(h.ids, id) \in Seq(ProvidingIDs) /\ Len(Append(h.ids, id)) = Len(h.ids) + 1
      /\ \A k \in DOMAIN h.ids : Append(h.ids, id)[k] = h.ids[k]
      /\ Append(h.ids, id)[Len(h.ids) + 1] = id
  BY <1>1
<1>10. /\ Append(h.rows, row) \in Seq(Rows) /\ Len(Append(h.rows, row)) = Len(h.rows) + 1
       /\ \A k \in DOMAIN h.rows : Append(h.rows, row)[k] = h.rows[k]
       /\ Append(h.rows, row)[Len(h.rows) + 1] = row
       /\ DOMAIN h.ids = 1 .. Len(h.ids) /\ DOMAIN h.rows = 1 .. Len(h.rows)
  BY <1>1, <1>6
<1>11. /\ WithID(h, id) \in Handlers /\ WithID(h, id).pc = "items"
       /\ WithID(h, id).req = h.req /\ WithID(h, id).id = h.id
       /\ WithID(h, id).misread = h.misread
       /\ WithID(h, id).ids = Append(h.ids, id) /\ WithID(h, id).rows = Append(h.rows, row)
  BY <1>4, <1>8, <1>9, <1>10 DEF Handlers, Steps
<1>. QED
  BY <1>7, <1>9, <1>10, <1>11

\* What a registration knows of the items it has given IDs.
LEMMA InRegister ==
    ASSUME TypeOK, Control, cur.pc \in {"items", "registerID", "insert"}
    PROVE  /\ cur \in Handlers /\ cur.req \in RegisterRequests
           /\ cur.ids \in Seq(ProvidingIDs) /\ cur.rows \in Seq(Rows)
           /\ cur.req.items \in Seq(Items)
           /\ Len(cur.rows) = Len(cur.ids) /\ DOMAIN cur.ids = 1 .. Len(cur.ids)
           /\ Len(cur.ids) \in Nat
<1>1. cur \in Handlers
  BY DEF TypeOK, Idle, Dead
<1>2. cur.req \in RegisterRequests /\ Len(cur.rows) = Len(cur.ids)
  BY DEF Control
<1>. QED
  BY <1>1, <1>2 DEF Handlers, RegisterRequests

\* An item that is not for anybody's ID, or whose ID was asked for and is free.
LEMMA ItemStored ==
    ASSUME SafeInv, cur.pc \in {"items", "registerID"}, HandlerFrame,
           Len(cur.ids) < Len(cur.req.items),
           NEW id \in ProvidingIDs, NEW cache, CacheTyped(cache), CacheInOrder(cache),
           NEW misread \in SUBSET (Nat \ {0}), cur.misread \subseteq misread,
           cur' = [WithID(cur, id) EXCEPT !.misread = misread],
           dbQuery_cache' = cache, UNCHANGED <<toDB, sent, deviceID_cache, promises>>,
           Item(cur).collisionAvoid /\ Len(cur.ids) + 1 \notin misread => Free(id)
    PROVE  SafeInv'
<1>. USE DEF SafeInv, TypeInv
<1>1. /\ cur \in Handlers /\ cur.req \in RegisterRequests
      /\ Len(cur.rows) = Len(cur.ids) /\ DOMAIN cur.ids = 1 .. Len(cur.ids)
      /\ Len(cur.ids) \in Nat
  BY InRegister
<1>2. /\ WithID(cur, id) \in Handlers
      /\ cur' \in Handlers /\ cur'.pc = "items" /\ cur'.req = cur.req /\ cur'.id = cur.id
      /\ cur'.misread = misread
      /\ Len(cur'.ids) = Len(cur.ids) + 1 /\ Len(cur'.rows) = Len(cur.rows) + 1
      /\ \A k \in DOMAIN cur.ids : cur'.ids[k] = cur.ids[k] /\ cur'.rows[k] = cur.rows[k]
      /\ cur'.ids[Len(cur.ids) + 1] = id
      /\ cur'.rows[Len(cur.ids) + 1].table = "RegisterList"
      /\ cur'.rows[Len(cur.ids) + 1].id = id
      /\ cur'.rows[Len(cur.ids) + 1].device = cur.id
  <2>1. LET g == WithID(cur, id) IN
        /\ g \in Handlers /\ g.pc = "items" /\ g.req = cur.req /\ g.id = cur.id
        /\ g.misread = cur.misread
        /\ Len(g.ids) = Len(cur.ids) + 1 /\ Len(g.rows) = Len(cur.rows) + 1
        /\ \A k \in DOMAIN cur.ids : g.ids[k] = cur.ids[k] /\ g.rows[k] = cur.rows[k]
        /\ g.ids[Len(cur.ids) + 1] = id
        /\ g.rows[Len(cur.ids) + 1].table = "RegisterList"
        /\ g.rows[Len(cur.ids) + 1].id = id
        /\ g.rows[Len(cur.ids) + 1].device = cur.id
    BY <1>1, WithIDIs
  <2>2. cur' \in Handlers
    BY <2>1 DEF Handlers
  <2>3. /\ cur'.pc = WithID(cur, id).pc /\ cur'.req = WithID(cur, id).req
        /\ cur'.id = WithID(cur, id).id /\ cur'.ids = WithID(cur, id).ids
        /\ cur'.rows = WithID(cur, id).rows /\ cur'.misread = misread
    BY <2>1 DEF Handlers
  <2>. QED
    BY <2>1, <2>2, <2>3
<1>3. /\ requests' \in 0 .. MaxRequests
      /\ \A p \in provided : p.nr < requests'
      /\ UNCHANGED <<subscribed, fromDB, db, lost, faults>>
  BY InHandler DEF Steps, Spins
<1>4. deviceID_cache' \subseteq DeviceIDs
  BY DEF TypeOK
<1>5. /\ TypeOK' /\ InOrder'
      /\ PromisesKept' /\ DeletesUnpromised' /\ PromisesNumbered'
  BY <1>2, <1>3, <1>4, ItemsKeeps
<1>6. DOMAIN cur'.ids = 1 .. Len(cur.ids) + 1
  BY <1>2 DEF Handlers
<1>7. Control'
  <2>1. Len(cur'.ids) <= Len(cur'.req.items) /\ Len(cur'.rows) = Len(cur'.ids)
    <3>1. Len(cur.req.items) \in Nat
      BY <1>1 DEF RegisterRequests
    <3>. QED
      BY <1>1, <1>2, <3>1
  <2>2. \A k \in DOMAIN cur'.ids :
          /\ cur'.rows[k].table = "RegisterList"
          /\ cur'.rows[k].id = cur'.ids[k]
          /\ cur'.rows[k].device = cur'.id
    <3>. TAKE k \in DOMAIN cur'.ids
    <3>1. CASE k \in DOMAIN cur.ids
      BY <1>2, <3>1 DEF Control
    <3>2. CASE k = Len(cur.ids) + 1
      BY <1>2, <3>2
    <3>. QED
      BY <1>1, <1>6, <3>1, <3>2
  <2>. QED
    BY <1>1, <1>2, <2>1, <2>2 DEF Control
<1>8. provided' = provided
  BY DEF promises
<1>9. ASSUME NEW k \in DOMAIN cur'.ids, cur'.req.items[k].collisionAvoid, k \notin misread
      PROVE  \A q \in provided : q.id # cur'.ids[k]
  <2>1. CASE k \in DOMAIN cur.ids
    BY <1>2, <1>9, <2>1 DEF HandlerInv, RegisterInv, Free
  <2>2. CASE k = Len(cur.ids) + 1
    BY <1>2, <1>9, <2>2 DEF Item, Free
  <2>. QED
    BY <1>1, <1>6, <2>1, <2>2
<1>10. HandlerInv'
  BY <1>2, <1>8, <1>9 DEF HandlerInv, OwnQuery, JoinInv, RegisterInv, Free
<1>. QED
  BY <1>5, <1>7, <1>8, <1>10

LEMMA ItemIDs ==
    ASSUME NEW h \in Handlers, h.req \in RegisterRequests, Len(h.ids) < Len(h.req.items)
    PROVE  Item(h) \in Items /\ \A f \in Flags : newID(f, Item(h).hash) \in ProvidingIDs
<1>1. h.ids \in Seq(ProvidingIDs) /\ h.req.items \in Seq(Items)
  BY DEF Handlers, RegisterRequests
<1>2. Len(h.ids) + 1 \in 1 .. Len(h.req.items)
  BY <1>1
<1>3. Item(h) \in Items
  BY <1>1, <1>2 DEF Item
<1>4. Item(h).hash \in Hashes
  BY <1>3 DEF Items
<1>. QED
  BY <1>3, <1>4 DEF ProvidingIDs

\* A registration asks whether an ID is taken.
LEMMA AskRegisterIDKeeps ==
    ASSUME SafeInv, cur.pc \in {"items", "registerID"}, HandlerFrame,
           Len(cur.ids) < Len(cur.req.items),
           NEW cache, NEW flag, CacheTyped(cache), CacheInOrder(cache),
           AskRegisterID(cur, cache, flag), UNCHANGED <<deviceID_cache, promises>>
    PROVE  SafeInv'
<1>. USE DEF SafeInv, TypeInv
<1>. DEFINE g == [cur EXCEPT !.flag = flag]
            sql == Select("RegisterList", newID(flag, Item(cur).hash))
<1>1. /\ cur \in Handlers /\ cur.req \in RegisterRequests
      /\ Len(cur.rows) = Len(cur.ids)
  BY InRegister
<1>2. flag \in Flags /\ Ask(g, cache, "registerID", sql)
  BY DEF AskRegisterID
<1>3. /\ g \in AnyHandlers /\ g.req = cur.req /\ g.ids = cur.ids /\ g.rows = cur.rows
      /\ g.id = cur.id /\ g.misread = cur.misread /\ g.flag = flag
  BY <1>1, <1>2 DEF Handlers, AnyHandlers
<1>4. newID(flag, Item(cur).hash) \in ProvidingIDs
  BY <1>1, <1>2, ItemIDs
<1>5. sql \in Queries /\ sql.sql = "select"
  BY <1>4, QueryTypes DEF Select
<1>6. /\ requests' \in 0 .. MaxRequests
      /\ \A p \in provided : p.nr < requests'
      /\ UNCHANGED <<subscribed, fromDB, db, lost, faults>>
  BY InHandler DEF Steps, Spins
<1>7. deviceID_cache' \subseteq DeviceIDs /\ members' = members /\ provided' = provided
  BY DEF TypeOK, promises
<1>8. "registerID" \in Spins
  BY DEF Spins
<1>. HIDE DEF g, sql
<1>9. /\ TypeOK' /\ InOrder'
      /\ PromisesKept' /\ DeletesUnpromised' /\ PromisesNumbered'
      /\ Own(Arrived)' = {}
      /\ \A m \in Own(Elems(toDB))' : m.query = sql
      /\ cur'.pc = "registerID" /\ cur'.req = cur.req /\ cur'.id = cur.id
      /\ cur'.flag = flag /\ cur'.ids = cur.ids /\ cur'.rows = cur.rows
      /\ cur'.misread = cur.misread
  BY <1>2, <1>3, <1>5, <1>6, <1>7, <1>8, AskKeeps
<1>10. Control'
  BY <1>1, <1>9 DEF Control
<1>11. Item(cur)' = Item(cur)
  BY <1>9 DEF Item
<1>12. OwnQuery'
  BY <1>9, <1>11 DEF OwnQuery, sql
<1>13. RegisterInv'
  BY <1>7, <1>9 DEF HandlerInv, RegisterInv, Free
<1>14. JoinInv'
  BY <1>9 DEF JoinInv
<1>. QED
  BY <1>9, <1>10, <1>12, <1>13, <1>14 DEF HandlerInv

LEMMA RegisterItemKeeps ==
    ASSUME SafeInv, RegisterItem, HandlerFrame PROVE SafeInv' /\ UNCHANGED promises
<1>. USE DEF SafeInv, TypeInv
<1>1. /\ cur.pc = "items" /\ Len(cur.ids) < Len(cur.req.items)
      /\ UNCHANGED <<deviceID_cache, promises>>
  BY DEF RegisterItem
<1>2. cur \in Handlers /\ cur.req \in RegisterRequests
  BY <1>1, InRegister
<1>3. CacheTyped(dbQuery_cache) /\ CacheInOrder(dbQuery_cache)
  BY DEF CacheTyped, TypeOK, InOrder
<1>. DEFINE flag == gen_flag(Item(cur).cache, Item(cur).segment, 0)
            id == newID(flag, Item(cur).hash)
<1>4. CASE AskRegisterID(cur, dbQuery_cache, flag)
  <2>. HIDE DEF flag
  <2>. QED
    BY <1>1, <1>3, <1>4, AskRegisterIDKeeps
<1>5. CASE /\ ~Item(cur).collisionAvoid
           /\ flag \in Flags /\ cur' = WithID(cur, id)
           /\ UNCHANGED <<dbQuery_cache, toDB, sent>>
  <2>. HIDE DEF flag
  <2>1. id \in ProvidingIDs
    BY <1>1, <1>2, <1>5, ItemIDs
  <2>. HIDE DEF id
  <2>2. /\ Len(cur.rows) = Len(cur.ids)
    BY <1>1, InRegister
  <2>3. WithID(cur, id) \in Handlers /\ WithID(cur, id).misread = cur.misread
    BY <1>1, <1>2, <2>1, <2>2, WithIDIs
  <2>4. /\ cur' = [WithID(cur, id) EXCEPT !.misread = cur.misread]
        /\ cur.misread \in SUBSET (Nat \ {0})
    BY <1>2, <1>5, <2>3 DEF Handlers
  <2>. QED
    BY <1>1, <1>3, <1>5, <2>1, <2>4, ItemStored
<1>. QED
  BY <1>1, <1>4, <1>5 DEF RegisterItem

LEMMA RegisterGenIDKeeps ==
    ASSUME SafeInv, RegisterGenID, HandlerFrame PROVE SafeInv' /\ UNCHANGED promises
<1>. USE DEF SafeInv, TypeInv
<1>1. /\ cur \in Handlers /\ cur.pc = "registerID"
      /\ Answer \in Own(Arrived) /\ Answer \in Answers
      /\ CacheTyped(Cleared) /\ CacheInOrder(Cleared)
  BY WhenAnswered DEF RegisterGenID, Spins
<1>2. UNCHANGED <<deviceID_cache, promises>>
  BY DEF RegisterGenID
<1>3. Len(cur.ids) < Len(cur.req.items)
  BY <1>1 DEF Control
<1>4. cur.req \in RegisterRequests
  BY <1>1, InRegister
<1>5. CASE AskRegisterID(cur, Cleared, cur.flag + collision_inc)
  BY <1>1, <1>2, <1>3, <1>5, AskRegisterIDKeeps
<1>. DEFINE id == newID(cur.flag, Item(cur).hash)
<1>6. CASE /\ ~RegisterCollides
           /\ cur' = [WithID(cur, id) EXCEPT !.misread = Misread(cur)]
           /\ dbQuery_cache' = Cleared /\ UNCHANGED <<toDB, sent>>
  <2>1. id \in ProvidingIDs
    BY <1>1, <1>3, <1>4, ItemIDs DEF Handlers
  <2>2. Answer.error \/ Free(id)
    BY <1>1, <1>6 DEF HandlerInv, RegisterInv, RegisterCollides
  <2>3. cur.misread \in SUBSET (Nat \ {0}) /\ Len(cur.ids) \in Nat
    BY <1>1 DEF Handlers
  <2>4. /\ Misread(cur) \in SUBSET (Nat \ {0}) /\ cur.misread \subseteq Misread(cur)
        /\ Len(cur.ids) + 1 \notin Misread(cur) => ~Answer.error
    BY <2>3 DEF Misread
  <2>. HIDE DEF id
  <2>. QED
    BY <1>1, <1>2, <1>3, <1>6, <2>1, <2>2, <2>4, ItemStored
<1>. QED
  BY <1>2, <1>5, <1>6 DEF RegisterGenID

LEMMA RegisterAllKeeps ==
    ASSUME SafeInv, RegisterAll, HandlerFrame PROVE SafeInv' /\ UNCHANGED promises
<1>. USE DEF SafeInv, TypeInv
<1>1. /\ cur.pc = "items" /\ Ask(cur, dbQuery_cache, "insert", Insert(cur.rows))
      /\ UNCHANGED <<deviceID_cache, promises>>
  BY DEF RegisterAll
<1>2. /\ cur \in Handlers /\ cur.req \in RegisterRequests /\ cur.rows \in Seq(Rows)
      /\ Len(cur.rows) = Len(cur.ids)
  BY <1>1, InRegister
<1>3. cur \in AnyHandlers
  BY <1>2 DEF Handlers, AnyHandlers
<1>4. CacheTyped(dbQuery_cache) /\ CacheInOrder(dbQuery_cache)
  BY DEF CacheTyped, TypeOK, InOrder
<1>5. Insert(cur.rows) \in Queries /\ Insert(cur.rows).sql = "insert"
  BY <1>2, QueryTypes DEF Insert
<1>6. /\ requests' \in 0 .. MaxRequests
      /\ \A p \in provided : p.nr < requests'
      /\ UNCHANGED <<subscribed, fromDB, db, lost, faults>>
  BY <1>1, InHandler DEF Steps, Spins
<1>7. deviceID_cache' \subseteq DeviceIDs /\ members' = members /\ provided' = provided
  BY <1>1 DEF TypeOK, promises
<1>8. "insert" \in Spins
  BY DEF Spins
<1>9. /\ TypeOK' /\ InOrder'
      /\ PromisesKept' /\ DeletesUnpromised' /\ PromisesNumbered'
      /\ Own(Arrived)' = {}
      /\ \A m \in Own(Elems(toDB))' : m.query = Insert(cur.rows)
      /\ cur'.pc = "insert" /\ cur'.req = cur.req /\ cur'.id = cur.id
      /\ cur'.ids = cur.ids /\ cur'.rows = cur.rows
      /\ cur'.misread = cur.misread
  BY <1>1, <1>3, <1>4, <1>5, <1>6, <1>7, <1>8, AskKeeps
<1>10. Control'
  BY <1>1, <1>2, <1>9 DEF Control
<1>11. OwnQuery' /\ JoinInv'
  BY <1>9 DEF OwnQuery, JoinInv
<1>12. RegisterInv'
  BY <1>1, <1>7, <1>9 DEF HandlerInv, RegisterInv, Free
<1>. QED
  BY <1>1, <1>9, <1>10, <1>11, <1>12 DEF HandlerInv

LEMMA RegisterInsertKeeps ==
    ASSUME SafeInv, RegisterInsert, HandlerFrame
    PROVE  /\ SafeInv'
           /\ UNCHANGED promises \/ (cur.id \in DeviceIDs /\ Registry!Provide(cur.id))
<1>. USE DEF SafeInv, TypeInv
<1>1. /\ cur \in AnyHandlers /\ cur \in Handlers /\ cur.pc = "insert"
      /\ Answer \in Own(Arrived) /\ Elems(toDB) = {}
      /\ CacheTyped(dbQuery_cache) /\ CacheInOrder(dbQuery_cache)
      /\ CacheTyped(Cleared) /\ CacheInOrder(Cleared)
  BY WhenAnswered DEF RegisterInsert, Spins
<1>2. /\ cur.req \in RegisterRequests /\ cur.ids \in Seq(ProvidingIDs)
      /\ cur.req.items \in Seq(Items) /\ DOMAIN cur.ids = 1 .. Len(cur.ids)
      /\ Len(cur.ids) \in Nat
  BY <1>1, InRegister
<1>3. /\ requests' \in 0 .. MaxRequests /\ requests' >= requests
      /\ UNCHANGED <<subscribed, fromDB, db, lost, faults>> /\ requests' = requests
  BY <1>1, InHandler DEF Steps, Spins, HandlerFrame
<1>4. deviceID_cache' \subseteq DeviceIDs
  BY DEF RegisterInsert, TypeOK
<1>5. CASE Fail(cur, dbQuery_cache)
  BY <1>1, <1>3, <1>4, <1>5, PublishKeeps DEF Fail
<1>6. CASE ~Answer.error /\ Publish(cur, Cleared, TRUE)
  <2>. DEFINE P(k) == [nr        |-> requests,
                       id        |-> cur.ids[k],
                       device    |-> cur.id,
                       exclusive |-> cur.req.items[k].collisionAvoid
                                       /\ k \notin cur.misread]
              added == {P(k) : k \in DOMAIN cur.ids}
  <2>1. Registered(cur) /\ ~Granted(cur)
    BY <1>2 DEF Registered, Granted, RegisterRequests
  <2>2. /\ provided' = provided \cup added /\ members' = members
        /\ cur' = Idle /\ toDB' = toDB
    BY <1>6, <2>1 DEF Publish
  <2>3. \A k \in DOMAIN cur.ids :
          /\ cur.rows[k] \in db
          /\ \A q \in provided : q.id = cur.ids[k] => q.device # cur.id
          /\ \A l \in DOMAIN cur.ids : k # l => cur.ids[k] # cur.ids[l]
    BY <1>1, <1>6 DEF HandlerInv, RegisterInv, AllIn
  <2>4. \A k \in DOMAIN cur.ids :
          cur.req.items[k].collisionAvoid /\ k \notin cur.misread =>
            \A q \in provided : q.id # cur.ids[k]
    BY <1>1 DEF HandlerInv, RegisterInv, Free
  <2>5. \A p \in added : \E k \in DOMAIN cur.ids :
          /\ p = P(k) /\ p.nr = requests /\ p.id = cur.ids[k] /\ p.device = cur.id
          /\ p.exclusive => cur.req.items[k].collisionAvoid /\ k \notin cur.misread
    <3>. TAKE p \in added
    <3>1. PICK k \in DOMAIN cur.ids : p = P(k)
      OBVIOUS
    <3>2. P(k).nr = requests /\ P(k).id = cur.ids[k] /\ P(k).device = cur.id
      OBVIOUS
    <3>3. P(k).exclusive => cur.req.items[k].collisionAvoid /\ k \notin cur.misread
      OBVIOUS
    <3>. HIDE DEF P
    <3>. QED
      BY <3>1, <3>2, <3>3
  <2>6. cur.id \in DeviceIDs /\ requests \in Nat
    BY <1>1 DEF Handlers, TypeOK
  <2>7. ASSUME NEW k \in DOMAIN cur.ids PROVE P(k) \in Registry!Provisions
    <3>1. cur.ids[k] \in ProvidingIDs
      BY <1>2
    <3>2. cur.req.items[k] \in Items
      <4>1. Len(cur.ids) <= Len(cur.req.items) /\ Len(cur.req.items) \in Nat
        BY <1>1, <1>2 DEF Control
      <4>. QED
        BY <1>2, <4>1
    <3>3. cur.req.items[k].collisionAvoid \in BOOLEAN
      BY <3>2 DEF Items
    <3>4. (cur.req.items[k].collisionAvoid /\ k \notin cur.misread) \in BOOLEAN
      OBVIOUS
    <3>. QED
      BY <2>6, <3>1, <3>4 DEF Registry!Provisions
  <2>8. added \subseteq Registry!Provisions
    BY <2>7
  <2>. HIDE DEF P, added
  <2>9. provided' \subseteq Registry!Provisions /\ members' \subseteq DeviceIDs
    BY <2>2, <2>8 DEF TypeOK
  <2>10. TypeInv' /\ InOrder' /\ HandlerInv'
    BY <1>1, <1>3, <1>4, <1>6, <2>9, PublishIs
  <2>11. ASSUME NEW p \in added
         PROVE  \E r \in db : r.table = "RegisterList" /\ r.id = p.id /\ r.device = p.device
    <3>1. PICK k \in DOMAIN cur.ids : p.id = cur.ids[k] /\ p.device = cur.id
      BY <2>5
    <3>2. /\ cur.rows[k].table = "RegisterList" /\ cur.rows[k].id = cur.ids[k]
          /\ cur.rows[k].device = cur.id
      BY <1>1 DEF Control
    <3>. QED
      BY <2>3, <3>1, <3>2
  <2>12. PromisesKept'
    BY <1>3, <2>2, <2>11 DEF PromisesKept
  <2>13. DeletesUnpromised'
    BY <1>1, <2>2 DEF DeletesUnpromised
  <2>14. PromisesNumbered'
    <3>1. \A p \in provided : p.nr <= requests
      BY DEF PromisesNumbered
    <3>2. \A p \in added : p.nr <= requests
      BY <2>5, <2>6
    <3>3. cur'.pc \notin Steps
      BY <2>2 DEF Idle, Steps, Spins
    <3>. QED
      BY <1>3, <2>2, <3>1, <3>2, <3>3 DEF PromisesNumbered
  <2>15. \A q \in provided : q.nr # requests
    <3>1. \A q \in provided : q.nr < requests /\ q.nr \in Nat
      BY <1>1 DEF PromisesNumbered, Steps, Spins, TypeOK, Registry!Provisions
    <3>. QED
      BY <2>6, <3>1
  <2>16. ASSUME NEW p \in added, NEW q \in provided
         PROVE  p.nr # q.nr /\ ~(p.id = q.id /\ p.device = q.device)
    BY <2>3, <2>5, <2>15
  <2>17. ASSUME NEW p \in added, p.exclusive, NEW q \in provided' \ {p}
         PROVE  p.id # q.id
    <3>1. PICK k \in DOMAIN cur.ids :
            p = P(k) /\ p.id = cur.ids[k] /\ cur.req.items[k].collisionAvoid
            /\ k \notin cur.misread
      BY <2>5, <2>17
    <3>2. CASE q \in provided
      BY <2>4, <3>1, <3>2
    <3>3. CASE q \in added
      <4>1. PICK l \in DOMAIN cur.ids : q = P(l) /\ q.id = cur.ids[l]
        BY <2>5, <3>3
      <4>2. k # l
        BY <2>17, <3>1, <4>1
      <4>. QED
        BY <2>3, <3>1, <4>1, <4>2
    <3>. QED
      BY <2>2, <3>2, <3>3
  <2>18. provided' \ provided \subseteq added
    BY <2>2
  <2>19. Registry!Provide(cur.id)
    <3>. DEFINE new == provided' \ provided
    <3>1. provided \subseteq provided' /\ UNCHANGED members
      BY <2>2
    <3>2. new \subseteq Registry!Provisions
      BY <2>8, <2>18
    <3>3. \A p, q \in new : p.nr = q.nr
      BY <2>5, <2>18
    <3>4. \A p \in new : p.device = cur.id
      BY <2>5, <2>18
    <3>5. \A p \in new, q \in provided : p.nr # q.nr /\ ~Registry!SameProvision(p, q)
      BY <2>16, <2>18 DEF Registry!SameProvision
    <3>6. \A p \in new : p.exclusive => \A q \in provided' \ {p} : p.id # q.id
      BY <2>17, <2>18
    <3>. QED
      BY <3>1, <3>2, <3>3, <3>4, <3>5, <3>6 DEF Registry!Provide
  <2>. QED
    BY <2>6, <2>10, <2>12, <2>13, <2>14, <2>19
<1>. QED
  BY <1>5, <1>6 DEF RegisterInsert, Succeed

LEMMA UpdateFoundKeeps ==
    ASSUME SafeInv, UpdateFound, HandlerFrame
    PROVE  /\ SafeInv'
           /\ UNCHANGED promises
                \/ (cur.req.id \in ProvidingIDs /\ Registry!Withdraw(cur.req.id))
<1>. USE DEF SafeInv, TypeInv
<1>1. /\ cur \in AnyHandlers /\ cur.pc = "found"
      /\ CacheTyped(Cleared) /\ CacheInOrder(Cleared)
  BY WhenAnswered DEF UpdateFound, Spins
<1>2. cur.req \in UpdateRequests
  BY <1>1 DEF Control
<1>3. cur.req.id \in ProvidingIDs /\ cur.req.attributes \in Seq(Attributes)
  BY <1>2 DEF UpdateRequests
<1>4. /\ requests' \in 0 .. MaxRequests /\ requests' >= requests
      /\ \A p \in provided : p.nr < requests'
      /\ UNCHANGED <<subscribed, fromDB, db, lost, faults>>
  BY <1>1, InHandler DEF Steps, Spins
<1>5. deviceID_cache' \subseteq DeviceIDs
  BY DEF UpdateFound, TypeOK
<1>6. CASE Fail(cur, Cleared)
  BY <1>1, <1>4, <1>5, <1>6, PublishKeeps DEF Fail
<1>7. ASSUME NEW sql \in Queries, Ask(cur, Cleared, "update", sql),
             members' \subseteq members, provided' \subseteq provided,
             sql.sql = "delete" =>
               /\ sql.table = "RegisterList" /\ \A p \in provided' : p.id # sql.id
      PROVE  SafeInv'
  <2>1. "update" \in Spins
    BY DEF Spins
  <2>2. /\ TypeOK' /\ InOrder'
        /\ PromisesKept' /\ DeletesUnpromised' /\ PromisesNumbered'
        /\ cur'.pc = "update" /\ cur'.req = cur.req
    BY <1>1, <1>4, <1>5, <1>7, <2>1, AskKeeps
  <2>3. Control'
    BY <1>2, <2>2 DEF Control
  <2>4. HandlerInv'
    BY <2>2, NothingOwed
  <2>. QED
    BY <2>2, <2>3, <2>4
<1>8. CASE /\ Ask(cur, Cleared, "update", Delete("RegisterList", cur.req.id))
           /\ provided' = {p \in provided : p.id # cur.req.id}
           /\ UNCHANGED members
  <2>. DEFINE sql == Delete("RegisterList", cur.req.id)
  <2>1. sql \in Queries /\ sql.table = "RegisterList" /\ sql.id = cur.req.id
    BY <1>3, QueryTypes DEF Delete
  <2>2. members' \subseteq members /\ provided' \subseteq provided
        /\ \A p \in provided' : p.id # cur.req.id
    BY <1>8
  <2>. HIDE DEF sql
  <2>3. SafeInv'
    BY <1>7, <1>8, <2>1, <2>2 DEF sql
  <2>. QED
    BY <1>3, <1>8, <2>3 DEF Registry!Withdraw
<1>9. CASE /\ Ask(cur, Cleared, "update", SetAttributes(cur.req.id, cur.req.attributes))
           /\ UNCHANGED promises
  <2>. DEFINE sql == SetAttributes(cur.req.id, cur.req.attributes)
  <2>1. sql \in Queries /\ sql.sql # "delete"
    BY <1>3, QueryTypes DEF SetAttributes
  <2>2. members' \subseteq members /\ provided' \subseteq provided
    BY <1>9 DEF promises
  <2>. HIDE DEF sql
  <2>3. SafeInv'
    BY <1>7, <1>9, <2>1, <2>2 DEF sql
  <2>. QED
    BY <1>9, <2>3
<1>. QED
  BY <1>6, <1>8, <1>9 DEF UpdateFound

LEMMA UpdateOrQueryKeeps ==
    ASSUME SafeInv, Update \/ Query, HandlerFrame PROVE SafeInv' /\ UNCHANGED promises
<1>. USE DEF SafeInv, TypeInv
<1>1. PICK pc \in {"update", "query"} : Answered(pc)
  BY DEF Update, Query
<1>2. /\ cur.pc \in {"update", "query"}
      /\ CacheTyped(dbQuery_cache) /\ CacheInOrder(dbQuery_cache)
      /\ CacheTyped(Cleared) /\ CacheInOrder(Cleared)
  BY <1>1, WhenAnswered DEF Spins
<1>3. ~Granted(cur) /\ ~Registered(cur)
  BY <1>2 DEF Control, Granted, Registered, UpdateRequests
<1>4. /\ requests' \in 0 .. MaxRequests /\ requests' >= requests
      /\ UNCHANGED <<subscribed, fromDB, db, lost, faults>>
  BY <1>2, InHandler DEF Steps, Spins
<1>5. deviceID_cache' \subseteq DeviceIDs
  BY DEF Update, Query, TypeOK
<1>6. CASE Fail(cur, dbQuery_cache)
  BY <1>2, <1>4, <1>5, <1>6, PublishKeeps DEF Fail
<1>7. CASE Succeed(cur, Cleared)
  BY <1>2, <1>3, <1>4, <1>5, <1>7, PublishKeeps DEF Succeed
<1>. QED
  BY <1>6, <1>7 DEF Update, Query

LEMMA OnMessageKeeps ==
    ASSUME SafeInv, NEW req \in Requests, OnMessage(req)
    PROVE  /\ SafeInv'
           /\ UNCHANGED promises \/ \E device \in DeviceIDs : Registry!Dismiss(device)
<1>. USE DEF SafeInv, TypeInv
<1>1. /\ cur = Idle /\ requests < MaxRequests /\ requests' = requests + 1
      /\ UNCHANGED <<subscribed, fromDB, db, lost, faults>>
  BY DEF OnMessage
<1>2. \A p \in provided : p.nr \in Nat /\ p.nr <= requests
  BY DEF TypeOK, Registry!Provisions, PromisesNumbered
<1>3. /\ requests \in Nat /\ requests' \in 0 .. MaxRequests /\ requests' >= requests
      /\ \A p \in provided : p.nr < requests'
  BY <1>1, <1>2, BoundsAssumption DEF TypeOK
<1>4. CacheTyped(dbQuery_cache) /\ CacheInOrder(dbQuery_cache)
  BY DEF CacheTyped, TypeOK, InOrder
<1>5. CASE /\ cur' = Dead
           /\ UNCHANGED <<deviceID_cache, dbQuery_cache, toDB, sent, promises>>
  <2>1. members' = members /\ provided' = provided
    BY <1>5 DEF promises
  <2>2. cur'.pc = "dead" /\ cur'.pc \notin Spins /\ cur'.pc \notin Steps
    BY <1>5 DEF Dead, Spins, Steps
  <2>3. TypeOK'
    BY <1>1, <1>3, <1>5, <2>1, <2>2 DEF TypeOK
  <2>4. Control'
    BY <2>2 DEF Control, Spins, Steps
  <2>5. InOrder'
    BY <1>1, <1>5, <2>2 DEF InOrder, CacheInOrder
  <2>6. PromisesKept' /\ DeletesUnpromised'
    BY <1>1, <1>5, <2>1 DEF PromisesKept, DeletesUnpromised
  <2>7. PromisesNumbered'
    BY <1>2, <1>3, <2>1, <2>2 DEF PromisesNumbered
  <2>8. HandlerInv'
    BY <2>2, NothingOwed
  <2>. QED
    BY <1>5, <2>3, <2>4, <2>5, <2>6, <2>7, <2>8
<1>. DEFINE h == Start(req)
<1>6. CASE req.op # "garbage" /\ Handle(h)
  <2>1. req.device \in Senders
    BY <1>6, RequestKinds
  <2>2. /\ h \in AnyHandlers /\ h.req = req /\ h.id = req.device
        /\ h.ids = << >> /\ h.rows = << >>
    <3>1. req.device \in DeviceIDs
      BY <2>1 DEF DeviceIDs
    <3>2. 0 \in Flags
      BY BoundsAssumption DEF Flags
    <3>3. << >> \in Seq(ProvidingIDs) /\ << >> \in Seq(Rows) /\ << >> \in Seq(Attributes)
      OBVIOUS
    <3>. QED
      BY <3>1, <3>2, <3>3 DEF Start, AnyHandlers
  <2>. HIDE DEF h
  <2>3. h.id \in DeviceIDs
    BY <2>2 DEF AnyHandlers
  <2>4. deviceID_cache \subseteq DeviceIDs
    BY DEF TypeOK
  <2>5. CASE Fail(h, dbQuery_cache) /\ UNCHANGED deviceID_cache
    BY <1>1, <1>3, <1>4, <2>2, <2>4, <2>5, PublishKeeps DEF Fail
  <2>6. CASE h.id # NoDevice /\ h.req.op = "join" /\ GenID(h, dbQuery_cache, 0)
    <3>1. h.req \in JoinRequests /\ h.req.device \in Devices
      BY <2>1, <2>2, <2>6, RequestKinds DEF Senders
    <3>. QED
      BY <1>1, <1>3, <1>4, <2>2, <2>6, <3>1, GenIDKeeps
  <2>7. CASE h.req.op = "leave" /\ AskLeave(h) /\ UNCHANGED deviceID_cache
    <3>. DEFINE sql == Delete("Device", h.id)
    <3>1. sql \in Queries /\ sql.table = "Device" /\ sql.id = h.id
      BY <2>3, QueryTypes DEF Delete
    <3>. HIDE DEF sql
    <3>2. /\ Ask(h, dbQuery_cache, "leave", sql)
          /\ members' = members \ {h.id}
          /\ provided' = {p \in provided : p.device # h.id}
      BY <2>7 DEF AskLeave, sql
    <3>3. /\ members' \subseteq members /\ provided' \subseteq provided
          /\ h.id \notin members' /\ \A p \in provided' : p.device # h.id
      BY <3>2
    <3>4. "leave" \in Spins
      BY DEF Spins
    <3>5. /\ TypeOK' /\ InOrder'
          /\ PromisesKept' /\ DeletesUnpromised' /\ PromisesNumbered'
          /\ cur'.pc = "leave" /\ cur'.req = h.req
      BY <1>1, <1>3, <1>4, <2>2, <2>4, <2>7, <3>1, <3>2, <3>3, <3>4, AskKeeps
    <3>6. Control'
      BY <2>7, <3>5 DEF Control
    <3>7. HandlerInv'
      BY <3>5, NothingOwed
    <3>8. Registry!Dismiss(h.id)
      BY <3>2 DEF Registry!Dismiss
    <3>. QED
      BY <2>3, <3>5, <3>6, <3>7, <3>8
  <2>8. CASE Continue(h, dbQuery_cache) /\ UNCHANGED deviceID_cache
    BY <1>1, <1>3, <1>4, <2>2, <2>4, <2>8, ContinueKeeps
  <2>9. CASE /\ h.req.op \in {"register", "update", "query"}
             /\ Ask(h, dbQuery_cache, "exists", Select("Device", h.id))
             /\ UNCHANGED promises /\ UNCHANGED deviceID_cache
    <3>. DEFINE sql == Select("Device", h.id)
    <3>1. sql \in Queries /\ sql.sql # "delete"
      BY <2>3, QueryTypes DEF Select
    <3>2. Ask(h, dbQuery_cache, "exists", sql)
      BY <2>9
    <3>. HIDE DEF sql
    <3>3. members' = members /\ provided' = provided
      BY <2>9 DEF promises
    <3>4. "exists" \in Spins
      BY DEF Spins
    <3>5. /\ TypeOK' /\ InOrder'
          /\ PromisesKept' /\ DeletesUnpromised' /\ PromisesNumbered'
          /\ cur'.pc = "exists" /\ cur'.req = h.req /\ cur'.ids = h.ids /\ cur'.rows = h.rows
      BY <1>1, <1>3, <1>4, <2>2, <2>4, <2>9, <3>1, <3>2, <3>3, <3>4, AskKeeps
    <3>6. Control'
      BY <2>2, <2>9, <3>5 DEF Control
    <3>7. HandlerInv'
      BY <3>5, NothingOwed
    <3>. QED
      BY <2>9, <3>5, <3>6, <3>7
  <2>. QED
    BY <1>6, <2>5, <2>6, <2>7, <2>8, <2>9 DEF Handle
<1>. QED
  BY <1>5, <1>6 DEF OnMessage

-----------------------------------------------------------------------------
(***************************************************************************)
(* The other thread, the broker and the service.                           *)
(***************************************************************************)
\* Messages that move or vanish change nothing of what a handler relies on.
LEMMA MessagesMove ==
    ASSUME SafeInv, UNCHANGED <<cur, db, promises, requests>>,
           Elems(toDB)' \subseteq Elems(toDB), Arrived' \subseteq Arrived
    PROVE  /\ PromisesKept' /\ DeletesUnpromised' /\ PromisesNumbered'
           /\ Control' /\ HandlerInv'
<1>. USE DEF SafeInv, TypeInv
<1>1. members' = members /\ provided' = provided
  BY DEF promises
<1>2. PromisesKept' /\ PromisesNumbered'
  BY <1>1 DEF PromisesKept, PromisesNumbered
<1>3. DeletesUnpromised'
  BY <1>1 DEF DeletesUnpromised
<1>4. Control'
  BY DEF Control
<1>5. OwnQuery'
  BY DEF HandlerInv, OwnQuery, Own, Item
<1>6. JoinInv'
  BY <1>1 DEF HandlerInv, JoinInv, Own, Fresh
<1>7. RegisterInv'
  BY <1>1 DEF HandlerInv, RegisterInv, Own, Free, AllIn, Item
<1>. QED
  BY <1>2, <1>3, <1>4, <1>5, <1>6, <1>7 DEF HandlerInv

LEMMA OnDbMessageKeeps == ASSUME SafeInv, OnDbMessage PROVE SafeInv' /\ UNCHANGED promises
<1>. USE DEF SafeInv, TypeInv
<1>. DEFINE a == Head(fromDB)
<1>1. /\ fromDB # << >> /\ fromDB' = Tail(fromDB)
      /\ dbQuery_cache' = With(dbQuery_cache, a.queryID, a)
      /\ UNCHANGED <<deviceID_cache, cur, subscribed, toDB, db, promises, lost,
                     requests, sent, faults>>
  BY DEF OnDbMessage, Store
<1>2. /\ a \in Answers /\ a \in Elems(fromDB) /\ Tail(fromDB) \in Seq(Answers)
      /\ Elems(Tail(fromDB)) \subseteq Elems(fromDB)
  BY <1>1, ElemsOfTail DEF TypeOK
<1>3. a.queryID = a.nr /\ a.nr \in 1 .. sent /\ \A m \in Elems(toDB) : a.nr < m.nr
  BY <1>2 DEF InOrder
<1>. HIDE DEF a
<1>4. /\ DOMAIN dbQuery_cache' = DOMAIN dbQuery_cache \cup {a.nr}
      /\ dbQuery_cache'[a.nr] = a
      /\ \A q \in DOMAIN dbQuery_cache : q # a.nr => dbQuery_cache'[q] = dbQuery_cache[q]
  BY <1>1, <1>3 DEF With
<1>5. Arrived' \subseteq Arrived
  BY <1>1, <1>2, <1>4 DEF Arrived
<1>6. Elems(toDB)' \subseteq Elems(toDB)
  BY <1>1
<1>7. TypeOK'
  BY <1>1, <1>2, <1>3, <1>4 DEF TypeOK, promises
<1>8. CacheInOrder(dbQuery_cache)'
  BY <1>1, <1>3, <1>4 DEF InOrder, CacheInOrder
<1>9. InOrder'
  BY <1>1, <1>2, <1>8 DEF InOrder
<1>. QED
  BY <1>1, <1>5, <1>6, <1>7, <1>9, MessagesMove

\* A message that is lost, on either way.
LEMMA MessageLost ==
    ASSUME SafeInv, UNCHANGED <<deviceID_cache, dbQuery_cache, cur, subscribed, db, promises,
                                requests, sent>>,
           faults' \in 0 .. MaxFaults,
           \/ /\ toDB # << >> /\ toDB' = Tail(toDB) /\ UNCHANGED fromDB
              /\ lost' = lost \cup {Head(toDB).nr}
           \/ /\ fromDB # << >> /\ fromDB' = Tail(fromDB) /\ UNCHANGED toDB
              /\ lost' = lost \cup {Head(fromDB).nr}
    PROVE  SafeInv'
<1>. USE DEF SafeInv, TypeInv
<1>1. /\ toDB' \in Seq(Messages) /\ fromDB' \in Seq(Answers)
      /\ Elems(toDB') \subseteq Elems(toDB) /\ Elems(fromDB') \subseteq Elems(fromDB)
      /\ Ascending(toDB')
      /\ \E n \in 1 .. sent : lost' = lost \cup {n}
  <2>1. toDB \in Seq(Messages) /\ fromDB \in Seq(Answers) /\ Ascending(toDB)
    BY DEF TypeOK, InOrder
  <2>2. CASE toDB # << >> /\ toDB' = Tail(toDB) /\ UNCHANGED fromDB
              /\ lost' = lost \cup {Head(toDB).nr}
    <3>1. /\ Head(toDB) \in Elems(toDB) /\ Tail(toDB) \in Seq(Messages)
          /\ Elems(Tail(toDB)) \subseteq Elems(toDB) /\ Ascending(Tail(toDB))
      BY <2>1, <2>2, ElemsOfTail
    <3>2. Head(toDB).nr \in 1 .. sent
      BY <3>1 DEF InOrder
    <3>. QED
      BY <2>1, <2>2, <3>1, <3>2
  <2>3. CASE fromDB # << >> /\ fromDB' = Tail(fromDB) /\ UNCHANGED toDB
              /\ lost' = lost \cup {Head(fromDB).nr}
    <3>1. /\ Head(fromDB) \in Elems(fromDB) /\ Tail(fromDB) \in Seq(Answers)
          /\ Elems(Tail(fromDB)) \subseteq Elems(fromDB)
      BY <2>1, <2>3, ElemsOfTail
    <3>2. Head(fromDB).nr \in 1 .. sent
      BY <3>1 DEF InOrder
    <3>. QED
      BY <2>1, <2>3, <3>1, <3>2
  <2>. QED
    BY <2>2, <2>3
<1>2. TypeOK'
  BY <1>1 DEF TypeOK, promises
<1>3. InOrder'
  BY <1>1 DEF InOrder, CacheInOrder
<1>4. Arrived' \subseteq Arrived
  BY <1>1 DEF Arrived
<1>. QED
  BY <1>1, <1>2, <1>3, <1>4, MessagesMove

\* What executing a query makes of the messages: its answer is younger than
\* every other, and when the query is the one the handler waits for, nothing
\* else is on its way to the service.
LEMMA ExecutesIs ==
    ASSUME TypeOK, InOrder, toDB # << >>, NEW error \in BOOLEAN, NEW found \in BOOLEAN,
           Executes(Head(toDB), error, found), UNCHANGED <<cur, dbQuery_cache, sent>>
    PROVE  LET m == Head(toDB)
               a == [queryID |-> m.queryID, nr |-> m.nr, error |-> error, found |-> found]
           IN  /\ InOrder' /\ toDB' \in Seq(Messages) /\ fromDB' \in Seq(Answers)
               /\ Elems(toDB') \subseteq Elems(toDB)
               /\ m \in Messages /\ m \in Elems(toDB)
               /\ cur.pc \in Spins => \A b \in Own(Arrived)' : b = a /\ m \in Own(Elems(toDB))
<1>. DEFINE m == Head(toDB)
            a == [queryID |-> m.queryID, nr |-> m.nr, error |-> error, found |-> found]
<1>1. toDB' = Tail(toDB) /\ fromDB' = Append(fromDB, a)
  BY DEF Executes
<1>2. /\ m \in Messages /\ m \in Elems(toDB) /\ toDB' \in Seq(Messages)
      /\ Elems(toDB') \subseteq Elems(toDB)
      /\ Ascending(toDB') /\ \A l \in Elems(toDB') : m.nr < l.nr
  BY <1>1, ElemsOfTail DEF TypeOK, InOrder
<1>3. m.queryID = m.nr /\ m.nr \in 1 .. sent /\ m.nr \in Nat
  BY <1>2 DEF InOrder, Messages
<1>4. a \in Answers /\ a.queryID = m.nr /\ a.nr = m.nr
  BY <1>3 DEF Answers
<1>. HIDE DEF a, m
<1>5. fromDB' \in Seq(Answers) /\ Elems(fromDB') = Elems(fromDB) \cup {a}
  BY <1>1, <1>4, ElemsOfAppend DEF TypeOK
<1>6. CacheInOrder(dbQuery_cache)'
  BY <1>2 DEF InOrder, CacheInOrder
<1>7. InOrder'
  <2>1. \A l \in Elems(toDB') : l.queryID = l.nr /\ l.nr \in 1 .. sent'
    BY <1>2 DEF InOrder
  <2>2. \A b \in Elems(fromDB') :
          b.queryID = b.nr /\ b.nr \in 1 .. sent' /\ \A l \in Elems(toDB') : b.nr < l.nr
    BY <1>2, <1>3, <1>4, <1>5 DEF InOrder
  <2>3. cur'.pc \in Spins => cur'.queryID = cur'.nr /\ cur'.nr = sent'
    BY DEF InOrder
  <2>. QED
    BY <1>2, <1>6, <2>1, <2>2, <2>3 DEF InOrder
<1>8. ASSUME cur.pc \in Spins, NEW b \in Own(Arrived)'
      PROVE  b = a /\ m \in Own(Elems(toDB))
  <2>1. cur.nr = sent /\ b.nr = sent /\ b \in Arrived' /\ sent \in Nat
    BY <1>8 DEF InOrder, Own, TypeOK
  <2>2. m.nr <= sent
    BY <1>3
  <2>3. b \notin Elems(fromDB)
    <3>1. b \in Elems(fromDB) => b.nr < m.nr
      BY <1>2 DEF InOrder
    <3>. QED
      BY <1>3, <2>1, <2>2, <3>1
  <2>4. ASSUME NEW q \in DOMAIN dbQuery_cache, dbQuery_cache[q] # Waiting
        PROVE  b # dbQuery_cache[q]
    <3>1. dbQuery_cache[q].nr = q /\ q < m.nr
      BY <1>2, <2>4 DEF InOrder, CacheInOrder
    <3>2. q \in Nat
      BY DEF TypeOK
    <3>. QED
      BY <1>3, <2>1, <2>2, <3>1, <3>2
  <2>5. b = a
    BY <1>5, <2>1, <2>3, <2>4 DEF Arrived
  <2>. QED
    BY <1>2, <1>4, <2>1, <2>5 DEF Own
<1>. QED
  BY <1>2, <1>5, <1>7, <1>8 DEF a, m

\* The rows behind what was promised outlive the step, and so does the row of a
\* handler that joins.
PromisedRowsStay ==
    /\ \A d \in members : DeviceRow(d) \in db'
    /\ \A p \in provided :
         \E r \in db' : r.table = "RegisterList" /\ r.id = p.id /\ r.device = p.device
    /\ cur.pc = "neighbors" /\ cur.req.codes > 0 => DeviceRow(cur.id) \in db'

\* It is left to say what the answer tells the handler that waits for it.
LEMMA ExecuteKeeps ==
    ASSUME SafeInv, toDB # << >>, NEW error \in BOOLEAN, NEW found \in BOOLEAN,
           Executes(Head(toDB), error, found),
           UNCHANGED <<deviceID_cache, dbQuery_cache, cur, subscribed, promises,
                       lost, requests, sent>>,
           faults' \in 0 .. MaxFaults,
           db' \subseteq Rows, PromisedRowsStay,
           Head(toDB) \in Own(Elems(toDB)) /\ ~error =>
             /\ cur.pc = "device" /\ cur.req.codes > 0 => Fresh'
             /\ cur.pc = "registerID" /\ ~found => Free(newID(cur.flag, Item(cur).hash))
             /\ cur.pc = "insert" => AllIn'
    PROVE  SafeInv'
<1>. USE DEF SafeInv, TypeInv
<1>. DEFINE m == Head(toDB)
            a == [queryID |-> m.queryID, nr |-> m.nr, error |-> error, found |-> found]
<1>1. /\ InOrder' /\ toDB' \in Seq(Messages) /\ fromDB' \in Seq(Answers)
      /\ Elems(toDB') \subseteq Elems(toDB)
      /\ cur.pc \in Spins => \A b \in Own(Arrived)' : b = a /\ m \in Own(Elems(toDB))
  BY ExecutesIs
<1>2. a.error = error /\ a.found = found
  OBVIOUS
<1>. HIDE DEF a, m
<1>3. members' = members /\ provided' = provided
  BY DEF promises
<1>4. TypeOK'
  BY <1>1, <1>3 DEF TypeOK
<1>5. Control'
  BY DEF Control
<1>6. PromisesKept'
  BY <1>3 DEF PromisesKept, PromisedRowsStay
<1>7. DeletesUnpromised' /\ PromisesNumbered'
  BY <1>1, <1>3 DEF DeletesUnpromised, PromisesNumbered
<1>8. OwnQuery'
  BY <1>1 DEF HandlerInv, OwnQuery, Own, Item
<1>9. JoinInv'
  <2>1. ASSUME cur.pc = "device", cur.req.codes > 0, NEW b \in Own(Arrived)', ~b.error
        PROVE  Fresh'
    BY <1>1, <1>2, <2>1 DEF Spins, m
  <2>2. CASE cur.pc = "neighbors" /\ cur.req.codes > 0
    <3>1. Fresh'
      BY <1>3, <2>2 DEF HandlerInv, JoinInv, Fresh, PromisedRowsStay
    <3>2. \A l \in Elems(toDB)' : l.query.sql # "delete"
      BY <1>1, <2>2 DEF HandlerInv, JoinInv
    <3>. QED
      BY <2>2, <3>1, <3>2 DEF JoinInv
  <2>. QED
    BY <2>1, <2>2 DEF JoinInv
<1>10. RegisterInv'
  <2>1. ASSUME cur.pc = "registerID", NEW b \in Own(Arrived)', ~b.error, ~b.found
        PROVE  Free(newID(cur.flag, Item(cur).hash))
    BY <1>1, <1>2, <2>1 DEF Spins, m
  <2>2. ASSUME cur.pc = "insert", NEW b \in Own(Arrived)', ~b.error PROVE AllIn'
    BY <1>1, <1>2, <2>2 DEF Spins, m
  <2>. QED
    BY <1>3, <2>1, <2>2 DEF HandlerInv, RegisterInv, Free, Item
<1>. QED
  BY <1>1, <1>4, <1>5, <1>6, <1>7, <1>8, <1>9, <1>10 DEF HandlerInv

LEMMA RowsStay == ASSUME SafeInv, db \subseteq db' PROVE PromisedRowsStay
  BY DEF SafeInv, PromisesKept, HandlerInv, JoinInv, Fresh, PromisedRowsStay

\* What DBExecute leaves alone.
ServiceFrame ==
    UNCHANGED <<deviceID_cache, dbQuery_cache, cur, subscribed, promises, lost,
                requests, sent, faults>>

LEMMA SelectKeeps ==
    ASSUME SafeInv, toDB # << >>, DBSelect(Head(toDB)), ServiceFrame PROVE SafeInv'
<1>. USE DEF SafeInv, TypeInv
<1>. DEFINE m == Head(toDB)
<1>1. PICK found \in BOOLEAN :
        /\ m.query # SelectNothing => (found <=> \E r \in db : Matches(m.query, r))
        /\ Executes(m, FALSE, found)
  BY DEF DBSelect
<1>2. db' = db /\ m.query.sql = "select"
  BY DEF DBSelect
<1>3. PromisedRowsStay
  BY <1>2, RowsStay
<1>4. db' \subseteq Rows /\ faults' \in 0 .. MaxFaults
  BY <1>2 DEF TypeOK, ServiceFrame
<1>5. ASSUME m \in Own(Elems(toDB)), cur.pc = "device", cur.req.codes > 0 PROVE Fresh'
  BY <1>2, <1>5 DEF HandlerInv, OwnQuery, Insert
<1>6. ASSUME m \in Own(Elems(toDB)), cur.pc = "insert" PROVE AllIn'
  BY <1>2, <1>6 DEF HandlerInv, OwnQuery, Insert
<1>7. ASSUME m \in Own(Elems(toDB)), cur.pc = "registerID", ~found
      PROVE  Free(newID(cur.flag, Item(cur).hash))
  <2>. DEFINE id == newID(cur.flag, Item(cur).hash)
  <2>1. m.query = Select("RegisterList", id)
    BY <1>7 DEF HandlerInv, OwnQuery
  <2>. HIDE DEF id
  <2>2. /\ m.query.table = "RegisterList" /\ m.query.id = id
        /\ SelectNothing.table = "none"
    BY <2>1 DEF Select, SelectNothing
  <2>3. \A r \in db : ~(r.table = "RegisterList" /\ r.id = id)
    BY <1>1, <1>7, <2>2 DEF Matches
  <2>. QED
    BY <2>3 DEF PromisesKept, Free, id
<1>. HIDE DEF m
<1>. QED
  BY <1>1, <1>3, <1>4, <1>5, <1>6, <1>7, ExecuteKeeps DEF m, ServiceFrame

LEMMA SelectFailsKeeps == ASSUME SafeInv, SelectFails PROVE SafeInv' /\ UNCHANGED promises
<1>. USE DEF SafeInv, TypeInv
<1>1. PromisedRowsStay
  BY RowsStay DEF SelectFails
<1>2. db' \subseteq Rows /\ faults' \in 0 .. MaxFaults
  BY BoundsAssumption DEF SelectFails, TypeOK
<1>. QED
  BY <1>1, <1>2, ExecuteKeeps DEF SelectFails

LEMMA InsertKeeps ==
    ASSUME SafeInv, toDB # << >>, DBInsert(Head(toDB)), ServiceFrame PROVE SafeInv'
<1>. USE DEF SafeInv, TypeInv
<1>. DEFINE m == Head(toDB)
            rows == m.query.rows
<1>1. m.query.sql = "insert"
  BY DEF DBInsert
<1>2. m \in Messages
  BY ElemsOfTail DEF TypeOK
<1>3. rows \in Seq(Rows) /\ Len(rows) \in Nat /\ DOMAIN rows = 1 .. Len(rows)
  <2>1. m.query \in Queries
    BY <1>2 DEF Messages
  <2>2. rows \in Seq(Rows)
    BY <1>1, <2>1 DEF Queries, SelectNothing
  <2>. HIDE DEF rows
  <2>. QED
    BY <2>2
<1>4. faults' \in 0 .. MaxFaults
  BY DEF TypeOK, ServiceFrame
<1>5. members' = members /\ provided' = provided
  BY DEF ServiceFrame, promises
<1>6. CASE /\ Executed(db, rows, Len(rows))
           /\ db' = db \cup FirstRows(rows, Len(rows))
           /\ Executes(m, FALSE, FALSE)
  <2>. HIDE DEF m, rows
  <2>1. \A k \in DOMAIN rows :
          /\ rows[k] \in db'
          /\ \A r \in db \cup FirstRows(rows, k - 1) : ~SameKey(r, rows[k])
    BY <1>3, <1>6 DEF Executed, Accepts, FirstRows
  <2>2. \A k \in DOMAIN rows : \A r \in db : ~SameKey(r, rows[k])
    BY <2>1
  <2>3. db \subseteq db' /\ db' \subseteq Rows
    BY <1>3, <1>6 DEF TypeOK, FirstRows
  <2>4. PromisedRowsStay
    BY <2>3, RowsStay
  <2>5. ASSUME m \in Own(Elems(toDB)), cur.pc = "device", cur.req.codes > 0
        PROVE  Fresh'
    <3>1. m.query = Insert([i \in 1 .. cur.req.codes |-> DeviceRow(cur.id)])
      BY <2>5 DEF HandlerInv, OwnQuery
    <3>2. rows = [i \in 1 .. cur.req.codes |-> DeviceRow(cur.id)]
      BY <3>1 DEF Insert, rows
    <3>3. cur.req.codes \in Nat
      BY <2>5 DEF Control, JoinRequests
    <3>4. 1 \in DOMAIN rows /\ rows[1] = DeviceRow(cur.id)
      BY <2>5, <3>2, <3>3
    <3>5. DeviceRow(cur.id) \in db' /\ DeviceRow(cur.id) \notin db
      BY <2>1, <2>2, <3>4 DEF SameKey, DeviceRow
    <3>. QED
      BY <1>5, <3>5 DEF Fresh, PromisesKept, ServiceFrame
  <2>6. ASSUME m \in Own(Elems(toDB)), cur.pc = "registerID"
        PROVE  Free(newID(cur.flag, Item(cur).hash))
    BY <1>1, <2>6 DEF HandlerInv, OwnQuery, Select
  <2>7. ASSUME m \in Own(Elems(toDB)), cur.pc = "insert" PROVE AllIn'
    <3>1. rows = cur.rows
      BY <2>7 DEF HandlerInv, OwnQuery, Insert, rows
    <3>2. /\ DOMAIN cur.ids = 1 .. Len(cur.ids) /\ Len(rows) = Len(cur.ids)
          /\ DOMAIN cur.ids = DOMAIN rows
      BY <1>3, <2>7, <3>1, InRegister
    <3>3. \A k \in DOMAIN cur.ids :
            /\ rows[k].table = "RegisterList" /\ rows[k].id = cur.ids[k]
            /\ rows[k].device = cur.id
      BY <2>7, <3>1 DEF Control
    <3>4. ASSUME NEW k \in DOMAIN cur.ids, NEW q \in provided, q.id = cur.ids[k]
          PROVE  q.device # cur.id
      <4>1. PICK r \in db : r.table = "RegisterList" /\ r.id = q.id /\ r.device = q.device
        BY DEF PromisesKept
      <4>. QED
        BY <2>2, <3>2, <3>3, <3>4, <4>1 DEF SameKey
    <3>5. ASSUME NEW k \in DOMAIN cur.ids, NEW l \in DOMAIN cur.ids, k < l
          PROVE  cur.ids[k] # cur.ids[l]
      <4>1. k \in 1 .. l - 1
        BY <3>2, <3>5
      <4>2. rows[k] \in FirstRows(rows, l - 1)
        BY <4>1 DEF FirstRows
      <4>3. ~SameKey(rows[k], rows[l])
        BY <2>1, <3>2, <4>2
      <4>. QED
        BY <3>3, <4>3 DEF SameKey
    <3>6. \A k, l \in DOMAIN cur.ids : k # l => cur.ids[k] # cur.ids[l]
      <4>1. \A k, l \in DOMAIN cur.ids : k # l => k < l \/ l < k
        BY <1>3, <3>2
      <4>. QED
        BY <3>5, <4>1
    <3>7. \A k \in DOMAIN cur.ids : cur.rows[k] \in db'
      BY <2>1, <3>1, <3>2
    <3>. QED
      BY <1>5, <3>4, <3>6, <3>7 DEF AllIn, ServiceFrame
  <2>. QED
    BY <1>4, <1>6, <2>3, <2>4, <2>5, <2>6, <2>7, ExecuteKeeps DEF m, ServiceFrame
<1>7. ASSUME NEW k \in 0 .. Len(rows) - 1, db' \in {db, db \cup FirstRows(rows, k)},
             Executes(m, TRUE, FALSE)
      PROVE  SafeInv'
  <2>. HIDE DEF rows, m
  <2>1. \A i \in 1 .. k : rows[i] \in Rows
    BY <1>3, <1>7
  <2>2. db \subseteq db' /\ db' \subseteq Rows
    BY <1>7, <2>1 DEF TypeOK, FirstRows
  <2>3. PromisedRowsStay
    BY <2>2, RowsStay
  <2>. QED
    BY <1>4, <1>7, <2>2, <2>3, ExecuteKeeps DEF m, ServiceFrame
<1>. QED
  BY <1>6, <1>7 DEF DBInsert

\* A query that is neither a select nor an insert is no registration's and no
\* join's.
LEMMA NotOwned ==
    ASSUME SafeInv, NEW m \in Own(Elems(toDB)), m.query.sql \in {"delete", "update"}
    PROVE  cur.pc \notin {"device", "registerID", "insert"}
  BY DEF SafeInv, HandlerInv, OwnQuery, Insert, Select

LEMMA DeleteKeeps ==
    ASSUME SafeInv, toDB # << >>, DBDelete(Head(toDB)), ServiceFrame PROVE SafeInv'
<1>. USE DEF SafeInv, TypeInv
<1>. DEFINE m == Head(toDB)
<1>1. /\ m.query.sql = "delete"
      /\ \/ db' = Deleted(db, m.query.table, m.query.id) /\ Executes(m, FALSE, FALSE)
         \/ db' = db /\ Executes(m, TRUE, FALSE)
  BY DEF DBDelete
<1>2. m \in Messages /\ m \in Elems(toDB)
  BY ElemsOfTail DEF TypeOK
<1>3. m.query.table \in {"Device", "RegisterList"}
  BY <1>1, <1>2 DEF Messages, Queries, SelectNothing
<1>4. db' \subseteq Rows /\ faults' \in 0 .. MaxFaults
  BY <1>1 DEF TypeOK, ServiceFrame, Deleted
<1>. HIDE DEF m
<1>5. PromisedRowsStay
  <2>1. CASE db' = db
    BY <2>1, RowsStay
  <2>2. CASE db' = Deleted(db, m.query.table, m.query.id)
    <3>1. ASSUME NEW d \in members PROVE DeviceRow(d) \in db'
      <4>1. DeviceRow(d) \in db
        BY DEF PromisesKept
      <4>2. m.query.table = "Device" => m.query.id # d
        BY <1>1, <1>2 DEF DeletesUnpromised
      <4>3. DeviceRow(d).table = "Device" /\ DeviceRow(d).id = d /\ DeviceRow(d).device = d
        BY DEF DeviceRow
      <4>. QED
        BY <2>2, <4>1, <4>2, <4>3 DEF Deleted
    <3>2. ASSUME NEW p \in provided
          PROVE  \E r \in db' : r.table = "RegisterList" /\ r.id = p.id /\ r.device = p.device
      <4>1. PICK r \in db : r.table = "RegisterList" /\ r.id = p.id /\ r.device = p.device
        BY DEF PromisesKept
      <4>2. r \in db'
        BY <1>1, <1>2, <1>3, <2>2, <4>1 DEF DeletesUnpromised, Deleted
      <4>. QED
        BY <4>1, <4>2
    <3>3. ~(cur.pc = "neighbors" /\ cur.req.codes > 0)
      BY <1>1, <1>2 DEF HandlerInv, JoinInv
    <3>. QED
      BY <3>1, <3>2, <3>3 DEF PromisedRowsStay
  <2>. QED
    BY <1>1, <2>1, <2>2
<1>6. m \in Own(Elems(toDB)) => cur.pc \notin {"device", "registerID", "insert"}
  BY <1>1, NotOwned
<1>. QED
  BY <1>1, <1>4, <1>5, <1>6, ExecuteKeeps DEF m, ServiceFrame

LEMMA OverlaidType ==
    ASSUME NEW S, NEW old \in Seq(S), NEW new \in Seq(S) PROVE Overlaid(old, new) \in Seq(S)
<1>1. Len(new) \in Nat /\ Len(old) \in Nat
  OBVIOUS
<1>2. \A i, j \in Nat : 1 <= i /\ j <= Len(old) => SubSeq(old, i, j) \in Seq(S)
  OBVIOUS
<1>3. SubSeq(old, Len(new) + 1, Len(old)) \in Seq(S)
  BY <1>1, <1>2
<1>. QED
  BY <1>3 DEF Overlaid

LEMMA UpdateRowsKeeps ==
    ASSUME SafeInv, toDB # << >>, DBUpdate(Head(toDB)), ServiceFrame PROVE SafeInv'
<1>. USE DEF SafeInv, TypeInv
<1>. DEFINE m == Head(toDB)
            new(r) == IF r.table = "RegisterList" /\ r.id = m.query.id
                        THEN [r EXCEPT !.attributes = Overlaid(@, m.query.attributes)]
                        ELSE r
<1>1. /\ m.query.sql = "update"
      /\ \/ db' = {new(r) : r \in db} /\ Executes(m, FALSE, FALSE)
         \/ db' = db /\ Executes(m, TRUE, FALSE)
  BY DEF DBUpdate
<1>2. m \in Messages
  BY ElemsOfTail DEF TypeOK
<1>3. m.query.attributes \in Seq(Attributes)
  BY <1>1, <1>2 DEF Messages, Queries, SelectNothing
<1>. HIDE DEF m
<1>4. ASSUME NEW r \in Rows, r.table = "RegisterList"
      PROVE  /\ new(r) \in Rows /\ new(r).table = "RegisterList"
             /\ new(r).id = r.id /\ new(r).device = r.device
  <2>1. r \in [table : {"RegisterList"}, id : ProvidingIDs, device : DeviceIDs,
               attributes : Seq(Attributes)]
    BY <1>4, RegisterListRows
  <2>2. r.attributes \in Seq(Attributes)
    BY <2>1
  <2>. DEFINE overlaid == Overlaid(r.attributes, m.query.attributes)
  <2>3. overlaid \in Seq(Attributes)
    BY <1>3, <2>2, OverlaidType
  <2>. HIDE DEF overlaid
  <2>4. CASE r.id = m.query.id
    <3>1. new(r) = [r EXCEPT !.attributes = overlaid]
      BY <1>4, <2>4 DEF overlaid
    <3>2. /\ new(r) \in [table : {"RegisterList"}, id : ProvidingIDs, device : DeviceIDs,
                         attributes : Seq(Attributes)]
          /\ new(r).table = "RegisterList" /\ new(r).id = r.id /\ new(r).device = r.device
      BY <2>1, <2>3, <3>1
    <3>. QED
      BY <3>2 DEF Rows
  <2>5. CASE r.id # m.query.id
    BY <1>4, <2>5
  <2>. QED
    BY <2>4, <2>5
<1>5. \A r : r.table # "RegisterList" => new(r) = r
  OBVIOUS
<1>6. ASSUME db' = {new(r) : r \in db} PROVE db' \subseteq Rows /\ PromisedRowsStay
  <2>. HIDE DEF new
  <2>1. db' \subseteq Rows
    BY <1>4, <1>5, <1>6 DEF TypeOK
  <2>2. \A d : DeviceRow(d) \in db => DeviceRow(d) \in db'
    BY <1>5, <1>6 DEF DeviceRow
  <2>3. ASSUME NEW p \in provided
        PROVE  \E r \in db' : r.table = "RegisterList" /\ r.id = p.id /\ r.device = p.device
    <3>1. PICK r \in db : r.table = "RegisterList" /\ r.id = p.id /\ r.device = p.device
      BY DEF PromisesKept
    <3>2. r \in Rows
      BY DEF TypeOK
    <3>. QED
      BY <1>4, <1>6, <3>1, <3>2
  <2>4. PromisedRowsStay
    BY <2>2, <2>3 DEF PromisedRowsStay, PromisesKept, HandlerInv, JoinInv, Fresh
  <2>. QED
    BY <2>1, <2>4
<1>7. ASSUME db' = db PROVE db' \subseteq Rows /\ PromisedRowsStay
  BY <1>7, RowsStay DEF TypeOK
<1>8. m \in Own(Elems(toDB)) => cur.pc \notin {"device", "registerID", "insert"}
  BY <1>1, NotOwned
<1>9. faults' \in 0 .. MaxFaults
  BY DEF TypeOK, ServiceFrame
<1>. HIDE DEF new
<1>. QED
  BY <1>1, <1>6, <1>7, <1>8, <1>9, ExecuteKeeps DEF m, ServiceFrame

-----------------------------------------------------------------------------
(***************************************************************************)
(* Every step.                                                             *)
(***************************************************************************)
LEMMA SafeInvInit == Init => SafeInv
<1>. SUFFICES ASSUME Init PROVE SafeInv
  OBVIOUS
<1>1. /\ cur = Idle /\ cur.pc = "idle" /\ cur.pc \notin Spins /\ cur.pc \notin Steps
      /\ cur.pc \notin {"device", "neighbors", "items", "registerID", "insert"}
  BY DEF Init, Idle, Spins, Steps
<1>2. /\ deviceID_cache = {} /\ dbQuery_cache = << >> /\ DOMAIN dbQuery_cache = {}
      /\ toDB = << >> /\ fromDB = << >> /\ db = {} /\ subscribed = FALSE
      /\ members = {} /\ provided = {} /\ lost = {} /\ requests = 0 /\ sent = 0 /\ faults = 0
  BY DEF Init
<1>3. TypeOK
  <2>1. toDB \in Seq(Messages) /\ fromDB \in Seq(Answers)
    BY <1>2
  <2>2. requests \in 0 .. MaxRequests /\ faults \in 0 .. MaxFaults
    BY <1>2, BoundsAssumption
  <2>. QED
    BY <1>1, <1>2, <2>1, <2>2 DEF TypeOK
<1>4. Control
  BY <1>1 DEF Control, Steps, Spins
<1>5. Elems(toDB) = {} /\ Elems(fromDB) = {} /\ Ascending(toDB)
  BY <1>2 DEF Elems, Ascending
<1>6. InOrder
  BY <1>1, <1>2, <1>5 DEF InOrder, CacheInOrder
<1>7. PromisesKept /\ DeletesUnpromised /\ PromisesNumbered
  BY <1>2, <1>5 DEF PromisesKept, DeletesUnpromised, PromisesNumbered
<1>8. HandlerInv
  BY <1>1 DEF HandlerInv, OwnQuery, JoinInv, RegisterInv
<1>. QED
  BY <1>3, <1>4, <1>6, <1>7, <1>8 DEF SafeInv, TypeInv

\* Steps that concern neither a message nor a handler.
LEMMA ConnectionKeeps ==
    ASSUME SafeInv, OnDbConnect \/ DbDisconnect PROVE SafeInv' /\ UNCHANGED promises
<1>. USE DEF SafeInv, TypeInv
<1>1. /\ UNCHANGED <<deviceID_cache, dbQuery_cache, cur, queues, promises, lost,
                     requests, sent>>
      /\ subscribed' \in BOOLEAN /\ faults' \in 0 .. MaxFaults
  <2>1. CASE OnDbConnect
    BY <2>1 DEF OnDbConnect, TypeOK
  <2>2. CASE DbDisconnect
    <3>1. faults' \in 0 .. MaxFaults
      BY <2>2, BoundsAssumption DEF DbDisconnect, TypeOK
    <3>. QED
      BY <2>2, <3>1 DEF DbDisconnect
  <2>. QED
    BY <2>1, <2>2
<1>2. toDB' = toDB /\ fromDB' = fromDB /\ db' = db
  BY <1>1 DEF queues
<1>3. TypeOK'
  BY <1>1, <1>2 DEF TypeOK, promises
<1>4. InOrder'
  BY <1>1, <1>2 DEF InOrder, CacheInOrder
<1>5. Elems(toDB)' \subseteq Elems(toDB) /\ Arrived' \subseteq Arrived
  BY <1>1, <1>2 DEF Arrived
<1>. QED
  BY <1>1, <1>2, <1>3, <1>4, <1>5, MessagesMove

LEMMA LossKeeps ==
    ASSUME SafeInv, AnswerUnsubscribed \/ LoseMessage PROVE SafeInv' /\ UNCHANGED promises
<1>1. CASE AnswerUnsubscribed
  <2>1. faults' \in 0 .. MaxFaults
    BY <1>1 DEF AnswerUnsubscribed, SafeInv, TypeInv, TypeOK
  <2>. QED
    BY <1>1, <2>1, MessageLost DEF AnswerUnsubscribed
<1>2. CASE LoseMessage
  <2>1. faults' \in 0 .. MaxFaults
    BY <1>2, BoundsAssumption DEF LoseMessage, SafeInv, TypeInv, TypeOK
  <2>. QED
    BY <1>2, <2>1, MessageLost DEF LoseMessage
<1>. QED
  BY <1>1, <1>2

LEMMA RestartKeeps == ASSUME SafeInv, Restart PROVE SafeInv' /\ UNCHANGED promises
<1>. USE DEF SafeInv, TypeInv
<1>1. /\ cur' = Idle /\ cur'.pc = "idle" /\ cur'.pc \notin Spins /\ cur'.pc \notin Steps
      /\ cur'.pc \notin {"device", "neighbors", "items", "registerID", "insert"}
  BY DEF Restart, Idle, Spins, Steps
<1>2. /\ deviceID_cache' = {} /\ dbQuery_cache' = << >> /\ DOMAIN dbQuery_cache' = {}
      /\ toDB' = toDB /\ fromDB' = fromDB /\ db' = db /\ subscribed' = FALSE
      /\ members' = members /\ provided' = provided /\ lost' = lost
      /\ requests' = requests /\ sent' = sent /\ UNCHANGED promises
  BY DEF Restart, queues, promises
<1>3. faults' \in 0 .. MaxFaults
  BY BoundsAssumption DEF Restart, TypeOK
<1>4. TypeOK'
  BY <1>1, <1>2, <1>3 DEF TypeOK
<1>5. Control'
  BY <1>1 DEF Control, Steps, Spins
<1>6. InOrder'
  BY <1>1, <1>2 DEF InOrder, CacheInOrder
<1>7. PromisesKept' /\ DeletesUnpromised' /\ PromisesNumbered'
  BY <1>1, <1>2 DEF PromisesKept, DeletesUnpromised, PromisesNumbered
<1>8. HandlerInv'
  BY <1>1 DEF HandlerInv, OwnQuery, JoinInv, RegisterInv
<1>. QED
  BY <1>2, <1>4, <1>5, <1>6, <1>7, <1>8

LEMMA StutterKeeps == ASSUME SafeInv, UNCHANGED vars PROVE SafeInv' /\ UNCHANGED promises
<1>. USE DEF SafeInv, TypeInv
<1>1. /\ UNCHANGED <<deviceID_cache, dbQuery_cache, cur, subscribed, toDB, fromDB, db,
                     lost, requests, sent, faults>>
      /\ UNCHANGED promises /\ members' = members /\ provided' = provided
  BY DEF vars, queues, promises
<1>2. TypeOK'
  BY <1>1 DEF TypeOK
<1>3. InOrder'
  BY <1>1 DEF InOrder, CacheInOrder
<1>4. Elems(toDB)' \subseteq Elems(toDB) /\ Arrived' \subseteq Arrived
  BY <1>1 DEF Arrived
<1>. QED
  BY <1>1, <1>2, <1>3, <1>4, MessagesMove

\* Every step keeps the invariant, and is one of the registry's or none.
LEMMA StepKeeps ==
    ASSUME SafeInv, [Next]_vars
    PROVE  SafeInv' /\ [Registry!Next]_<<members, provided>>
<1>1. UNCHANGED promises => [Registry!Next]_<<members, provided>>
  BY DEF promises
<1>2. CASE \E req \in Requests : OnMessage(req)
  BY <1>1, <1>2, OnMessageKeeps DEF Registry!Next
<1>3. CASE Handler
  <2>1. HandlerFrame
    BY <1>3 DEF Handler, HandlerFrame
  <2>2. CASE JoinGenID \/ JoinDevice \/ Leave \/ DeviceExists
    BY <1>1, <2>1, <2>2, JoinGenIDKeeps, JoinDeviceKeeps, LeaveKeeps, DeviceExistsKeeps
  <2>3. CASE JoinNeighbors
    BY <1>1, <2>1, <2>3, JoinNeighborsKeeps DEF Registry!Next
  <2>4. CASE RegisterItem \/ RegisterGenID \/ RegisterAll
    BY <1>1, <2>1, <2>4, RegisterItemKeeps, RegisterGenIDKeeps, RegisterAllKeeps
  <2>5. CASE RegisterInsert
    BY <1>1, <2>1, <2>5, RegisterInsertKeeps DEF Registry!Next
  <2>6. CASE UpdateFound
    BY <1>1, <2>1, <2>6, UpdateFoundKeeps DEF Registry!Next
  <2>7. CASE Update \/ Query
    BY <1>1, <2>1, <2>7, UpdateOrQueryKeeps
  <2>. QED
    BY <1>3, <2>2, <2>3, <2>4, <2>5, <2>6, <2>7 DEF Handler
<1>4. CASE OnDbConnect \/ DbDisconnect
  BY <1>1, <1>4, ConnectionKeeps
<1>5. CASE OnDbMessage
  BY <1>1, <1>5, OnDbMessageKeeps
<1>6. CASE AnswerUnsubscribed \/ LoseMessage
  BY <1>1, <1>6, LossKeeps
<1>7. CASE DBExecute
  <2>1. ServiceFrame /\ UNCHANGED promises /\ toDB # << >>
    BY <1>7 DEF DBExecute, ServiceFrame
  <2>. QED
    BY <1>1, <1>7, <2>1, SelectKeeps, InsertKeeps, DeleteKeeps, UpdateRowsKeeps DEF DBExecute
<1>8. CASE SelectFails
  BY <1>1, <1>8, SelectFailsKeeps
<1>9. CASE Restart
  BY <1>1, <1>9, RestartKeeps
<1>10. CASE MainLoop \/ UNCHANGED vars
  BY <1>1, <1>10, StutterKeeps DEF MainLoop
<1>. QED
  BY <1>2, <1>3, <1>4, <1>5, <1>6, <1>7, <1>8, <1>9, <1>10 DEF Next

-----------------------------------------------------------------------------
(***************************************************************************)
(* The size of dbQuery_cache.  An entry is left behind, or comes back when *)
(* an answer finds its handler gone, under a query ID that some message    *)
(* carries; so the IDs to be counted are those in use anywhere.            *)
(***************************************************************************)
Numbers(messages) == {m.nr : m \in Elems(messages)}

InUse(cache) == DOMAIN cache \cup Numbers(toDB) \cup Numbers(fromDB)

Outstanding == InUse(dbQuery_cache)

Size == Cardinality(Outstanding)

\* An answer is stored once: those on their way have different numbers, and
\* none of them is in dbQuery_cache already.
AnswersOnce ==
    /\ Ascending(fromDB)
    /\ \A a \in Elems(fromDB) :
         a.nr \in DOMAIN dbQuery_cache => dbQuery_cache[a.nr] = Waiting

\* How many entries the handler may still add to those it is going to leave.
Reserve ==
    IF cur.pc = "items" THEN 2 ELSE IF cur.pc \in Spins \ {"neighbors"} THEN 1 ELSE 0

CacheInv == AnswersOnce /\ Size + Reserve <= 2 * requests


\* What is in use is numbered by the queries sent, so it can be counted.
LEMMA SizeIs ==
    ASSUME SafeInv
    PROVE  IsFiniteSet(Outstanding) /\ Size \in Nat /\ sent \in Nat /\ requests \in Nat
<1>. USE DEF SafeInv, TypeInv
<1>1. sent \in Nat /\ requests \in Nat
  BY DEF TypeOK
<1>2. Outstanding \subseteq 1 .. sent
  BY DEF TypeOK, InOrder, Outstanding, InUse, Numbers
<1>3. IsFiniteSet(Outstanding)
  <2>1. IsFiniteSet(1 .. sent)
    BY <1>1, FS_Interval
  <2>. QED
    BY <1>2, <2>1, FS_Subset
<1>. QED
  BY <1>1, <1>3, FS_CardinalityType DEF Size

\* The primed copy, from an invariant that holds after the step.
LEMMA SizeIsNext ==
    ASSUME SafeInv' PROVE IsFiniteSet(Outstanding)' /\ Size' \in Nat
<1>. USE DEF SafeInv, TypeInv
<1>1. sent' \in Nat
  BY DEF TypeOK
<1>2. Outstanding' \subseteq 1 .. sent'
  BY DEF TypeOK, InOrder, Outstanding, InUse, Numbers
<1>3. IsFiniteSet(Outstanding')
  <2>1. IsFiniteSet(1 .. sent')
    BY <1>1, FS_Interval
  <2>. QED
    BY <1>2, <2>1, FS_Subset
<1>. QED
  BY <1>3, FS_CardinalityType DEF Size

\* One ID more is at most one more, and one in the place of another none.
LEMMA SizeAdds ==
    ASSUME NEW S, IsFiniteSet(S), NEW x
    PROVE  Cardinality(S) \in Nat /\ Cardinality(S \cup {x}) \in Nat
             /\ Cardinality(S \cup {x}) <= Cardinality(S) + 1
<1>1. Cardinality(S) \in Nat
  BY FS_CardinalityType
<1>2. Cardinality(S \cup {x}) = IF x \in S THEN Cardinality(S) ELSE Cardinality(S) + 1
  BY FS_AddElement
<1>. QED
  BY <1>1, <1>2

LEMMA SizeMoves ==
    ASSUME NEW S, IsFiniteSet(S), NEW x, NEW y \in S
    PROVE  /\ Cardinality(S \ {y}) = Cardinality(S) - 1
           /\ Cardinality((S \ {y}) \cup {x}) <= Cardinality(S)
<1>1. IsFiniteSet(S \ {y}) /\ Cardinality(S) \in Nat
  BY FS_RemoveElement, FS_CardinalityType
<1>2. Cardinality(S \ {y}) = IF y \in S THEN Cardinality(S) - 1 ELSE Cardinality(S)
  BY FS_RemoveElement
<1>3. /\ Cardinality((S \ {y}) \cup {x}) \in Nat
      /\ Cardinality((S \ {y}) \cup {x}) <= Cardinality(S \ {y}) + 1
  BY <1>1, SizeAdds
<1>. QED
  BY <1>1, <1>2, <1>3

\* A part of the cache, with the entries as they are.
Part(cache) ==
    /\ DOMAIN cache \subseteq DOMAIN dbQuery_cache
    /\ \A q \in DOMAIN cache : cache[q] = dbQuery_cache[q]

LEMMA ClearedIs ==
    ASSUME SafeInv, AnswersOnce, NEW pc \in Spins, Answered(pc)
    PROVE  /\ Part(Cleared) /\ cur.nr \in Outstanding
           /\ InUse(Cleared) = Outstanding \ {cur.nr}
<1>. USE DEF SafeInv, TypeInv
<1>1. cur.pc = pc /\ dbQuery_cache[cur.queryID] # Waiting
  BY DEF Answered
<1>2. cur.queryID \in DOMAIN dbQuery_cache /\ cur.queryID = cur.nr
  BY <1>1 DEF TypeOK, InOrder
<1>3. Elems(toDB) = {}
  BY WhenAnswered
<1>4. cur.nr \notin Numbers(fromDB)
  BY <1>1, <1>2 DEF AnswersOnce, Numbers
<1>5. /\ DOMAIN Cleared = DOMAIN dbQuery_cache \ {cur.nr}
      /\ \A q \in DOMAIN Cleared : Cleared[q] = dbQuery_cache[q]
  BY <1>2 DEF Cleared, Without
<1>. QED
  BY <1>2, <1>3, <1>4, <1>5 DEF Part, InUse, Outstanding, Numbers

\* A query adds its number to what its handler left in the cache.
LEMMA AskAdds ==
    ASSUME SafeInv, AnswersOnce, NEW h, "pc" \in DOMAIN h, NEW cache, Part(cache),
           NEW pc, NEW sql, Ask(h, cache, pc, sql), UNCHANGED fromDB
    PROVE  AnswersOnce' /\ Outstanding' = InUse(cache) \cup {sent + 1} /\ cur'.pc = pc
<1>. DEFINE n == sent + 1
            msg == [queryID |-> n, nr |-> n, query |-> sql]
<1>1. /\ dbQuery_cache' = With(cache, n, Waiting)
      /\ toDB' = Append(toDB, msg)
      /\ cur' = [h EXCEPT !.pc = pc, !.queryID = n, !.nr = n]
  BY DEF Ask, queryID
<1>2. Elems(toDB') = Elems(toDB) \cup {msg}
  <2>. HIDE DEF msg
  <2>1. toDB \in Seq(Messages \cup {msg})
    BY DEF SafeInv, TypeInv, TypeOK
  <2>. QED
    BY <1>1, <2>1, ElemsOfAppend
<1>3. /\ DOMAIN dbQuery_cache' = DOMAIN cache \cup {n}
      /\ \A q \in DOMAIN dbQuery_cache' :
           dbQuery_cache'[q] = Waiting \/ (q \in DOMAIN cache /\ dbQuery_cache'[q] = cache[q])
  BY <1>1 DEF With
<1>4. Outstanding' = InUse(cache) \cup {n}
  BY <1>2, <1>3 DEF Outstanding, InUse, Numbers
<1>5. AnswersOnce'
  BY <1>3 DEF AnswersOnce, Part
<1>6. cur'.pc = pc
  BY <1>1
<1>. QED
  BY <1>4, <1>5, <1>6

\* The four things a handler's step does to what is in use.
LEMMA AskedMore ==
    ASSUME SafeInv, AnswersOnce, NEW h, "pc" \in DOMAIN h, NEW pc, NEW sql,
           Ask(h, dbQuery_cache, pc, sql), UNCHANGED fromDB
    PROVE  AnswersOnce' /\ Size' <= Size + 1 /\ cur'.pc = pc
<1>1. Part(dbQuery_cache)
  BY DEF Part
<1>2. AnswersOnce' /\ Outstanding' = Outstanding \cup {sent + 1} /\ cur'.pc = pc
  BY <1>1, AskAdds DEF Outstanding
<1>. QED
  BY <1>2, SizeIs, SizeAdds DEF Size

LEMMA AskedAgain ==
    ASSUME SafeInv, AnswersOnce, NEW at \in Spins, Answered(at),
           NEW h, "pc" \in DOMAIN h, NEW pc, NEW sql,
           Ask(h, Cleared, pc, sql), UNCHANGED fromDB
    PROVE  AnswersOnce' /\ Size' <= Size /\ cur'.pc = pc
<1>1. /\ Part(Cleared) /\ cur.nr \in Outstanding
      /\ InUse(Cleared) = Outstanding \ {cur.nr}
  BY ClearedIs
<1>2. /\ AnswersOnce' /\ cur'.pc = pc
      /\ Outstanding' = (Outstanding \ {cur.nr}) \cup {sent + 1}
  BY <1>1, AskAdds
<1>. QED
  BY <1>1, <1>2, SizeIs, SizeMoves DEF Size

LEMMA Kept ==
    ASSUME SafeInv, AnswersOnce, UNCHANGED <<dbQuery_cache, toDB, fromDB>>
    PROVE  AnswersOnce' /\ Size' = Size
  BY DEF AnswersOnce, Size, Outstanding, InUse

LEMMA OneLess ==
    ASSUME SafeInv, AnswersOnce, NEW at \in Spins, Answered(at),
           dbQuery_cache' = Cleared, UNCHANGED <<toDB, fromDB>>
    PROVE  AnswersOnce' /\ Size' = Size - 1
<1>1. /\ Part(Cleared) /\ cur.nr \in Outstanding
      /\ InUse(Cleared) = Outstanding \ {cur.nr}
  BY ClearedIs
<1>2. Outstanding' = Outstanding \ {cur.nr}
  BY <1>1 DEF Outstanding, InUse
<1>3. AnswersOnce'
  BY <1>1 DEF AnswersOnce, Part
<1>. QED
  BY <1>1, <1>2, <1>3, SizeIs, SizeMoves DEF Size

(***************************************************************************)
(* Every step of a handler asks from the cache it left, or stops with it.  *)
(***************************************************************************)
Asks(cache, pc) == \E h, sql : "pc" \in DOMAIN h /\ Ask(h, cache, pc, sql)

Stops(cache, pc) == cur'.pc = pc /\ dbQuery_cache' = cache /\ toDB' = toDB

\* What publishing or dying does.
LEMMA PublishStops ==
    ASSUME NEW h, NEW cache, NEW ok, Publish(h, cache, ok) PROVE Stops(cache, "idle")
  BY DEF Publish, Stops, Idle

LEMMA GenIDAsks ==
    ASSUME NEW h \in AnyHandlers, NEW cache, NEW flag, GenID(h, cache, flag)
    PROVE  Asks(cache, "genID")
<1>1. PICK f \in Flags :
        Ask([h EXCEPT !.id = newID(f, h.req.device), !.flag = f], cache,
            "genID", Select("Device", newID(f, h.req.device)))
  BY DEF GenID
<1>2. "pc" \in DOMAIN [h EXCEPT !.id = newID(f, h.req.device), !.flag = f]
  BY DEF AnyHandlers
<1>. QED
  BY <1>1, <1>2 DEF Asks

LEMMA ContinueMoves ==
    ASSUME NEW h \in AnyHandlers, NEW cache, Continue(h, cache)
    PROVE  \/ Stops(cache, "items") \/ Stops(cache, "idle")
           \/ Asks(cache, "found") \/ Asks(cache, "query")
<1>1. "pc" \in DOMAIN h
  BY DEF AnyHandlers
<1>2. CASE Ask(h, cache, "found", SelectNothing)
  BY <1>1, <1>2 DEF Asks
<1>3. CASE Ask(h, cache, "query", Select("Device", h.id))
  BY <1>1, <1>3 DEF Asks
<1>4. CASE cur' = [h EXCEPT !.pc = "items"] /\ dbQuery_cache' = cache /\ UNCHANGED toDB
  BY <1>1, <1>4 DEF Stops
<1>5. CASE Publish(h, cache, FALSE)
  BY <1>5, PublishStops
<1>. QED
  BY <1>2, <1>3, <1>4, <1>5 DEF Continue, Fail

\* From a handler that waits, with its entry deleted.
LEMMA MovesCleared ==
    ASSUME SafeInv,
           JoinGenID \/ DeviceExists \/ RegisterGenID \/ UpdateFound \/ Query
    PROVE  /\ cur.pc \in Spins \ {"neighbors"} /\ Answered(cur.pc)
           /\ \/ Stops(Cleared, "items") \/ Stops(Cleared, "idle")
              \/ \E pc \in Spins : Asks(Cleared, pc)
<1>. USE DEF SafeInv, TypeInv
<1>1. CASE JoinGenID
  <2>1. Answered("genID") /\ cur.pc = "genID" /\ cur \in AnyHandlers
    BY <1>1, WhenAnswered DEF JoinGenID, Spins
  <2>2. \/ \E flag : GenID(cur, Cleared, flag)
        \/ \E sql : Ask(cur, Cleared, "device", sql)
        \/ Publish(cur, Cleared, FALSE)
    BY <1>1 DEF JoinGenID, Fail
  <2>3. Asks(Cleared, "genID") \/ Asks(Cleared, "device") \/ Stops(Cleared, "idle")
    BY <2>1, <2>2, GenIDAsks, PublishStops DEF Asks, AnyHandlers
  <2>. QED
    BY <2>1, <2>3 DEF Spins
<1>2. CASE DeviceExists
  <2>1. Answered("exists") /\ cur.pc = "exists" /\ cur \in AnyHandlers
    BY <1>2, WhenAnswered DEF DeviceExists, Spins
  <2>2. Continue(cur, Cleared) \/ Publish(cur, Cleared, FALSE)
    BY <1>2 DEF DeviceExists, Fail
  <2>3. \/ Stops(Cleared, "items") \/ Stops(Cleared, "idle")
        \/ Asks(Cleared, "found") \/ Asks(Cleared, "query")
    BY <2>1, <2>2, ContinueMoves, PublishStops
  <2>. QED
    BY <2>1, <2>3 DEF Spins
<1>3. CASE RegisterGenID
  <2>1. Answered("registerID") /\ cur.pc = "registerID" /\ cur \in AnyHandlers
    BY <1>3, WhenAnswered DEF RegisterGenID, Spins
  <2>2. CASE AskRegisterID(cur, Cleared, cur.flag + collision_inc)
    <3>. DEFINE flag == cur.flag + collision_inc
    <3>1. Ask([cur EXCEPT !.flag = flag], Cleared, "registerID",
              Select("RegisterList", newID(flag, Item(cur).hash)))
      BY <2>2 DEF AskRegisterID
    <3>2. "pc" \in DOMAIN [cur EXCEPT !.flag = flag]
      BY <2>1 DEF AnyHandlers
    <3>3. Asks(Cleared, "registerID")
      BY <3>1, <3>2 DEF Asks
    <3>. QED
      BY <2>1, <3>3 DEF Spins
  <2>3. CASE /\ cur' = [WithID(cur, newID(cur.flag, Item(cur).hash)) EXCEPT
                          !.misread = Misread(cur)]
             /\ dbQuery_cache' = Cleared /\ UNCHANGED toDB
    <3>1. cur'.pc = "items"
      BY <2>1, <2>3 DEF WithID, AnyHandlers
    <3>. QED
      BY <2>1, <2>3, <3>1 DEF Stops, Spins
  <2>. QED
    BY <1>3, <2>2, <2>3 DEF RegisterGenID
<1>4. CASE UpdateFound
  <2>1. Answered("found") /\ cur.pc = "found" /\ cur \in AnyHandlers
    BY <1>4, WhenAnswered DEF UpdateFound, Spins
  <2>2. \/ \E sql : Ask(cur, Cleared, "update", sql)
        \/ Publish(cur, Cleared, FALSE)
    BY <1>4 DEF UpdateFound, Fail
  <2>3. Asks(Cleared, "update") \/ Stops(Cleared, "idle")
    BY <2>1, <2>2, PublishStops DEF Asks, AnyHandlers
  <2>. QED
    BY <2>1, <2>3 DEF Spins
<1>5. CASE Query
  <2>1. Answered("query") /\ cur.pc = "query" /\ Publish(cur, Cleared, TRUE)
    BY <1>5 DEF Query, Answered, Succeed
  <2>. QED
    BY <2>1, PublishStops DEF Spins
<1>. QED
  BY <1>1, <1>2, <1>3, <1>4, <1>5

\* From a handler that publishes, with its entry deleted or left behind.
LEMMA MovesEnding ==
    ASSUME JoinNeighbors \/ Leave \/ RegisterInsert \/ Update
    PROVE  \/ Stops(dbQuery_cache, "idle")
           \/ /\ cur.pc \in Spins \ {"neighbors"} /\ Answered(cur.pc)
              /\ Stops(Cleared, "idle")
<1>1. CASE JoinNeighbors
  BY <1>1, PublishStops DEF JoinNeighbors
<1>2. CASE Leave
  BY <1>2, PublishStops DEF Leave, Fail, Answered, Spins
<1>3. CASE RegisterInsert
  BY <1>3, PublishStops DEF RegisterInsert, Fail, Succeed, Answered, Spins
<1>4. CASE Update
  BY <1>4, PublishStops DEF Update, Fail, Succeed, Answered, Spins
<1>. QED
  BY <1>1, <1>2, <1>3, <1>4

\* From a join between its inserts, and a registration between its items.
LEMMA MovesKeeping ==
    ASSUME SafeInv, JoinDevice \/ RegisterItem \/ RegisterAll
    PROVE  \/ cur.pc = "device"
                /\ (Stops(dbQuery_cache, "idle") \/ Asks(dbQuery_cache, "neighbors"))
           \/ cur.pc = "items"
                /\ (Stops(dbQuery_cache, "items")
                      \/ \E pc \in Spins : Asks(dbQuery_cache, pc))
<1>. USE DEF SafeInv, TypeInv
<1>1. CASE JoinDevice
  <2>1. cur.pc = "device" /\ cur \in AnyHandlers
    BY <1>1, WhenAnswered DEF JoinDevice, Spins
  <2>2. \/ \E sql : Ask(cur, dbQuery_cache, "neighbors", sql)
        \/ Publish(cur, dbQuery_cache, FALSE)
    BY <1>1 DEF JoinDevice, Fail
  <2>. QED
    BY <2>1, <2>2, PublishStops DEF Asks, AnyHandlers
<1>2. CASE RegisterItem
  <2>1. cur.pc = "items" /\ cur \in Handlers
    BY <1>2 DEF RegisterItem, TypeOK, Idle, Dead
  <2>2. CASE \E flag : AskRegisterID(cur, dbQuery_cache, flag)
    <3>1. PICK flag \in Flags :
            Ask([cur EXCEPT !.flag = flag], dbQuery_cache, "registerID",
                Select("RegisterList", newID(flag, Item(cur).hash)))
      BY <2>2 DEF AskRegisterID
    <3>2. "pc" \in DOMAIN [cur EXCEPT !.flag = flag]
      BY <2>1 DEF Handlers
    <3>3. Asks(dbQuery_cache, "registerID")
      BY <3>1, <3>2 DEF Asks
    <3>. QED
      BY <2>1, <3>3 DEF Spins
  <2>3. CASE /\ \E id : cur' = WithID(cur, id)
             /\ UNCHANGED <<dbQuery_cache, toDB>>
    <3>1. cur'.pc = "items"
      BY <2>1, <2>3 DEF WithID, Handlers
    <3>. QED
      BY <2>1, <2>3, <3>1 DEF Stops
  <2>. QED
    BY <1>2, <2>2, <2>3 DEF RegisterItem
<1>3. CASE RegisterAll
  <2>1. cur.pc = "items" /\ cur \in Handlers
    BY <1>3 DEF RegisterAll, TypeOK, Idle, Dead
  <2>2. \E sql : Ask(cur, dbQuery_cache, "insert", sql)
    BY <1>3 DEF RegisterAll
  <2>3. Asks(dbQuery_cache, "insert")
    BY <2>1, <2>2 DEF Asks, Handlers
  <2>. QED
    BY <2>1, <2>3 DEF Spins
<1>. QED
  BY <1>1, <1>2, <1>3

LEMMA ReserveIs ==
    /\ cur.pc = "items" => Reserve = 2
    /\ cur.pc \in Spins \ {"neighbors"} => Reserve = 1
    /\ cur.pc \in {"neighbors", "idle", "dead"} => Reserve = 0
    /\ Reserve \in 0 .. 2
    /\ cur'.pc = "items" => Reserve' = 2
    /\ cur'.pc \in Spins => Reserve' \in 0 .. 1
    /\ cur'.pc \in {"neighbors", "idle", "dead"} => Reserve' = 0
  BY DEF Reserve, Spins

LEMMA HandlerSize ==
    ASSUME SafeInv, SafeInv', CacheInv, Handler PROVE CacheInv'
<1>1. HandlerFrame /\ requests' = requests /\ fromDB' = fromDB
  BY DEF Handler, HandlerFrame
<1>2. Size \in Nat /\ requests \in Nat /\ Size' \in Nat
  BY SizeIs, SizeIsNext
<1>3. AnswersOnce /\ Size + Reserve <= 2 * requests
  BY DEF CacheInv
<1>4. CASE /\ cur.pc \in Spins \ {"neighbors"} /\ Answered(cur.pc)
           /\ \E pc \in Spins : Asks(Cleared, pc)
  <2>1. PICK pc \in Spins : \E h, sql : "pc" \in DOMAIN h /\ Ask(h, Cleared, pc, sql)
    BY <1>4 DEF Asks
  <2>2. AnswersOnce' /\ Size' <= Size /\ cur'.pc = pc
    BY <1>1, <1>3, <1>4, <2>1, AskedAgain
  <2>. QED
    BY <1>1, <1>2, <1>3, <1>4, <2>2, ReserveIs DEF CacheInv
<1>5. CASE /\ cur.pc \in Spins \ {"neighbors"} /\ Answered(cur.pc)
           /\ (Stops(Cleared, "items") \/ Stops(Cleared, "idle"))
  <2>1. AnswersOnce' /\ Size' = Size - 1
    BY <1>1, <1>3, <1>5, OneLess DEF Stops
  <2>. QED
    BY <1>1, <1>2, <1>3, <1>5, <2>1, ReserveIs DEF CacheInv, Stops
<1>6. CASE \/ Stops(dbQuery_cache, "idle")
           \/ cur.pc = "items" /\ Stops(dbQuery_cache, "items")
  <2>1. AnswersOnce' /\ Size' = Size
    BY <1>1, <1>3, <1>6, Kept DEF Stops
  <2>. QED
    BY <1>1, <1>2, <1>3, <1>6, <2>1, ReserveIs DEF CacheInv, Stops
<1>7. CASE \/ cur.pc = "device" /\ Asks(dbQuery_cache, "neighbors")
           \/ cur.pc = "items" /\ \E pc \in Spins : Asks(dbQuery_cache, pc)
  <2>1. PICK pc \in Spins :
          /\ \E h, sql : "pc" \in DOMAIN h /\ Ask(h, dbQuery_cache, pc, sql)
          /\ cur.pc = "items" \/ (cur.pc = "device" /\ pc = "neighbors")
    BY <1>7 DEF Asks, Spins
  <2>2. AnswersOnce' /\ Size' <= Size + 1 /\ cur'.pc = pc
    BY <1>1, <1>3, <2>1, AskedMore
  <2>3. cur.pc = "device" => cur.pc \in Spins \ {"neighbors"}
    BY DEF Spins
  <2>. QED
    BY <1>1, <1>2, <1>3, <2>1, <2>2, <2>3, ReserveIs DEF CacheInv
<1>. QED
  BY <1>4, <1>5, <1>6, <1>7, MovesCleared, MovesEnding, MovesKeeping DEF Handler

LEMMA OnMessageSize ==
    ASSUME SafeInv, SafeInv', CacheInv, NEW req \in Requests, OnMessage(req) PROVE CacheInv'
<1>. USE DEF SafeInv, TypeInv
<1>. DEFINE h == Start(req)
<1>1. /\ requests' = requests + 1 /\ fromDB' = fromDB
      /\ cur.pc = "idle"
  BY DEF OnMessage, Idle
<1>2. Size \in Nat /\ requests \in Nat /\ Size' \in Nat
  BY SizeIs, SizeIsNext
<1>3. AnswersOnce /\ Size <= 2 * requests
  BY <1>1, <1>2, ReserveIs DEF CacheInv
<1>4. ASSUME req.op # "garbage" PROVE h \in AnyHandlers
  <2>1. req.device \in DeviceIDs
    BY <1>4, RequestKinds DEF DeviceIDs
  <2>2. 0 \in Flags
    BY BoundsAssumption DEF Flags
  <2>3. << >> \in Seq(ProvidingIDs) /\ << >> \in Seq(Rows) /\ << >> \in Seq(Attributes)
    OBVIOUS
  <2>. QED
    BY <2>1, <2>2, <2>3 DEF Start, AnyHandlers
<1>5. \/ Stops(dbQuery_cache, "items") \/ Stops(dbQuery_cache, "idle")
      \/ Stops(dbQuery_cache, "dead")
      \/ \E pc \in Spins : Asks(dbQuery_cache, pc)
  <2>1. CASE cur' = Dead /\ UNCHANGED <<dbQuery_cache, toDB>>
    BY <2>1 DEF Stops, Dead
  <2>2. CASE req.op # "garbage" /\ Handle(h)
    <3>1. h \in AnyHandlers /\ "pc" \in DOMAIN h
      BY <1>4, <2>2 DEF AnyHandlers
    <3>. HIDE DEF h
    <3>2. \/ Publish(h, dbQuery_cache, FALSE)
          \/ GenID(h, dbQuery_cache, 0)
          \/ Ask(h, dbQuery_cache, "leave", Delete("Device", h.id))
          \/ Continue(h, dbQuery_cache)
          \/ Ask(h, dbQuery_cache, "exists", Select("Device", h.id))
      BY <2>2 DEF Handle, Fail, AskLeave
    <3>3. \/ Stops(dbQuery_cache, "items") \/ Stops(dbQuery_cache, "idle")
          \/ Asks(dbQuery_cache, "genID") \/ Asks(dbQuery_cache, "leave")
          \/ Asks(dbQuery_cache, "exists") \/ Asks(dbQuery_cache, "found")
          \/ Asks(dbQuery_cache, "query")
      BY <3>1, <3>2, PublishStops, GenIDAsks, ContinueMoves DEF Asks
    <3>. QED
      BY <3>3 DEF Spins
  <2>. QED
    BY <2>1, <2>2 DEF OnMessage
<1>6. CASE \/ Stops(dbQuery_cache, "items") \/ Stops(dbQuery_cache, "idle")
           \/ Stops(dbQuery_cache, "dead")
  <2>1. AnswersOnce' /\ Size' = Size
    BY <1>1, <1>3, <1>6, Kept DEF Stops
  <2>. QED
    BY <1>1, <1>2, <1>3, <1>6, <2>1, ReserveIs DEF CacheInv, Stops
<1>7. CASE \E pc \in Spins : Asks(dbQuery_cache, pc)
  <2>1. PICK pc \in Spins :
          \E g, sql : "pc" \in DOMAIN g /\ Ask(g, dbQuery_cache, pc, sql)
    BY <1>7 DEF Asks
  <2>2. AnswersOnce' /\ Size' <= Size + 1 /\ cur'.pc = pc
    BY <1>1, <1>3, <2>1, AskedMore
  <2>. QED
    BY <1>1, <1>2, <1>3, <2>2, ReserveIs DEF CacheInv
<1>. QED
  BY <1>5, <1>6, <1>7

(***************************************************************************)
(* Every other step leaves in use what was in use, or less.                *)
(***************************************************************************)
LEMMA ServiceAnswers ==
    ASSUME SafeInv, SafeInv', CacheInv, toDB # << >>,
           NEW error \in BOOLEAN, NEW found \in BOOLEAN, Executes(Head(toDB), error, found),
           UNCHANGED dbQuery_cache
    PROVE  AnswersOnce' /\ Outstanding' \subseteq Outstanding
<1>. USE DEF SafeInv, TypeInv
<1>. DEFINE m == Head(toDB)
            a == [queryID |-> m.queryID, nr |-> m.nr, error |-> error, found |-> found]
<1>1. /\ m \in Messages /\ m \in Elems(toDB) /\ Elems(Tail(toDB)) \subseteq Elems(toDB)
  BY ElemsOfTail DEF TypeOK
<1>2. a \in Answers
  BY <1>1 DEF Messages, Answers
<1>3. toDB' = Tail(toDB) /\ fromDB' = Append(fromDB, a)
  BY DEF Executes
<1>. HIDE DEF m
<1>4. a.nr = m.nr /\ fromDB \in Seq(Answers)
  BY DEF TypeOK
<1>. HIDE DEF a
<1>5. Elems(fromDB') = Elems(fromDB) \cup {a}
  BY <1>2, <1>3, <1>4, ElemsOfAppend
<1>6. \A b \in Elems(fromDB) : b.nr < a.nr
  BY <1>1, <1>4 DEF InOrder
<1>7. Ascending(fromDB')
  BY <1>2, <1>3, <1>4, <1>6, AscendingAppend DEF CacheInv, AnswersOnce
<1>8. a.nr \in DOMAIN dbQuery_cache => dbQuery_cache[a.nr] = Waiting
  <2>1. m.nr \in Nat
    BY <1>1 DEF Messages
  <2>2. a.nr \in DOMAIN dbQuery_cache /\ dbQuery_cache[a.nr] # Waiting => a.nr < m.nr
    BY <1>1 DEF InOrder, CacheInOrder
  <2>. QED
    BY <1>4, <2>1, <2>2
<1>9. AnswersOnce'
  BY <1>5, <1>7, <1>8 DEF CacheInv, AnswersOnce
<1>. QED
  BY <1>1, <1>3, <1>4, <1>5, <1>9 DEF Outstanding, InUse, Numbers

LEMMA AnswerStored ==
    ASSUME SafeInv, CacheInv, OnDbMessage
    PROVE  AnswersOnce' /\ Outstanding' \subseteq Outstanding
<1>. USE DEF SafeInv, TypeInv
<1>. DEFINE a == Head(fromDB)
<1>1. /\ a \in Answers /\ a \in Elems(fromDB)
      /\ Elems(Tail(fromDB)) \subseteq Elems(fromDB)
      /\ Ascending(Tail(fromDB)) /\ \A b \in Elems(Tail(fromDB)) : a.nr < b.nr
  BY ElemsOfTail DEF TypeOK, OnDbMessage, CacheInv, AnswersOnce
<1>2. /\ dbQuery_cache' = With(dbQuery_cache, a.queryID, a) /\ a.queryID = a.nr
      /\ fromDB' = Tail(fromDB) /\ toDB' = toDB
  BY <1>1 DEF OnDbMessage, Store, InOrder
<1>. HIDE DEF a
<1>3. /\ DOMAIN dbQuery_cache' = DOMAIN dbQuery_cache \cup {a.nr}
      /\ \A q \in DOMAIN dbQuery_cache : q # a.nr => dbQuery_cache'[q] = dbQuery_cache[q]
  BY <1>2 DEF With
<1>4. AnswersOnce'
  <2>1. ASSUME NEW b \in Elems(fromDB'), b.nr \in DOMAIN dbQuery_cache'
        PROVE  dbQuery_cache'[b.nr] = Waiting
    <3>1. b \in Elems(fromDB) /\ a.nr < b.nr /\ a.nr \in Nat
      BY <1>1, <1>2, <2>1 DEF Answers
    <3>. QED
      BY <1>3, <2>1, <3>1 DEF CacheInv, AnswersOnce
  <2>. QED
    BY <1>1, <1>2, <2>1 DEF AnswersOnce
<1>. QED
  BY <1>1, <1>2, <1>3, <1>4 DEF Outstanding, InUse, Numbers

LEMMA MessageGone ==
    ASSUME SafeInv, CacheInv, UNCHANGED dbQuery_cache,
           \/ toDB # << >> /\ toDB' = Tail(toDB) /\ UNCHANGED fromDB
           \/ fromDB # << >> /\ fromDB' = Tail(fromDB) /\ UNCHANGED toDB
    PROVE  AnswersOnce' /\ Outstanding' \subseteq Outstanding
<1>. USE DEF SafeInv, TypeInv
<1>1. /\ Elems(toDB') \subseteq Elems(toDB) /\ Elems(fromDB') \subseteq Elems(fromDB)
      /\ Ascending(fromDB')
  BY ElemsOfTail DEF TypeOK, CacheInv, AnswersOnce
<1>. QED
  BY <1>1 DEF CacheInv, AnswersOnce, Outstanding, InUse, Numbers

\* What is in use did not grow, and no handler moved.
LEMMA NotMore ==
    ASSUME SafeInv, CacheInv, AnswersOnce', Outstanding' \subseteq Outstanding,
           requests' = requests, cur' = cur \/ cur' = Idle
    PROVE  CacheInv'
<1>1. Size' \in Nat /\ Size' <= Size /\ Size \in Nat /\ requests \in Nat
  BY SizeIs, FS_Subset, FS_CardinalityType DEF Size
<1>2. Reserve' <= Reserve /\ Reserve' \in Nat /\ Reserve \in Nat
  BY DEF Reserve, Idle, Spins
<1>3. Size + Reserve <= 2 * requests
  BY DEF CacheInv
<1>4. Size' + Reserve' <= 2 * requests'
  <2>1. \A a, b, c, d, n \in Nat : a <= b /\ c <= d /\ b + d <= 2 * n => a + c <= 2 * n
    OBVIOUS
  <2>. QED
    BY ONLY <1>1, <1>2, <1>3, <2>1, requests' = requests
<1>. QED
  BY <1>4 DEF CacheInv

LEMMA CacheStep ==
    ASSUME SafeInv, SafeInv', CacheInv, [Next]_vars PROVE CacheInv'
<1>1. CASE \E req \in Requests : OnMessage(req)
  BY <1>1, OnMessageSize
<1>2. CASE Handler
  BY <1>2, HandlerSize
<1>3. CASE OnDbMessage
  <2>1. requests' = requests /\ cur' = cur
    BY <1>3 DEF OnDbMessage
  <2>. QED
    BY <1>3, <2>1, AnswerStored, NotMore
<1>4. CASE AnswerUnsubscribed \/ LoseMessage
  <2>1. /\ requests' = requests /\ cur' = cur /\ UNCHANGED dbQuery_cache
        /\ \/ toDB # << >> /\ toDB' = Tail(toDB) /\ UNCHANGED fromDB
           \/ fromDB # << >> /\ fromDB' = Tail(fromDB) /\ UNCHANGED toDB
    BY <1>4 DEF AnswerUnsubscribed, LoseMessage
  <2>. QED
    BY <2>1, MessageGone, NotMore
<1>5. CASE DBExecute \/ SelectFails
  <2>1. /\ requests' = requests /\ cur' = cur /\ UNCHANGED dbQuery_cache /\ toDB # << >>
        /\ \E error, found \in BOOLEAN : Executes(Head(toDB), error, found)
    BY <1>5 DEF DBExecute, DBSelect, DBInsert, DBDelete, DBUpdate, SelectFails
  <2>. QED
    BY <2>1, ServiceAnswers, NotMore
<1>6. CASE Restart
  <2>1. /\ requests' = requests /\ cur' = Idle /\ toDB' = toDB /\ fromDB' = fromDB
        /\ DOMAIN dbQuery_cache' = {}
    BY <1>6 DEF Restart, queues
  <2>2. AnswersOnce' /\ Outstanding' \subseteq Outstanding
    BY <2>1 DEF CacheInv, AnswersOnce, Outstanding, InUse
  <2>. QED
    BY <2>1, <2>2, NotMore
<1>7. CASE OnDbConnect \/ DbDisconnect \/ MainLoop \/ UNCHANGED vars
  <2>1. requests' = requests /\ cur' = cur /\ UNCHANGED <<dbQuery_cache, toDB, fromDB>>
    BY <1>7 DEF OnDbConnect, DbDisconnect, MainLoop, vars, queues
  <2>2. AnswersOnce' /\ Outstanding' \subseteq Outstanding
    BY <2>1 DEF CacheInv, AnswersOnce, Outstanding, InUse
  <2>. QED
    BY <2>1, <2>2, NotMore
<1>. QED
  BY <1>1, <1>2, <1>3, <1>4, <1>5, <1>6, <1>7 DEF Next

LEMMA CacheInit == Init => CacheInv
<1>. SUFFICES ASSUME Init PROVE CacheInv
  OBVIOUS
<1>1. /\ dbQuery_cache = << >> /\ DOMAIN dbQuery_cache = {}
      /\ toDB = << >> /\ fromDB = << >> /\ requests = 0 /\ cur.pc = "idle"
  BY DEF Init, Idle
<1>2. Elems(toDB) = {} /\ Elems(fromDB) = {} /\ Ascending(fromDB)
  BY <1>1 DEF Elems, Ascending
<1>3. Outstanding = {}
  BY <1>1, <1>2 DEF Outstanding, InUse, Numbers
<1>4. Size = 0 /\ Reserve = 0
  BY <1>1, <1>3, FS_EmptySet, ReserveIs DEF Size
<1>. QED
  BY <1>1, <1>2, <1>4 DEF CacheInv, AnswersOnce

-----------------------------------------------------------------------------
(***************************************************************************)
(* The theorems.                                                           *)
(***************************************************************************)
\* The inductive invariant of the manager, its broker and its service.
THEOREM SafeInvariant == Spec => []SafeInv
<1>1. Init => SafeInv
  BY SafeInvInit
<1>2. SafeInv /\ [Next]_vars => SafeInv'
  BY StepKeeps
<1>. QED
  BY <1>1, <1>2, PTL DEF Spec

\* The state stays within its types, and a spinning handler finds its entry in
\* dbQuery_cache.
THEOREM TypeCorrect == Spec => []TypeOK
<1>1. SafeInv => TypeOK
  BY DEF SafeInv, TypeInv
<1>. QED
  BY <1>1, SafeInvariant, PTL

\* The answer a handler stops spinning for answers its own query
\* (send_DBquery and on_db_message share dbQuery_cache without a lock).
THEOREM AnswersMatch == Spec => []AnswerMatches
<1>1. SafeInv => AnswerMatches
  <2>. SUFFICES ASSUME SafeInv, cur.pc \in Spins, dbQuery_cache[cur.queryID] # Waiting
                PROVE  dbQuery_cache[cur.queryID].nr = cur.nr
    BY DEF AnswerMatches
  <2>. QED
    BY DEF SafeInv, TypeInv, TypeOK, InOrder, CacheInOrder
<1>. QED
  BY <1>1, SafeInvariant, PTL

\* What a client was told stays in the service's tables until somebody asks to
\* take it away, whatever is lost and however often the manager is restarted.
THEOREM PromisesAreKept == Spec => []PromisesKept
<1>1. SafeInv => PromisesKept
  BY DEF SafeInv
<1>. QED
  BY <1>1, SafeInvariant, PTL

\* dbQuery_cache grows by at most two entries for each request that arrived:
\* what a join leaves behind, what a refused insert does, and the answers that
\* come for a handler that died with a restart (send_DBquery, on_db_message).
THEOREM CacheIsBounded == Spec => []DbQueryCacheBounded
<1>1. Init => SafeInv /\ CacheInv
  BY SafeInvInit, CacheInit
<1>2. SafeInv /\ CacheInv /\ [Next]_vars => (SafeInv /\ CacheInv)'
  <2>. SUFFICES ASSUME SafeInv, CacheInv, [Next]_vars PROVE (SafeInv /\ CacheInv)'
    OBVIOUS
  <2>1. SafeInv'
    BY StepKeeps
  <2>. QED
    BY <2>1, CacheStep
<1>3. SafeInv /\ CacheInv => DbQueryCacheBounded
  <2>. SUFFICES ASSUME SafeInv, CacheInv PROVE DbQueryCacheBounded
    OBVIOUS
  <2>1. DOMAIN dbQuery_cache \subseteq Outstanding
    BY DEF Outstanding, InUse
  <2>2. /\ Cardinality(DOMAIN dbQuery_cache) \in Nat
        /\ Cardinality(DOMAIN dbQuery_cache) <= Size
    BY <2>1, SizeIs, FS_Subset, FS_CardinalityType DEF Size
  <2>3. Size + Reserve <= 2 * requests
    BY DEF CacheInv
  <2>. QED
    BY <2>2, <2>3, SizeIs, ReserveIs DEF DbQueryCacheBounded
<1>. QED
  BY <1>1, <1>2, <1>3, PTL DEF Spec

\* The manager, its broker and its service implement the registry.
THEOREM ManagerImplementsRegistry == Spec => ImplementsRegistry
<1>1. Init => Registry!Init
  BY DEF Init, Registry!Init
<1>2. SafeInv /\ [Next]_vars => [Registry!Next]_<<members, provided>>
  BY StepKeeps
<1>. QED
  BY <1>1, <1>2, SafeInvariant, PTL DEF Spec, ImplementsRegistry, Registry!Spec

=============================================================================
