------------------------ MODULE Resolver2016Proofs ------------------------
(***************************************************************************)
(* Theorems about Resolver2016, for any processes of either program, any   *)
(* number of threads of each, any requests, and any number of columns,     *)
(* requests and faults.                                                    *)
(***************************************************************************)
EXTENDS Resolver2016, WellFoundedInduction, SequenceTheorems, TLAPS

-----------------------------------------------------------------------------
(***************************************************************************)
(* The inductive invariant: types.                                         *)
(***************************************************************************)
Active == {p \in Threads : cur[p] # Idle}

AnyRow == Rows("Device") \cup Rows("Service")

Grant == [op : {"Join", "Update", "Request"}, nr : 1 .. requests, id : Nat,
          process : Processes, device : Nat, services : Nat, seen : SUBSET (1 .. requests)]

Shape ==
    /\ db \in [rows : [Tables -> SUBSET AnyRow], columns : Nat]
    /\ cur \in [Threads -> Handlers \cup {Idle}]
    /\ runs \in [Processes -> Nat]
    /\ granted \subseteq Grant

\* The row that the handler h of a Join or a Request writes.
OwnRow(h) ==
    [id |-> h.id, device |-> IF h.req.op = "Join" THEN h.id ELSE h.req.device, nr |-> h.nr]

\* What the open transaction of thread p's handler h consists of.
WritesOK(p, h) ==
    /\ h.writes["Device"] =
         IF h.req.op = "Join" /\ h.req.interfaces THEN {OwnRow(h)} ELSE {}
    /\ h.writes["Neighbor"] \subseteq {OwnRow(h)}
    /\ h.writes["Neighbor"] # {} => h.req.op = "Join"
    /\ h.writes["Request"] = IF h.req.op = "Request" THEN {OwnRow(h)} ELSE {}
    /\ h.writes["Service"] # {} => h.req.op = "Update"
    /\ \A r \in h.writes["Service"] :
         /\ r \in Rows("Service")
         /\ r.nr = h.nr /\ r.device = h.req.device /\ r.by = Run(p)

\* Where a handler may be.
Control(h) ==
    /\ h.pc \in {"count", "services", "increment", "number", "alter"} => h.req.op = "Update"
    /\ h.pc = "count" => h.done = 0
    /\ h.pc \in {"services", "increment", "number", "alter"} => h.done < Len(h.req.services)

\* IDs are counted up at most once in a request, and devices are their own.
SmallIDs ==
    /\ \A t \in {"Device", "Request"} : \A r \in db.rows[t] : r.id <= r.nr
    /\ \A t \in {"Device", "Neighbor"} : \A r \in db.rows[t] : r.device = r.id
    /\ \A p \in Active : cur[p].id <= cur[p].nr

TypeInv ==
    /\ TypeOK /\ Shape /\ SmallIDs
    /\ \A p \in Active : WritesOK(p, cur[p]) /\ Control(cur[p])

-----------------------------------------------------------------------------
(***************************************************************************)
(* The inductive invariant: safety.                                        *)
(***************************************************************************)
\* The request that a handler answers is new to everybody else; what it has
\* committed already are services, with an ALTER TABLE.
FreshNumbers ==
    \A p \in Active :
        /\ cur[p].nr \notin failed
        /\ \A g \in granted : g.nr # cur[p].nr /\ cur[p].nr \notin g.seen
        /\ \A q \in Active : cur[p].nr \notin cur[q].seen
        /\ \A t \in Tables : \A r \in db.rows[t] :
             r.nr = cur[p].nr => t = "Service" /\ cur[p].nr \in altered

\* The services of an Update, stored or in its transaction, are the first ones
\* of its request, and those it has stored come before the others; only if its
\* device left after an ALTER TABLE, they may not.
WholeUpdates ==
    \A p \in Active :
        cur[p].req.op = "Update" /\ cur[p].nr \notin altered \cap stranded =>
            /\ Places(cur[p].nr) \cup {r.place : r \in cur[p].writes["Service"]}
                 = 1 .. cur[p].done
            /\ \A i \in Places(cur[p].nr) : 1 .. i \subseteq Places(cur[p].nr)

\* The services of one request are of one device, the one it says.
OneDevice ==
    \A r \in db.rows["Service"] :
        /\ \A s \in db.rows["Service"] : r.nr = s.nr => r.device = s.device
        /\ \A p \in Active : r.nr = cur[p].nr =>
             cur[p].req.op = "Update" /\ r.device = cur[p].req.device
        /\ \A g \in granted : r.nr = g.nr => g.op = "Update" /\ r.device = g.device

\* What a handler saw granted has a smaller ID than its own.
GreaterThanSeen ==
    \A p \in Active : \A k \in granted :
        /\ k.op = cur[p].req.op /\ k.nr \in cur[p].seen
        /\ k.op = "Join" \/ (k.op = "Request" /\ Per(p))
        => k.id < cur[p].id

\* An Update's device has joined before it, or has left and strands it.
DevicesOfUpdates ==
    \A p \in Active :
        cur[p].req.op = "Update" /\ cur[p].pc # "refused" =>
            \/ cur[p].nr \in stranded
            \/ \E d \in db.rows["Device"] :
                 d.device = cur[p].req.device /\ d.nr < cur[p].nr

\* A device and a neighbor that joined together have the same ID.
JoinedTogether ==
    \A d \in db.rows["Device"], n \in db.rows["Neighbor"] :
        d.nr = n.nr => d.device = n.device

\* Of two Updates that a process runs at once, each overlaps the other.
LoneUpdates ==
    \A p, q \in Active :
        /\ p # q /\ ProcessOf[p] = ProcessOf[q]
        /\ cur[p].req.op = "Update" /\ cur[q].req.op = "Update"
        => cur[p].nr \in overlapped

\* The services that are stored, or wait for a commit; those of Updates that
\* run alone in their process.
Stored == db.rows["Service"] \cup UNION {cur[p].writes["Service"] : p \in Active}

LoneRows == {r \in Stored : r.nr \notin overlapped}

\* The thread p runs its Update alone in its process.
Alone(p) == p \in Active /\ cur[p].nr \notin overlapped

\* No run numbers services before it begins; the numbers of those that a run
\* counted alone are not above manageNum, and no later service has one of them:
\* nobody who counts sets manageNum back below them.
Numbers ==
    /\ \A r \in Stored : r.by[2] <= runs[r.by[1]]
    /\ \A r \in LoneRows : r.by[2] = runs[r.by[1]] => r.id <= manageNum[r.by[1]]
    /\ \A q \in LoneRows, r \in Stored :
         q # r /\ q.by = r.by /\ q.nr <= r.nr /\ q.id # 0 => q.id # r.id

NumbersOf(p) ==
    \A r \in LoneRows : r.by = Run(p) =>
        /\ cur[p].pc = "increment" => r.id <= cur[p].number
        /\ cur[p].pc = "number" => r.id < Counter(p)
        /\ cur[p].pc = "alter" /\ cur[p].number # 0 => r.id < cur[p].number

LastNumbers ==
    \A p \in Active :
        /\ NumbersOf(p)
        /\ Alone(p) /\ cur[p].pc = "alter" => cur[p].number <= Counter(p)

\* While an Update runs alone, its run has no service of a later one.
LastAlone ==
    \A p \in Active :
        Alone(p) /\ cur[p].req.op = "Update" =>
            \A r \in Stored : r.by = Run(p) => r.nr <= cur[p].nr

\* The columns that an INSERT not committed yet names, and those counted.
ColumnsOfWrites ==
    \A p \in Active :
        /\ cur[p].columns <= db.columns
        /\ \A r \in cur[p].writes["Service"] : r.attributes <= db.columns

SafeInv ==
    /\ TypeInv /\ FreshNumbers
    /\ WholeUpdates /\ OneDevice /\ AcksStored
    /\ FailuresLeaveNothing
    /\ GreaterThanSeen /\ SameIDOnlyByRace
    /\ DevicesOfUpdates /\ JoinedTogether /\ RowsOfMembers
    /\ LoneUpdates /\ LastAlone /\ Numbers /\ LastNumbers
    /\ ColumnsOfWrites /\ AttributeColumnsExist

-----------------------------------------------------------------------------
(***************************************************************************)
(* Generated IDs: the greatest exists, since the IDs stored are bounded.   *)
(***************************************************************************)
\* A non-empty set of numbers up to b has a greatest one.
LEMMA MaxExists ==
    ASSUME NEW ids \in SUBSET Nat, ids # {}, NEW b \in Nat, \A i \in ids : i <= b
    PROVE  \E m \in ids : \A i \in ids : m >= i
<1>. DEFINE gaps == {n \in Nat : b - n \in ids}
<1>1. gaps \subseteq Nat /\ gaps # {}
  <2>1. PICK i \in ids : TRUE
    OBVIOUS
  <2>2. b - i \in Nat /\ b - (b - i) = i
    BY <2>1
  <2>. QED
    BY <2>2
<1>2. PICK g \in gaps : \A n \in gaps : ~(<<n, g>> \in OpToRel(<, Nat))
  BY <1>1, NatLessThanWellFounded, WFMin
<1>3. \A n \in gaps : ~(n < g)
  BY <1>2 DEF OpToRel
<1>4. ASSUME NEW i \in ids PROVE b - g >= i
  <2>1. b - i \in gaps
    <3>1. b - i \in Nat /\ b - (b - i) = i
      BY i <= b
    <3>. QED
      BY <3>1
  <2>2. g \in Nat /\ b - i \in Nat /\ i \in Nat
    BY <1>1, <2>1
  <2>3. ~(b - i < g)
    BY <1>3, <2>1
  <2>. HIDE DEF gaps
  <2>. QED
    BY <2>2, <2>3
<1>. QED
  BY <1>4

\* NextID is greater than every ID, and exceeds their bound by at most one.
LEMMA NextIDIsGreater ==
    ASSUME NEW ids \in SUBSET Nat, NEW b \in Nat, \A i \in ids : i <= b
    PROVE  /\ NextID(ids) \in 1 .. b + 1
           /\ \A i \in ids : i < NextID(ids)
<1>. DEFINE known == ids \cup {0}
            top   == Max(known)
<1>1. known \in SUBSET Nat /\ known # {} /\ \A i \in known : i <= b
  OBVIOUS
<1>2. top \in known /\ \A i \in known : top >= i
  <2>. HIDE DEF known
  <2>1. PICK m \in known : \A i \in known : m >= i
    BY <1>1, MaxExists
  <2>. QED
    BY <2>1 DEF Max
<1>3. NextID(ids) = top + 1
  BY DEF NextID
<1>. HIDE DEF top
<1>. QED
  BY <1>1, <1>2, <1>3

\* The ID of resolver.py's Request, one more than one that is stored, exceeds
\* their bound by at most one.
LEMMA NextIDByTextIsSmall ==
    ASSUME NEW b \in Nat, NEW ids \in SUBSET (0 .. b)
    PROVE  NextIDByText(ids) \subseteq 1 .. b + 1
  BY DEF NextIDByText, LastTexts

-----------------------------------------------------------------------------
(***************************************************************************)
(* Fields.                                                                 *)
(***************************************************************************)
\* The types of the fields of a request.
LEMMA RequestFields ==
    ASSUME NEW req \in Requests
    PROVE  /\ req.op \in {"Join", "Update", "Leave", "Request"}
           /\ req.op = "Join" => req.interfaces \in BOOLEAN /\ req.neighbors \in BOOLEAN
           /\ req.op # "Join" => req.device \in Nat
           /\ req.op = "Update" =>
                req.services \in Seq([kind : Kinds, attributes : Nat])
  BY RequestsAssumption DEF JoinRequests, UpdateRequests, LeaveRequests, ServiceRequests

\* The types of the fields of a handler.
LEMMA HandlerFields ==
    ASSUME NEW h \in Handlers
    PROVE  /\ h.pc \in {"count", "services", "increment", "number", "alter", "commit", "refused"}
           /\ h # Idle
           /\ h.req \in Requests
           /\ h.nr \in 1 .. requests /\ h.id \in Nat
           /\ h.writes \in [Tables -> SUBSET AnyRow]
           /\ h.done \in Nat /\ h.number \in Nat /\ h.columns \in Nat /\ h.added \in Nat
           /\ h.seen \in SUBSET (1 .. requests)
  BY DEF Handlers, Idle, AnyRow

\* A process is active when its handler is a handler.
LEMMA ActiveHandlers ==
    ASSUME Shape, NEW p \in Threads
    PROVE  /\ p \in Active <=> cur[p] # Idle
           /\ p \in Active <=> cur[p] \in Handlers
           /\ p \in Active <=> cur[p].pc # "idle"
  BY HandlerFields DEF Active, Shape, Idle

\* The service an Update has come to.
LEMMA ServiceFields ==
    ASSUME NEW h \in Handlers, h.req.op = "Update", h.done < Len(h.req.services)
    PROVE  Service(h).kind \in Kinds /\ Service(h).attributes \in Nat
<1>1. h.req.services \in Seq([kind : Kinds, attributes : Nat]) /\ h.done \in Nat
  BY HandlerFields, RequestFields
<1>2. h.done + 1 \in 1 .. Len(h.req.services)
  BY <1>1, LenProperties
<1>3. Service(h) \in [kind : Kinds, attributes : Nat]
  BY <1>1, <1>2, ElementOfSeq DEF Service
<1>. QED
  BY <1>3

\* The IDs of a table do not exceed the number of requests.
LEMMA IDsAreSmall ==
    ASSUME TypeInv, NEW t \in {"Device", "Request"}
    PROVE  IDs(t) \subseteq 0 .. requests
<1>1. requests \in Nat
  BY BoundsAssumption DEF TypeInv, TypeOK
<1>2. \A r \in db.rows[t] : r.id \in Nat /\ r.nr \in 1 .. requests /\ r.id <= r.nr
  BY DEF TypeInv, TypeOK, SmallIDs, Rows, Tables
<1>. QED
  BY <1>1, <1>2 DEF IDs

-----------------------------------------------------------------------------
(***************************************************************************)
(* Types.                                                                  *)
(***************************************************************************)
\* The rows have their types, and their IDs are small.
RowsOK ==
    /\ db \in [rows : [Tables -> SUBSET AnyRow], columns : Nat]
    /\ \A t \in Tables : db.rows[t] \subseteq Rows(t)
    /\ \A t \in {"Device", "Request"} : \A r \in db.rows[t] : r.id <= r.nr
    /\ \A t \in {"Device", "Neighbor"} : \A r \in db.rows[t] : r.device = r.id

HistoryOK ==
    /\ granted \subseteq Grant
    /\ failed \cup altered \cup stranded \cup overlapped \subseteq 1 .. requests
    /\ runs \in [Processes -> Nat] /\ manageNum \in [Processes -> Nat]

BoundsOK == requests \in Nat /\ faults \in Nat /\ requests + faults <= MaxEvents

\* The handler of thread p is well-formed.
HandlerOK(p, h) ==
    /\ h \in Handlers /\ h.id <= h.nr
    /\ WritesOK(p, h) /\ Control(h)

DistinctNumbers ==
    \A p, q \in Active : p # q => cur[p].nr # cur[q].nr

\* TypeInv, by what a step changes.
TypeParts ==
    /\ RowsOK /\ HistoryOK /\ BoundsOK
    /\ cur \in [Threads -> Handlers \cup {Idle}]
    /\ \A p \in Active : HandlerOK(p, cur[p])
    /\ DistinctNumbers

\* TypeInv, taken apart by the variables it speaks of.
LEMMA TypeInvParts == TypeInv <=> TypeParts
<1>1. ASSUME TypeInv
      PROVE  TypeParts
  <2>. USE <1>1 DEF TypeInv
  <2>1. RowsOK
    BY DEF Shape, TypeOK, SmallIDs, RowsOK
  <2>2. HistoryOK
    BY DEF Shape, TypeOK, HistoryOK
  <2>3. \A p \in Active : HandlerOK(p, cur[p])
    BY ActiveHandlers DEF HandlerOK, SmallIDs, Active
  <2>4. DistinctNumbers
    BY DEF DistinctNumbers, Active, TypeOK
  <2>. QED
    BY <2>1, <2>2, <2>3, <2>4 DEF TypeParts, BoundsOK, TypeOK, Shape
<1>2. ASSUME TypeParts
      PROVE  TypeInv
  <2>. USE <1>2 DEF TypeParts
  <2>1. Shape
    BY DEF RowsOK, HistoryOK, Shape
  <2>2. {g.nr : g \in granted} \subseteq 1 .. requests
    BY DEF HistoryOK, Grant
  <2>3. TypeOK
    BY <2>2 DEF RowsOK, HistoryOK, BoundsOK, DistinctNumbers, Active, TypeOK
  <2>4. SmallIDs
    BY DEF SmallIDs, RowsOK, HandlerOK
  <2>. QED
    BY <2>1, <2>3, <2>4 DEF HandlerOK, TypeInv
<1>. QED
  BY <1>1, <1>2

\* The same of the next state.
LEMMA TypeInvPartsNext == (TypeInv <=> TypeParts)'
  BY TypeInvParts, PTL

\* What makes a handler well-formed stays while its process runs.
LEMMA HandlerStaysOK ==
    ASSUME NEW q \in Threads, requests' = requests, runs'[ProcessOf[q]] = runs[ProcessOf[q]],
           cur'[q] = cur[q], HandlerOK(q, cur[q])
    PROVE  HandlerOK(q, cur[q])'
<1>1. Handlers' = Handlers /\ Rows("Service")' = Rows("Service")
  BY DEF Handlers, Rows
<1>2. WritesOK(q, cur[q])'
  BY <1>1 DEF HandlerOK, WritesOK, OwnRow, Run
<1>3. Control(cur[q])'
  BY DEF HandlerOK, Control
<1>. QED
  BY <1>1, <1>2, <1>3 DEF HandlerOK

\* A step of one handler: it goes on with its request, as h, or ends.
LEMMA TypeFrame ==
    ASSUME TypeInv, NEW p \in Threads, NEW h \in Handlers \cup {Idle},
           cur' = [cur EXCEPT ![p] = h], requests' = requests, runs' = runs,
           RowsOK', HistoryOK', BoundsOK',
           h # Idle => p \in Active /\ h.nr = cur[p].nr /\ HandlerOK(p, h)
    PROVE  TypeInv'
<1>. USE TypeInvParts DEF TypeParts
<1>0. Handlers' = Handlers /\ Rows("Service")' = Rows("Service")
  BY DEF Handlers, Rows
<1>1. cur' \in [Threads -> Handlers \cup {Idle}]'
  BY <1>0 DEF Idle
<1>2. \A q \in Threads : cur'[q] = IF q = p THEN h ELSE cur[q]
  OBVIOUS
<1>3. \A q \in Active' : q = p \/ q \in Active
  BY <1>2 DEF Active
<1>4. ASSUME NEW q \in Active' PROVE HandlerOK(q, cur[q])'
  <2>1. cur'[q] # Idle
    BY DEF Active
  <2>2. CASE q = p
    BY <1>0, <1>2, <2>1, <2>2 DEF HandlerOK, WritesOK, Control, OwnRow, Run, Active
  <2>3. CASE q # p
    <3>1. q \in Active /\ cur'[q] = cur[q] /\ HandlerOK(q, cur[q])
      BY <1>2, <1>3, <2>3 DEF Active
    <3>. QED
      BY <3>1, HandlerStaysOK DEF Active
  <2>. QED
    BY <2>2, <2>3
<1>5. DistinctNumbers'
  <2>. SUFFICES ASSUME NEW q \in Active', NEW s \in Active', q # s
                PROVE  cur'[q].nr # cur'[s].nr
    BY DEF DistinctNumbers
  <2>1. cur'[q] # Idle /\ cur'[s] # Idle /\ q \in Threads /\ s \in Threads
    BY DEF Active
  <2>2. q \in Active /\ s \in Active /\ cur'[q].nr = cur[q].nr /\ cur'[s].nr = cur[s].nr
    BY <1>2, <1>3, <2>1
  <2>. QED
    BY <2>2 DEF DistinctNumbers
<1>. QED
  BY <1>1, <1>4, <1>5, TypeInvPartsNext

-----------------------------------------------------------------------------
(***************************************************************************)
(* What the actions do, as far as the invariant tells them apart.          *)
(***************************************************************************)
OthersStay(p) == \A q \in Threads \ {p} : cur'[q] = cur[q]

\* The handler of p goes on with its request.
Continues(p) ==
    /\ p \in Active /\ p \in Active' /\ OthersStay(p)
    /\ cur'[p].req = cur[p].req /\ cur'[p].nr = cur[p].nr
    /\ cur'[p].id = cur[p].id /\ cur'[p].seen = cur[p].seen
    /\ UNCHANGED <<runs, requests, granted, failed, stranded, overlapped>>

\* Its transaction, which held the services old, gets one more.
WritesService(p, old) ==
    /\ cur'[p].pc \in {"services", "commit"}
    /\ cur'[p].done = cur[p].done + 1
    /\ \E r \in Rows("Service") :
         /\ cur'[p].writes["Service"] = old \cup {r}
         /\ r.nr = cur[p].nr /\ r.place = cur[p].done + 1 /\ r.by = Run(p)
         /\ r.id = cur'[p].number
         /\ r.attributes <= cur[p].columns \/ r.attributes <= db'.columns

\* Handle: a request reaches an idle thread.
Begins(p) ==
    /\ cur[p] = Idle /\ p \in Active' /\ OthersStay(p)
    /\ requests' = requests + 1 /\ cur'[p].nr = requests + 1
    /\ cur'[p].seen \subseteq {g.nr : g \in granted}
    /\ cur'[p].done = 0 /\ cur'[p].columns = 0
    /\ cur'[p].pc \in {"count", "commit", "refused"} /\ cur'[p].writes["Service"] = {}
    /\ cur'[p].req.op = "Join" => \A r \in db.rows["Device"] : r.id < cur'[p].id
    /\ cur'[p].req.op = "Request" /\ Per(p) =>
         \A r \in db.rows["Request"] : r.id < cur'[p].id
    /\ cur'[p].req.op = "Update" /\ cur'[p].pc # "refused" =>
         \E d \in db.rows["Device"] : d.device = cur'[p].req.device
    /\ overlapped' = overlapped \cup Overlaps(p, cur'[p].req)
    /\ UNCHANGED <<db, manageNum, history>>

\* What CountColumns, ReadManageNum, and GenServiceID when it raises, make of
\* the count of services: nothing; but a thread may read it.
KeepsCount(p) ==
    /\ manageNum' = manageNum
    /\ cur'[p].pc \notin {"number", "alter"}
    /\ cur'[p].pc = "increment" => cur'[p].number = Counter(p)

\* WriteManageNum: it becomes one more than what the thread read.
Counts(p) ==
    /\ cur[p].pc = "increment" /\ cur'[p].pc = "number"
    /\ manageNum' = [manageNum EXCEPT ![ProcessOf[p]] = cur[p].number + 1]

\* All of these leave the transaction as it is.
Passes(p) ==
    /\ Continues(p) /\ UNCHANGED <<db, altered>>
    /\ cur'[p].writes = cur[p].writes /\ cur'[p].done = cur[p].done
    /\ cur'[p].columns \in {cur[p].columns, db.columns}
    /\ cur[p].pc \notin {"alter", "refused"}
    /\ KeepsCount(p) \/ Counts(p)

\* GenServiceID: a service is numbered, and stored or in need of columns.
Numbered(p) ==
    /\ Continues(p) /\ UNCHANGED <<db, altered, manageNum>>
    /\ cur[p].pc = "number" /\ cur'[p].columns = cur[p].columns
    /\ cur'[p].number \in {0, Counter(p)}
    /\ \/ WritesService(p, cur[p].writes["Service"])
       \/ /\ cur'[p].pc = "alter" /\ cur'[p].done = cur[p].done
          /\ cur'[p].writes = cur[p].writes

\* AlterService: what was written is committed, whatever becomes of the rest.
Alters(p) ==
    /\ Continues(p) /\ manageNum' = manageNum
    /\ cur[p].pc = "alter" /\ cur'[p].columns = cur[p].columns
    /\ cur'[p].number = cur[p].number
    /\ altered' = altered \cup {cur[p].nr}
    /\ db'.rows = Committed(cur[p]) /\ db'.columns >= db.columns
    /\ \/ WritesService(p, {})
       \/ /\ cur'[p].pc \in {"alter", "refused"} /\ cur'[p].done = cur[p].done
          /\ cur'[p].writes["Service"] = {}

\* Commit, CommitUnconfirmed: the transaction takes effect; who leaves loses
\* what was granted, others are granted it unless they do not hear of it.
Commits(p) ==
    /\ cur[p].pc = "commit" /\ p \in Active
    /\ OthersStay(p) /\ cur'[p] = Idle
    /\ db'.rows = Written(p, cur[p]) /\ db'.columns = db.columns
    /\ granted' \in IF cur[p].req.op = "Leave" THEN {Grants(p, cur[p])}
                    ELSE {granted, Grants(p, cur[p])}
    /\ stranded' = stranded \cup Strands(p, cur[p])
    /\ UNCHANGED <<manageNum, failed, altered, runs, overlapped, requests>>

\* Refuse, DatabaseError: the transaction is gone.
Drops(p) ==
    /\ p \in Active /\ OthersStay(p) /\ cur'[p] = Idle
    /\ failed' = failed \cup {cur[p].nr}
    /\ UNCHANGED <<db, manageNum, granted, altered, stranded, runs, overlapped, requests>>

\* Restart: so are those of all the handlers of a process.
Restarts(process) ==
    /\ \A q \in Threads : cur'[q] = IF ProcessOf[q] = process THEN Idle ELSE cur[q]
    /\ runs' = [runs EXCEPT ![process] = @ + 1]
    /\ manageNum' = [manageNum EXCEPT ![process] = 0]
    /\ failed' = failed \cup {cur[q].nr : q \in {q \in Active : ProcessOf[q] = process}}
    /\ UNCHANGED <<db, granted, altered, stranded, overlapped, requests>>

\* What a handler's step does to cur.
LEMMA CurStep ==
    ASSUME Shape, NEW p \in Threads, NEW h, cur' = [cur EXCEPT ![p] = h]
    PROVE  /\ cur'[p] = h /\ OthersStay(p)
           /\ p \in Active' <=> h # Idle
  BY DEF Shape, OthersStay, Active

\* The types of older requests are types of more requests.
LEMMA TypesGrow ==
    ASSUME requests \in Nat, requests' = requests + 1
    PROVE  /\ Handlers \subseteq Handlers' /\ Grant \subseteq Grant'
           /\ AnyRow \subseteq AnyRow' /\ \A t \in Tables : Rows(t) \subseteq Rows(t)'
           /\ 1 .. requests \subseteq (1 .. requests)'
<1>1. 1 .. requests \subseteq 1 .. requests'
  OBVIOUS
<1>2. \A t : Rows(t) \subseteq Rows(t)'
  BY <1>1 DEF Rows
<1>3. AnyRow \subseteq AnyRow'
  BY <1>2 DEF AnyRow
<1>4. Grant \subseteq Grant'
  BY <1>1 DEF Grant
<1>5. Handlers \subseteq Handlers'
  <2>1. [Tables -> SUBSET (Rows("Device") \cup Rows("Service"))]
          \subseteq [Tables -> SUBSET (Rows("Device") \cup Rows("Service"))']
    BY <1>2
  <2>. QED
    BY <1>1, <2>1 DEF Handlers
<1>. QED
  BY <1>1, <1>2, <1>3, <1>4, <1>5

\* A handler that is not affected stays well-formed when a request arrives.
LEMMA HandlerStillOK ==
    ASSUME requests \in Nat, requests' = requests + 1, runs' = runs,
           NEW q \in Threads, cur'[q] = cur[q], HandlerOK(q, cur[q])
    PROVE  HandlerOK(q, cur[q])'
<1>1. Handlers \subseteq Handlers' /\ Rows("Service") \subseteq Rows("Service")'
  BY TypesGrow DEF Tables
<1>2. WritesOK(q, cur[q])'
  BY <1>1 DEF HandlerOK, WritesOK, OwnRow, Run
<1>3. Control(cur[q])'
  BY DEF HandlerOK, Control
<1>. QED
  BY <1>1, <1>2, <1>3 DEF HandlerOK

\* What a handler that begins with req has seen granted.
Seen(req) == {g.nr : g \in {g \in granted : g.op = req.op}}

\* The handler h that a request starts with: what it will write is there.
NewHandler(req, h) ==
    /\ h = [pc |-> h.pc, req |-> req, nr |-> requests + 1, id |-> h.id,
            writes |-> h.writes, done |-> 0, number |-> 0, columns |-> 0, added |-> 0,
            seen |-> Seen(req)]
    /\ h.pc \in {"count", "commit", "refused"} /\ (h.pc = "count" => req.op = "Update")
    /\ h.id \in 0 .. requests + 1
    /\ h.writes \in [Tables -> SUBSET {OwnRow(h)}]
    /\ h.writes["Device"] =
         IF req.op = "Join" /\ req.interfaces THEN {OwnRow(h)} ELSE {}
    /\ h.writes["Neighbor"] # {} => req.op = "Join"
    /\ h.writes["Request"] = IF req.op = "Request" THEN {OwnRow(h)} ELSE {}
    /\ h.writes["Service"] = {}

\* A request reaches a process: its new handler is well-formed.
LEMMA BeginStep ==
    ASSUME TypeInv, NEW p \in Threads, NEW req \in Requests,
           cur[p] = Idle, requests + faults < MaxEvents, requests' = requests + 1,
           overlapped' = overlapped \cup Overlaps(p, req),
           UNCHANGED <<db, manageNum, history, faults>>,
           NEW h, cur' = [cur EXCEPT ![p] = h], NewHandler(req, h)
    PROVE  /\ TypeInv'
           /\ p \in Active' /\ OthersStay(p) /\ cur'[p] = h
<1>. USE TypeInvParts DEF TypeParts
<1>1. /\ requests \in Nat /\ BoundsOK'
      /\ requests' \in Nat /\ requests + 1 \in 1 .. requests' /\ Shape
  BY BoundsAssumption DEF TypeInv, BoundsOK
<1>2. h \in [pc : {h.pc}, req : {req}, nr : {requests + 1}, id : {h.id},
              writes : {h.writes}, done : {0}, number : {0}, columns : {0},
              added : {0}, seen : {Seen(req)}]
  BY DEF NewHandler
<1>3. Seen(req) \subseteq 1 .. requests'
  BY <1>1 DEF HistoryOK, Grant, Seen
<1>4. h \in Handlers' /\ h # Idle
  <2>1. OwnRow(h) \in Rows("Device")' \/ h.writes = [t \in Tables |-> {}]
    <3>1. req.op # "Join" => req.device \in Nat
      BY RequestFields
    <3>. QED
      BY <1>1, <3>1 DEF Rows, OwnRow, NewHandler
  <2>2. h.writes \in [Tables -> SUBSET (Rows("Device") \cup Rows("Service"))']
    BY <2>1 DEF NewHandler
  <2>. QED
    BY <1>1, <1>2, <1>3, <2>2 DEF Handlers, Idle, NewHandler
<1>5. cur'[p] = h /\ OthersStay(p) /\ p \in Active'
  BY <1>1, <1>4, CurStep
<1>6. HandlerOK(p, cur[p])'
  <2>1. WritesOK(p, cur[p])'
    BY <1>5 DEF WritesOK, NewHandler, OwnRow, Tables
  <2>2. Control(cur[p])'
    <3>1. req.op = "Update" => Len(req.services) \in Nat
      BY RequestFields, LenProperties
    <3>. QED
      BY <1>5, <3>1 DEF Control, NewHandler
  <2>3. cur'[p].id <= cur'[p].nr
    BY <1>1, <1>5 DEF NewHandler
  <2>. QED
    BY <1>4, <1>5, <2>1, <2>2, <2>3 DEF HandlerOK
<1>7. \A q \in Active' : q = p \/ (q \in Active /\ cur'[q] = cur[q])
  BY <1>5 DEF OthersStay, Active
<1>8. \A q \in Active' : HandlerOK(q, cur[q])'
  BY <1>1, <1>6, <1>7, HandlerStillOK DEF Active, history
<1>9. DistinctNumbers'
  <2>1. \A q \in Active : cur[q].nr # requests + 1
    BY <1>1, HandlerFields DEF HandlerOK
  <2>. QED
    BY <1>5, <1>7, <2>1 DEF DistinctNumbers, NewHandler
<1>10. RowsOK' /\ HistoryOK'
  <2>1. Overlaps(p, req) \subseteq 1 .. requests'
    <3>1. \A q \in Threads : cur[q] # Idle => cur[q].nr \in 1 .. requests'
      BY <1>1, HandlerFields
    <3>. QED
      BY <1>1, <3>1 DEF Overlaps
  <2>. QED
    BY <1>1, <2>1, TypesGrow DEF RowsOK, HistoryOK, history
<1>11. cur' \in [Threads -> Handlers \cup {Idle}]'
  BY <1>1, <1>4, TypesGrow
<1>12. TypeInv'
  BY <1>1, <1>8, <1>9, <1>10, <1>11, TypeInvPartsNext
<1>. QED
  BY <1>5, <1>12

\* Handle, whatever the request asks for.
LEMMA HandleStep ==
    ASSUME TypeInv, NEW p \in Threads, NEW req \in Requests, Handle(p, req)
    PROVE  TypeInv' /\ Begins(p)
<1>1. /\ TypeInv /\ TypeParts /\ cur[p] = Idle /\ requests + faults < MaxEvents
      /\ overlapped' = overlapped \cup Overlaps(p, req)
      /\ requests' = requests + 1 /\ UNCHANGED <<db, manageNum, history, faults>>
  BY TypeInvParts DEF Handle
<1>2. requests \in Nat /\ 0 \in 0 .. requests + 1 /\ Seen(req) \subseteq {g.nr : g \in granted}
  BY <1>1 DEF TypeParts, BoundsOK, Seen
<1>3. \A t \in {"Device", "Request"} :
        /\ NextID(IDs(t)) \in 0 .. requests + 1
        /\ \A r \in db.rows[t] : r.id < NextID(IDs(t))
  <2>. SUFFICES ASSUME NEW t \in {"Device", "Request"}
                PROVE  /\ NextID(IDs(t)) \in 0 .. requests + 1
                       /\ \A r \in db.rows[t] : r.id < NextID(IDs(t))
    OBVIOUS
  <2>1. IDs(t) \in SUBSET Nat /\ \A i \in IDs(t) : i <= requests
    BY <1>2, IDsAreSmall
  <2>2. NextID(IDs(t)) \in 1 .. requests + 1 /\ \A i \in IDs(t) : i < NextID(IDs(t))
    BY <1>2, <2>1, NextIDIsGreater
  <2>. QED
    BY <2>2 DEF IDs
<1>4. CASE Join(p, req)
  <2>. DEFINE id  == NextID(IDs("Device"))
              row == Row(id, id)
              pc  == IF req.ok THEN "commit" ELSE "refused"
              rows(some) == IF some THEN {row} ELSE {}
              writes == [Nothing EXCEPT
                 !.Device   = rows(req.interfaces),
                 !.Neighbor = rows(req.neighbors /\ Per(p))]
              h == [pc |-> pc, req |-> req, nr |-> requests + 1, id |-> id,
                    writes |-> writes, done |-> 0, number |-> 0, columns |-> 0,
                    added |-> 0, seen |-> Seen(req)]
  <2>1. req.op = "Join" /\ cur' = [cur EXCEPT ![p] = h]
    BY <1>4 DEF Join, Begin, Seen
  <2>2. row = OwnRow(h)
    BY <2>1 DEF Row, OwnRow
  <2>3. /\ writes \in [Tables -> SUBSET {row}]
        /\ writes["Device"] = IF req.op = "Join" /\ req.interfaces THEN {row} ELSE {}
        /\ writes["Request"] = {} /\ writes["Service"] = {}
    BY <2>1 DEF Nothing, Tables
  <2>4. id \in 0 .. requests + 1 /\ \A r \in db.rows["Device"] : r.id < id
    BY <1>3
  <2>5. pc \in {"count", "commit", "refused"} /\ pc # "count"
    OBVIOUS
  <2>. HIDE DEF id, row, pc, writes
  <2>6. NewHandler(req, h)
    BY <2>1, <2>2, <2>3, <2>4, <2>5 DEF NewHandler
  <2>7. TypeInv' /\ p \in Active' /\ OthersStay(p) /\ cur'[p] = h
    <3>. HIDE DEF h
    <3>. QED
      BY <1>1, <2>1, <2>6, BeginStep
  <2>. QED
    BY <1>1, <1>2, <2>1, <2>3, <2>4, <2>5, <2>7 DEF Begins, history
<1>5. CASE Update(p, req)
  <2>. DEFINE known == \E r \in db.rows["Device"] : r.device = req.device
              pc  == IF req.ok /\ known THEN "count" ELSE "refused"
              h == [pc |-> pc, req |-> req, nr |-> requests + 1, id |-> 0,
                    writes |-> Nothing, done |-> 0, number |-> 0, columns |-> 0,
                    added |-> 0, seen |-> Seen(req)]
  <2>1. req.op = "Update" /\ cur' = [cur EXCEPT ![p] = h]
    BY <1>5 DEF Update, Begin, Seen
  <2>2. pc \in {"count", "commit", "refused"} /\ (pc # "refused" => known)
    OBVIOUS
  <2>. HIDE DEF pc
  <2>3. NewHandler(req, h)
    BY <1>2, <2>1, <2>2 DEF NewHandler, Nothing, Tables
  <2>4. TypeInv' /\ p \in Active' /\ OthersStay(p) /\ cur'[p] = h
    <3>. HIDE DEF h
    <3>. QED
      BY <1>1, <2>1, <2>3, BeginStep
  <2>. QED
    BY <1>1, <1>2, <2>1, <2>2, <2>4 DEF Begins, Nothing, Tables, history
<1>6. CASE Leave(p, req)
  <2>. DEFINE pc  == IF req.ok THEN "commit" ELSE "refused"
              h == [pc |-> pc, req |-> req, nr |-> requests + 1, id |-> 0,
                    writes |-> Nothing, done |-> 0, number |-> 0, columns |-> 0,
                    added |-> 0, seen |-> Seen(req)]
  <2>1. req.op = "Leave" /\ cur' = [cur EXCEPT ![p] = h]
    BY <1>6 DEF Leave, Begin, Seen
  <2>2. pc \in {"count", "commit", "refused"} /\ pc # "count"
    OBVIOUS
  <2>. HIDE DEF pc
  <2>3. NewHandler(req, h)
    BY <1>2, <2>1, <2>2 DEF NewHandler, Nothing, Tables
  <2>4. TypeInv' /\ p \in Active' /\ OthersStay(p) /\ cur'[p] = h
    <3>. HIDE DEF h
    <3>. QED
      BY <1>1, <2>1, <2>3, BeginStep
  <2>. QED
    BY <1>1, <1>2, <2>1, <2>2, <2>4 DEF Begins, Nothing, Tables, history
<1>7. CASE Request(p, req)
  <2>. DEFINE pc == IF req.ok /\ db.rows["Service"] # {} THEN "commit" ELSE "refused"
  <2>0. PICK id \in NextRequestID(p) :
         Begin(p, req, pc, id, [Nothing EXCEPT !.Request = {Row(id, req.device)}])
    BY <1>7 DEF Request
  <2>. DEFINE row == Row(id, req.device)
              writes == [Nothing EXCEPT !.Request = {row}]
              h == [pc |-> pc, req |-> req, nr |-> requests + 1, id |-> id,
                    writes |-> writes, done |-> 0, number |-> 0, columns |-> 0,
                    added |-> 0, seen |-> Seen(req)]
  <2>1. req.op = "Request" /\ cur' = [cur EXCEPT ![p] = h]
    BY <1>7, <2>0 DEF Request, Begin, Seen
  <2>2. row = OwnRow(h)
    BY <2>1 DEF Row, OwnRow
  <2>3. /\ writes \in [Tables -> SUBSET {row}]
        /\ writes["Device"] = {} /\ writes["Neighbor"] = {}
        /\ writes["Request"] = {row} /\ writes["Service"] = {}
    BY DEF Nothing, Tables
  <2>4. /\ id \in 0 .. requests + 1
        /\ Per(p) => \A r \in db.rows["Request"] : r.id < id
    <3>1. CASE Per(p)
      BY <1>3, <3>1 DEF NextRequestID
    <3>2. CASE ~Per(p)
      <4>1. NextIDByText(IDs("Request")) \subseteq 1 .. requests + 1
        <5>1. IDs("Request") \in SUBSET (0 .. requests)
          BY <1>1, IDsAreSmall
        <5>. QED
          BY <1>2, <5>1, NextIDByTextIsSmall
      <4>. QED
        BY <1>2, <3>2, <4>1 DEF NextRequestID
    <3>. QED
      BY <3>1, <3>2
  <2>5. pc \in {"count", "commit", "refused"} /\ pc # "count"
    OBVIOUS
  <2>. HIDE DEF row, pc, writes
  <2>6. NewHandler(req, h)
    BY <2>1, <2>2, <2>3, <2>4, <2>5 DEF NewHandler
  <2>7. TypeInv' /\ p \in Active' /\ OthersStay(p) /\ cur'[p] = h
    <3>. HIDE DEF h
    <3>. QED
      BY <1>1, <2>1, <2>6, BeginStep
  <2>. QED
    BY <1>1, <1>2, <2>1, <2>3, <2>4, <2>5, <2>7 DEF Begins, history
<1>. QED
  BY <1>4, <1>5, <1>6, <1>7 DEF Handle

\* The handler of p goes on as h.
LEMMA ContinueStep ==
    ASSUME TypeInv, NEW p \in Active, NEW h \in Handlers, cur' = [cur EXCEPT ![p] = h],
           h.req = cur[p].req, h.nr = cur[p].nr, h.id = cur[p].id, h.seen = cur[p].seen,
           WritesOK(p, h), Control(h),
           RowsOK', altered' \subseteq 1 .. requests,
           manageNum' \in [Processes -> Nat],
           UNCHANGED <<granted, failed, stranded, runs, overlapped, requests, faults>>
    PROVE  TypeInv' /\ Continues(p) /\ cur'[p] = h
<1>1. p \in Threads /\ h # Idle /\ TypeParts /\ Shape
  BY HandlerFields, TypeInvParts DEF Active, TypeInv
<1>2. cur'[p] = h /\ OthersStay(p) /\ p \in Active'
  BY <1>1, CurStep
<1>3. HandlerOK(p, h)
  BY <1>1 DEF HandlerOK, TypeParts
<1>4. HistoryOK' /\ BoundsOK'
  BY <1>1 DEF HistoryOK, BoundsOK, Grant, TypeParts
<1>5. TypeInv'
  BY <1>1, <1>3, <1>4, TypeFrame
<1>. QED
  BY <1>2, <1>5 DEF Continues

\* What TypeInv says of the handler of p.
LEMMA ActiveHandlerOK ==
    ASSUME TypeInv, NEW p \in Active
    PROVE  /\ p \in Threads /\ HandlerOK(p, cur[p]) /\ cur[p] \in Handlers
           /\ TypeParts /\ Shape /\ RowsOK /\ BoundsOK
           /\ altered \subseteq 1 .. requests /\ manageNum \in [Processes -> Nat]
           /\ Counter(p) \in Nat
  BY ProcessesAssumption, TypeInvParts
  DEF TypeParts, HandlerOK, HistoryOK, Active, TypeInv, Counter

\* Rows that stay, stay well-formed.
LEMMA RowsOKStay == ASSUME RowsOK, db' = db, requests' = requests PROVE RowsOK'
<1>1. AnyRow' = AnyRow /\ \A t : Rows(t)' = Rows(t)
  BY DEF AnyRow, Rows
<1>. QED
  BY <1>1 DEF RowsOK

\* Who has a position other than "idle" is active.
LEMMA BusyIsActive ==
    ASSUME TypeInv, NEW p \in Threads, cur[p].pc # "idle"
    PROVE  p \in Active
  BY DEF Idle, Active

\* CountColumns goes on to the services, or to the commit if there is none.
LEMMA CountColumnsStep ==
    ASSUME TypeInv, NEW p \in Threads, CountColumns(p)
    PROVE  TypeInv' /\ Passes(p)
<1>. DEFINE h == [cur[p] EXCEPT !.pc = Continued(cur[p], 0), !.columns = db.columns]
<1>1. p \in Active
  BY BusyIsActive DEF CountColumns
<1>2. HandlerOK(p, cur[p]) /\ cur[p] \in Handlers /\ db.columns \in Nat /\ Counter(p) \in Nat
  BY <1>1, ActiveHandlerOK DEF RowsOK
<1>3. h \in Handlers
  BY <1>2 DEF Handlers, Continued
<1>4. cur' = [cur EXCEPT ![p] = h]
  BY <1>2 DEF CountColumns
<1>5. WritesOK(p, h) /\ Control(h)
  <2>1. WritesOK(p, h)
    BY <1>2 DEF HandlerOK, WritesOK, OwnRow, Handlers
  <2>2. h.done = 0 /\ h.req = cur[p].req /\ h.req.op = "Update" /\ h.pc = Continued(cur[p], 0)
    BY <1>2 DEF CountColumns, HandlerOK, Control, Handlers
  <2>. QED
    BY <2>1, <2>2 DEF Control, Continued
<1>6. /\ h.req = cur[p].req /\ h.nr = cur[p].nr /\ h.id = cur[p].id
      /\ h.seen = cur[p].seen /\ h.writes = cur[p].writes /\ h.done = cur[p].done
      /\ h.pc \in {"services", "commit"} /\ h.columns = db.columns
  BY <1>2 DEF Handlers, Continued
<1>7. RowsOK'
  BY <1>1, ActiveHandlerOK, RowsOKStay DEF CountColumns
<1>8. TypeInv' /\ Continues(p) /\ cur'[p] = h
  <2>. HIDE DEF h
  <2>. QED
    BY <1>1, <1>3, <1>4, <1>5, <1>6, <1>7, ActiveHandlerOK, ContinueStep
    DEF CountColumns, history
<1>. QED
  BY <1>6, <1>8 DEF CountColumns, Passes, KeepsCount, history

\* ReadManageNum remembers the count.
LEMMA ReadManageNumStep ==
    ASSUME TypeInv, NEW p \in Threads, ReadManageNum(p)
    PROVE  TypeInv' /\ Passes(p)
<1>. DEFINE h == [cur[p] EXCEPT !.pc = "increment", !.number = Counter(p)]
<1>1. p \in Active
  BY BusyIsActive DEF ReadManageNum
<1>2. HandlerOK(p, cur[p]) /\ cur[p] \in Handlers /\ db.columns \in Nat /\ Counter(p) \in Nat
  BY <1>1, ActiveHandlerOK DEF RowsOK
<1>3. h \in Handlers
  BY <1>2 DEF Handlers, Continued
<1>4. cur' = [cur EXCEPT ![p] = h]
  BY <1>2 DEF ReadManageNum
<1>5. WritesOK(p, h) /\ Control(h)
  BY <1>2 DEF ReadManageNum, HandlerOK, WritesOK, OwnRow, Control, Handlers
<1>6. /\ h.req = cur[p].req /\ h.nr = cur[p].nr /\ h.id = cur[p].id
      /\ h.seen = cur[p].seen /\ h.writes = cur[p].writes /\ h.done = cur[p].done
      /\ h.pc = "increment" /\ h.columns = cur[p].columns /\ h.number = Counter(p)
  BY <1>2 DEF Handlers, Continued
<1>7. RowsOK'
  BY <1>1, ActiveHandlerOK, RowsOKStay DEF ReadManageNum
<1>8. TypeInv' /\ Continues(p) /\ cur'[p] = h
  <2>. HIDE DEF h
  <2>. QED
    BY <1>1, <1>3, <1>4, <1>5, <1>6, <1>7, ActiveHandlerOK, ContinueStep
    DEF ReadManageNum, history
<1>. QED
  BY <1>6, <1>8 DEF ReadManageNum, Passes, KeepsCount, history

\* WriteManageNum sets it to the next.
LEMMA WriteManageNumStep ==
    ASSUME TypeInv, NEW p \in Threads, WriteManageNum(p)
    PROVE  TypeInv' /\ Passes(p)
<1>. DEFINE h == [cur[p] EXCEPT !.pc = "number"]
<1>1. p \in Active
  BY BusyIsActive DEF WriteManageNum
<1>2. HandlerOK(p, cur[p]) /\ cur[p] \in Handlers /\ db.columns \in Nat /\ Counter(p) \in Nat
  BY <1>1, ActiveHandlerOK DEF RowsOK
<1>3. h \in Handlers
  BY <1>2 DEF Handlers, Continued
<1>4. cur' = [cur EXCEPT ![p] = h]
  BY <1>2 DEF WriteManageNum
<1>5. WritesOK(p, h) /\ Control(h)
  BY <1>2 DEF WriteManageNum, HandlerOK, WritesOK, OwnRow, Control, Handlers
<1>6. /\ h.req = cur[p].req /\ h.nr = cur[p].nr /\ h.id = cur[p].id
      /\ h.seen = cur[p].seen /\ h.writes = cur[p].writes /\ h.done = cur[p].done
      /\ h.pc = "number" /\ h.columns = cur[p].columns
  BY <1>2 DEF Handlers, Continued
<1>7. RowsOK'
  BY <1>1, ActiveHandlerOK, RowsOKStay DEF WriteManageNum
<1>9. manageNum' \in [Processes -> Nat]
  <2>1. cur[p].number + 1 \in Nat
    BY <1>2, HandlerFields
  <2>. QED
    BY <1>1, <2>1, ActiveHandlerOK DEF WriteManageNum
<1>8. TypeInv' /\ Continues(p) /\ cur'[p] = h
  <2>. HIDE DEF h
  <2>. QED
    BY <1>1, <1>3, <1>4, <1>5, <1>6, <1>7, <1>9, ActiveHandlerOK, ContinueStep
    DEF WriteManageNum, history
<1>. QED
  BY <1>6, <1>8 DEF WriteManageNum, Passes, Counts, history

\* A service is stored in the transaction of h, or raises when it is printed.
LEMMA WithServiceStep ==
    ASSUME TypeInv, NEW p \in Threads, NEW h \in Handlers, WritesOK(p, h),
           h.req.op = "Update", h.done < Len(h.req.services)
    PROVE  /\ WithService(p, h) \in Handlers
           /\ WritesOK(p, WithService(p, h)) /\ Control(WithService(p, h))
           /\ WithService(p, h).req = h.req /\ WithService(p, h).nr = h.nr
           /\ WithService(p, h).id = h.id /\ WithService(p, h).seen = h.seen
           /\ WithService(p, h).columns = h.columns /\ WithService(p, h).number = h.number
           /\ \/ /\ WithService(p, h).pc = "refused"
                 /\ WithService(p, h).writes = h.writes /\ WithService(p, h).done = h.done
              \/ /\ WithService(p, h).pc \in {"services", "commit"}
                 /\ WithService(p, h).done = h.done + 1
                 /\ \E r \in Rows("Service") :
                      /\ WithService(p, h).writes["Service"] = h.writes["Service"] \cup {r}
                      /\ r.nr = h.nr /\ r.place = h.done + 1 /\ r.by = Run(p)
                      /\ r.id = h.number /\ r.attributes = Service(h).attributes
<1>1. CASE TypeError(p, Service(h).kind)
  <2>1. WithService(p, h) = [h EXCEPT !.pc = "refused"]
    BY <1>1 DEF WithService
  <2>. QED
    BY <2>1 DEF Handlers, WritesOK, Control, OwnRow
<1>2. CASE ~TypeError(p, Service(h).kind)
  <2>. DEFINE row == [id |-> h.number, device |-> h.req.device, nr |-> h.nr,
                      attributes |-> Service(h).attributes, place |-> h.done + 1,
                      by |-> Run(p)]
              writes == [h.writes EXCEPT !["Service"] = @ \cup {row}]
              k == [h EXCEPT !.pc = Continued(h, h.done + 1), !.done = @ + 1, !.writes = writes]
  <2>1. WithService(p, h) = k
    BY <1>2 DEF WithService
  <2>2. row \in Rows("Service")
    <3>1. h.number \in Nat /\ h.nr \in 1 .. requests /\ h.done + 1 \in Nat
      BY DEF Handlers
    <3>2. h.req.device \in Nat /\ Service(h).attributes \in Nat
      BY ServiceFields, HandlerFields, RequestFields
    <3>3. Run(p) \in Processes \X Nat
      BY ProcessesAssumption DEF TypeInv, Shape, Run
    <3>. HIDE DEF row
    <3>4. row = [id |-> h.number, device |-> h.req.device, nr |-> h.nr,
                 attributes |-> Service(h).attributes, place |-> h.done + 1,
                 by |-> Run(p)]
      BY DEF row
    <3>. QED
      BY <3>1, <3>2, <3>3, <3>4 DEF Rows
  <2>3. row.nr = h.nr /\ row.device = h.req.device /\ row.by = Run(p)
        /\ row.place = h.done + 1 /\ row.id = h.number
        /\ row.attributes = Service(h).attributes
    OBVIOUS
  <2>. HIDE DEF row
  <2>4. /\ writes \in [Tables -> SUBSET (Rows("Device") \cup Rows("Service"))]
        /\ writes["Service"] = h.writes["Service"] \cup {row}
        /\ \A t \in Tables \ {"Service"} : writes[t] = h.writes[t]
    BY <2>2 DEF Handlers, Tables
  <2>. HIDE DEF writes
  <2>5. k \in Handlers
    <3>1. h.done + 1 \in Nat
      BY DEF Handlers
    <3>. QED
      BY <2>4, <3>1 DEF Handlers, Continued
  <2>6. /\ k.req = h.req /\ k.nr = h.nr /\ k.id = h.id /\ k.seen = h.seen
        /\ k.columns = h.columns /\ k.number = h.number /\ k.writes = writes
        /\ k.pc = Continued(h, h.done + 1) /\ k.done = h.done + 1
    BY DEF Handlers
  <2>. HIDE DEF k
  <2>7. WritesOK(p, k)
    BY <2>2, <2>3, <2>4, <2>6 DEF WritesOK, OwnRow, Tables
  <2>8. Control(k)
    <3>1. h.done \in Nat /\ Len(h.req.services) \in Nat
      BY HandlerFields, RequestFields, LenProperties
    <3>. QED
      BY <2>6, <3>1 DEF Control, Continued
  <2>9. k.pc \in {"services", "commit"}
    BY <2>6 DEF Continued
  <2>. QED
    BY <2>1, <2>2, <2>3, <2>4, <2>5, <2>6, <2>7, <2>8, <2>9
<1>. QED
  BY <1>1, <1>2

\* GenServiceID numbers a service, or raises.
LEMMA GenServiceIDStep ==
    ASSUME TypeInv, NEW p \in Threads, GenServiceID(p)
    PROVE  TypeInv' /\ (Passes(p) \/ Numbered(p))
<1>. DEFINE h == cur[p]
            kind == Service(h).kind
            next == [h EXCEPT !.number = serviceID(p, kind)]
<1>1. p \in Active /\ h.pc = "number"
  BY BusyIsActive DEF GenServiceID
<1>2. /\ HandlerOK(p, h) /\ h \in Handlers /\ db.columns \in Nat
      /\ manageNum \in [Processes -> Nat] /\ altered \subseteq 1 .. requests
      /\ Counter(p) \in Nat /\ RowsOK
  BY <1>1, ActiveHandlerOK DEF RowsOK
<1>3. UNCHANGED <<db, manageNum, history, overlapped, requests, faults>>
  BY DEF GenServiceID
<1>4. manageNum' \in [Processes -> Nat]
  BY <1>2, <1>3
<1>5. h.req.op = "Update" /\ WritesOK(p, h) /\ Control(h) /\ h.done < Len(h.req.services)
  BY <1>1, <1>2 DEF HandlerOK, Control
<1>6. serviceID(p, kind) \in {0, Counter(p)} /\ serviceID(p, kind) \in Nat
  BY <1>2 DEF serviceID
<1>7. /\ next \in Handlers /\ next.req = h.req /\ next.nr = h.nr /\ next.id = h.id
      /\ next.seen = h.seen /\ next.columns = h.columns /\ next.writes = h.writes
      /\ next.done = h.done /\ next.number = serviceID(p, kind)
      /\ Service(next) = Service(h)
  BY <1>2, <1>6 DEF Handlers, Service
<1>8. WritesOK(p, next)
  <2>. HIDE DEF next, h
  <2>. QED
    BY <1>5, <1>7 DEF WritesOK, OwnRow
<1>9. RowsOK'
  BY <1>2, <1>3, RowsOKStay
<1>10. ASSUME NEW k \in Handlers, cur' = [cur EXCEPT ![p] = k],
              k.req = h.req, k.nr = h.nr, k.id = h.id, k.seen = h.seen,
              WritesOK(p, k), Control(k)
       PROVE  TypeInv' /\ Continues(p) /\ cur'[p] = k
  <2>. HIDE DEF h
  <2>1. UNCHANGED <<granted, failed, altered, stranded, runs, overlapped, requests, faults>>
    BY <1>3 DEF history
  <2>. QED
    BY <1>1, <1>2, <1>4, <1>9, <1>10, <2>1, ContinueStep DEF h
<1>11. CASE NameError(p, kind) /\ cur' = [cur EXCEPT ![p].pc = "refused"]
  <2>. DEFINE k == [h EXCEPT !.pc = "refused"]
  <2>1. k \in Handlers /\ k.req = h.req /\ k.nr = h.nr /\ k.id = h.id /\ k.seen = h.seen
        /\ k.columns = h.columns /\ k.writes = h.writes /\ k.done = h.done
        /\ k.pc = "refused"
    BY <1>2 DEF Handlers
  <2>2. cur' = [cur EXCEPT ![p] = k]
    BY <1>11
  <2>. HIDE DEF k, h
  <2>3. WritesOK(p, k) /\ Control(k)
    BY <1>5, <2>1 DEF WritesOK, OwnRow, Control
  <2>4. TypeInv' /\ Continues(p) /\ cur'[p] = k
    BY <1>10, <2>1, <2>2, <2>3
  <2>. QED
    BY <1>1, <1>3, <2>1, <2>4 DEF Passes, KeepsCount, history, h
<1>12. CASE Service(h).attributes <= h.columns /\ cur' = [cur EXCEPT ![p] = WithService(p, next)]
  <2>. DEFINE k == WithService(p, next)
  <2>. HIDE DEF next, h
  <2>1. /\ k \in Handlers /\ WritesOK(p, k) /\ Control(k)
        /\ k.req = h.req /\ k.nr = h.nr /\ k.id = h.id /\ k.seen = h.seen
        /\ k.columns = h.columns /\ k.number = serviceID(p, kind)
        /\ \/ k.pc = "refused" /\ k.writes = h.writes /\ k.done = h.done
           \/ /\ k.pc \in {"services", "commit"} /\ k.done = h.done + 1
              /\ \E r \in Rows("Service") :
                   /\ k.writes["Service"] = h.writes["Service"] \cup {r}
                   /\ r.nr = h.nr /\ r.place = h.done + 1 /\ r.by = Run(p)
                   /\ r.id = k.number /\ r.attributes = Service(h).attributes
    <3>1. next.req.op = "Update" /\ next.done < Len(next.req.services)
      BY <1>1, <1>5, <1>7
    <3>2. /\ k \in Handlers /\ WritesOK(p, k) /\ Control(k)
          /\ k.req = next.req /\ k.nr = next.nr /\ k.id = next.id /\ k.seen = next.seen
          /\ k.columns = next.columns /\ k.number = next.number
          /\ \/ k.pc = "refused" /\ k.writes = next.writes /\ k.done = next.done
             \/ /\ k.pc \in {"services", "commit"} /\ k.done = next.done + 1
                /\ \E r \in Rows("Service") :
                     /\ k.writes["Service"] = next.writes["Service"] \cup {r}
                     /\ r.nr = next.nr /\ r.place = next.done + 1 /\ r.by = Run(p)
                     /\ r.id = next.number /\ r.attributes = Service(next).attributes
      BY <1>7, <1>8, <3>1, WithServiceStep
    <3>. HIDE DEF k
    <3>. QED
      BY <1>7, <3>2
  <2>. HIDE DEF k
  <2>2. TypeInv' /\ Continues(p) /\ cur'[p] = k
    BY <1>10, <1>12, <2>1 DEF k
  <2>3. CASE k.pc = "refused" /\ k.writes = h.writes /\ k.done = h.done
    BY <1>1, <1>3, <2>1, <2>2, <2>3 DEF Passes, KeepsCount, history, h
  <2>4. CASE /\ k.pc \in {"services", "commit"} /\ k.done = h.done + 1
             /\ \E r \in Rows("Service") :
                  /\ k.writes["Service"] = h.writes["Service"] \cup {r}
                  /\ r.nr = h.nr /\ r.place = h.done + 1 /\ r.by = Run(p)
                  /\ r.id = k.number /\ r.attributes = Service(h).attributes
    BY <1>1, <1>3, <1>4, <1>6, <1>12, <2>1, <2>2, <2>4
    DEF Numbered, WritesService, history, h
  <2>. QED
    BY <2>1, <2>3, <2>4
<1>13. CASE Service(h).attributes > h.columns /\ cur' = [cur EXCEPT ![p] = [next EXCEPT !.pc = "alter"]]
  <2>. DEFINE k == [next EXCEPT !.pc = "alter"]
  <2>1. /\ k \in Handlers /\ k.req = h.req /\ k.nr = h.nr /\ k.id = h.id
        /\ k.seen = h.seen /\ k.columns = h.columns /\ k.writes = h.writes
        /\ k.done = h.done /\ k.pc = "alter" /\ k.number = serviceID(p, kind)
    <3>. HIDE DEF next
    <3>. QED
      BY <1>7 DEF Handlers
  <2>. HIDE DEF k, h, next
  <2>2. WritesOK(p, k) /\ Control(k)
    BY <1>1, <1>5, <2>1 DEF WritesOK, OwnRow, Control
  <2>3. TypeInv' /\ Continues(p) /\ cur'[p] = k
    BY <1>10, <1>13, <2>1, <2>2 DEF k
  <2>. QED
    BY <1>1, <1>3, <1>4, <1>6, <2>1, <2>3 DEF Numbered, history, h
<1>. QED
  BY <1>11, <1>12, <1>13 DEF GenServiceID

\* What a handler commits are rows.
LEMMA CommittedRows ==
    ASSUME TypeInv, NEW p \in Active, requests' = requests,
           NEW rows \in [Tables -> SUBSET AnyRow], NEW n \in Nat,
           \A t \in Tables : rows[t] \subseteq Committed(cur[p])[t],
           db' = [rows |-> rows, columns |-> n]
    PROVE  RowsOK'
<1>. DEFINE h == cur[p]
<1>1. HandlerOK(p, h) /\ h \in Handlers /\ RowsOK
  BY ActiveHandlerOK
<1>2. OwnRow(h) \in Rows("Device") /\ OwnRow(h).id <= OwnRow(h).nr
      /\ (h.req.op = "Join" => OwnRow(h).device = OwnRow(h).id)
  <2>1. h.id \in Nat /\ h.nr \in 1 .. requests /\ (h.req.op # "Join" => h.req.device \in Nat)
    BY <1>1, HandlerFields, RequestFields
  <2>. QED
    BY <1>1, <2>1 DEF OwnRow, Rows, HandlerOK
<1>3. \A t \in Tables : h.writes[t] \subseteq Rows(t)
  BY <1>1, <1>2 DEF HandlerOK, WritesOK, Rows, Tables
<1>4. \A t \in Tables : rows[t] \subseteq db.rows[t] \cup h.writes[t]
  BY DEF Committed
<1>5. AnyRow' = AnyRow /\ \A t \in Tables : Rows(t)' = Rows(t)
  BY DEF AnyRow, Rows
<1>6. \A t \in Tables : rows[t] \subseteq Rows(t)
  BY <1>1, <1>3, <1>4 DEF RowsOK
<1>7. \A t \in {"Device", "Request"} : \A r \in rows[t] : r.id <= r.nr
  BY <1>1, <1>2, <1>4 DEF HandlerOK, WritesOK, RowsOK, Tables
<1>8. \A t \in {"Device", "Neighbor"} : \A r \in rows[t] : r.device = r.id
  BY <1>1, <1>2, <1>4 DEF HandlerOK, WritesOK, RowsOK, Tables
<1>. QED
  BY <1>5, <1>6, <1>7, <1>8 DEF RowsOK

\* What a commit makes of the rows are rows.
LEMMA CommittedType ==
    ASSUME TypeInv, NEW p \in Active
    PROVE  Committed(cur[p]) \in [Tables -> SUBSET AnyRow]
<1>1. cur[p].writes \in [Tables -> SUBSET AnyRow] /\ RowsOK
  BY ActiveHandlerOK, HandlerFields
<1>. QED
  BY <1>1 DEF Committed, RowsOK

\* AlterService commits, and stores the service or goes on adding columns.
LEMMA AlterServiceStep ==
    ASSUME TypeInv, NEW p \in Threads, AlterService(p)
    PROVE  TypeInv' /\ Alters(p)
<1>. DEFINE h == cur[p]
            column == h.columns + h.added + 1
            clean == [h EXCEPT !.writes = Nothing]
            columns == IF column > db.columns THEN column ELSE db.columns
<1>1. p \in Active /\ h.pc = "alter"
  BY BusyIsActive DEF AlterService
<1>2. /\ HandlerOK(p, h) /\ h \in Handlers /\ db.columns \in Nat
      /\ manageNum \in [Processes -> Nat] /\ altered \subseteq 1 .. requests /\ RowsOK
  BY <1>1, ActiveHandlerOK DEF RowsOK
<1>3. h.req.op = "Update" /\ h.done < Len(h.req.services) /\ WritesOK(p, h)
  BY <1>1, <1>2 DEF HandlerOK, Control
<1>4. /\ altered' = altered \cup {h.nr}
      /\ db' = [rows |-> Committed(h), columns |-> columns]
      /\ UNCHANGED <<manageNum, granted, failed, stranded, runs, overlapped, requests, faults>>
  BY DEF AlterService, Split
<1>5. column \in Nat /\ columns \in Nat /\ columns >= db.columns /\ columns >= column
  BY <1>2, HandlerFields
<1>6. RowsOK'
  <2>. HIDE DEF columns, h
  <2>. QED
    BY <1>1, <1>4, <1>5, CommittedRows, CommittedType DEF h
<1>7. altered' \subseteq 1 .. requests
  BY <1>2, <1>4, HandlerFields
<1>8. /\ clean \in Handlers /\ clean.req = h.req /\ clean.nr = h.nr /\ clean.id = h.id
      /\ clean.seen = h.seen /\ clean.columns = h.columns /\ clean.done = h.done
      /\ clean.number = h.number /\ clean.writes = Nothing /\ clean.pc = "alter"
  BY <1>1, <1>2 DEF Handlers, Nothing
<1>9. ASSUME NEW k \in Handlers, cur' = [cur EXCEPT ![p] = k],
             k.req = h.req, k.nr = h.nr, k.id = h.id, k.seen = h.seen,
             WritesOK(p, k), Control(k)
      PROVE  TypeInv' /\ Continues(p) /\ cur'[p] = k
  <2>. HIDE DEF h
  <2>. QED
    BY <1>1, <1>2, <1>4, <1>6, <1>7, <1>9, ContinueStep DEF h
<1>. HIDE DEF clean
<1>10. ASSUME NEW k \in Handlers, k.req = h.req, k.nr = h.nr, k.id = h.id, k.done = h.done,
              k.writes = Nothing, k.pc \in {"alter", "refused"}
       PROVE  WritesOK(p, k) /\ Control(k)
  BY <1>3, <1>10 DEF WritesOK, Control, Nothing, Tables
<1>11. ASSUME NEW k \in Handlers, cur' = [cur EXCEPT ![p] = k],
              k.req = h.req, k.nr = h.nr, k.id = h.id, k.seen = h.seen,
              k.columns = h.columns, k.done = h.done, k.number = h.number,
              k.writes = Nothing, k.pc \in {"alter", "refused"}
       PROVE  TypeInv' /\ Alters(p)
  <2>. HIDE DEF h, columns
  <2>1. TypeInv' /\ Continues(p) /\ cur'[p] = k
    BY <1>9, <1>10, <1>11
  <2>2. k.writes["Service"] = {}
    BY <1>11 DEF Nothing, Tables
  <2>. QED
    BY <1>1, <1>4, <1>5, <1>11, <2>1, <2>2 DEF Alters, h
<1>12. CASE cur' = [cur EXCEPT ![p] = [clean EXCEPT !.pc = "refused"]]
  <2>. DEFINE k == [clean EXCEPT !.pc = "refused"]
  <2>1. /\ k \in Handlers /\ k.req = h.req /\ k.nr = h.nr /\ k.id = h.id
        /\ k.seen = h.seen /\ k.columns = h.columns /\ k.done = h.done
        /\ k.number = h.number /\ k.writes = Nothing /\ k.pc = "refused"
    BY <1>8 DEF Handlers
  <2>. HIDE DEF k, h
  <2>. QED
    BY <1>11, <1>12, <2>1 DEF k
<1>13. CASE cur' = [cur EXCEPT ![p] = [clean EXCEPT !.added = @ + 1]]
  <2>. DEFINE k == [clean EXCEPT !.added = @ + 1]
  <2>1. /\ k \in Handlers /\ k.req = h.req /\ k.nr = h.nr /\ k.id = h.id
        /\ k.seen = h.seen /\ k.columns = h.columns /\ k.done = h.done
        /\ k.number = h.number /\ k.writes = Nothing /\ k.pc = "alter"
    BY <1>8 DEF Handlers
  <2>. HIDE DEF k, h
  <2>. QED
    BY <1>11, <1>13, <2>1 DEF k
<1>14. CASE /\ column > db.columns /\ LastColumn(h, column)
            /\ cur' = [cur EXCEPT ![p] = WithService(p, [clean EXCEPT !.added = 0])]
  <2>. DEFINE next == [clean EXCEPT !.added = 0]
              k == WithService(p, next)
  <2>1. /\ next \in Handlers /\ next.req = h.req /\ next.nr = h.nr /\ next.id = h.id
        /\ next.seen = h.seen /\ next.columns = h.columns /\ next.done = h.done
        /\ next.number = h.number /\ next.writes = Nothing /\ next.pc = "alter"
        /\ Service(next) = Service(h)
    BY <1>8 DEF Handlers, Service
  <2>2. cur' = [cur EXCEPT ![p] = k]
    BY <1>14
  <2>. HIDE DEF next, h, columns, column
  <2>3. WritesOK(p, next)
    BY <1>10, <2>1
  <2>4. /\ k \in Handlers /\ WritesOK(p, k) /\ Control(k)
        /\ k.req = next.req /\ k.nr = next.nr /\ k.id = next.id /\ k.seen = next.seen
        /\ k.columns = next.columns /\ k.number = next.number
        /\ \/ k.pc = "refused" /\ k.writes = next.writes /\ k.done = next.done
           \/ /\ k.pc \in {"services", "commit"} /\ k.done = next.done + 1
              /\ \E r \in Rows("Service") :
                   /\ k.writes["Service"] = next.writes["Service"] \cup {r}
                   /\ r.nr = next.nr /\ r.place = next.done + 1 /\ r.by = Run(p)
                   /\ r.id = next.number /\ r.attributes = Service(next).attributes
    <3>1. next.req.op = "Update" /\ next.done < Len(next.req.services)
      BY <1>3, <2>1
    <3>. QED
      BY <2>1, <2>3, <3>1, WithServiceStep
  <2>. HIDE DEF k
  <2>5. TypeInv' /\ Continues(p) /\ cur'[p] = k
    <3>1. k.req = h.req /\ k.nr = h.nr /\ k.id = h.id /\ k.seen = h.seen
      BY <2>1, <2>4
    <3>. QED
      BY <1>9, <2>2, <2>4, <3>1
  <2>6. next.writes["Service"] = {}
    BY <2>1 DEF Nothing, Tables
  <2>7. Service(next).attributes <= db'.columns
    BY <1>4, <1>5, <1>14, <2>1 DEF LastColumn
  <2>8. WritesService(p, {}) \/ (k.pc \in {"alter", "refused"} /\ k.writes["Service"] = {})
    BY <2>1, <2>4, <2>5, <2>6, <2>7 DEF WritesService, h
  <2>. QED
    BY <1>1, <1>4, <1>5, <2>1, <2>4, <2>5, <2>8 DEF Alters, h
<1>. QED
  BY <1>1, <1>5, <1>12, <1>13, <1>14 DEF AlterService, clean

\* The handler of p is over.
LEMMA EndStep ==
    ASSUME TypeInv, NEW p \in Threads, cur' = [cur EXCEPT ![p] = Idle],
           RowsOK', HistoryOK', BoundsOK', requests' = requests, runs' = runs
    PROVE  TypeInv' /\ OthersStay(p) /\ cur'[p] = Idle
<1>1. TypeInv'
  BY TypeFrame
<1>2. OthersStay(p) /\ cur'[p] = Idle
  BY CurStep DEF TypeInv
<1>. QED
  BY <1>1, <1>2

\* A grant of the handler of p has its type, and so do those it strands.
LEMMA GrantsTyped ==
    ASSUME TypeInv, NEW p \in Active
    PROVE  Grants(p, cur[p]) \subseteq Grant /\ Strands(p, cur[p]) \subseteq 1 .. requests
<1>. DEFINE h == cur[p]
            new == [op |-> h.req.op, nr |-> h.nr, id |-> h.id,
                    process |-> ProcessOf[p],
                    device |-> IF h.req.op = "Join" THEN h.id ELSE h.req.device,
                    services |-> h.done, seen |-> h.seen]
<1>1. /\ h \in Handlers /\ ProcessOf[p] \in Processes /\ granted \subseteq Grant
      /\ h.req \in Requests /\ RowsOK /\ TypeParts
  BY ActiveHandlerOK, HandlerFields, ProcessesAssumption DEF TypeParts, HistoryOK
<1>2. h.req.op # "Leave" => new \in Grant
  BY <1>1, HandlerFields, RequestFields DEF Grant
<1>3. Grants(p, h) \subseteq granted \cup {g \in {new} : h.req.op # "Leave"}
  BY DEF Grants
<1>4. \A q \in Threads : cur[q] # Idle => cur[q].nr \in 1 .. requests
  BY <1>1, HandlerFields DEF TypeParts
<1>5. \A r \in db.rows["Device"] : r.nr \in 1 .. requests
  BY <1>1 DEF RowsOK, Rows, Tables
<1>6. h.nr \in 1 .. requests
  BY <1>1, HandlerFields
<1>7. Strands(p, h) \subseteq 1 .. requests
  BY <1>4, <1>5, <1>6 DEF Strands
<1>. QED
  BY <1>1, <1>2, <1>3, <1>7

\* What a commit leaves in the tables are rows.
LEMMA WrittenRows ==
    ASSUME TypeInv, NEW p \in Active, requests' = requests,
           db' = [db EXCEPT !.rows = Written(p, cur[p])]
    PROVE  RowsOK' /\ db'.rows = Written(p, cur[p]) /\ db'.columns = db.columns
<1>1. db \in [rows : [Tables -> SUBSET AnyRow], columns : Nat]
  BY ActiveHandlerOK DEF RowsOK
<1>2. db' = [rows |-> Written(p, cur[p]), columns |-> db.columns]
  BY <1>1
<1>3. /\ Written(p, cur[p]) \in [Tables -> SUBSET AnyRow]
      /\ \A t \in Tables : Written(p, cur[p])[t] \subseteq Committed(cur[p])[t]
  <2>1. CASE cur[p].req.op = "Leave"
    BY <1>1, <2>1 DEF Written, Committed
  <2>2. CASE cur[p].req.op # "Leave"
    BY <2>2, CommittedType DEF Written
  <2>. QED
    BY <2>1, <2>2
<1>4. RowsOK'
  BY <1>1, <1>2, <1>3, CommittedRows
<1>. QED
  BY <1>2, <1>4

\* A commit, whether or not the handler hears of it.
LEMMA CommitStep ==
    ASSUME TypeInv, NEW p \in Threads, Commit(p) \/ CommitUnconfirmed(p)
    PROVE  TypeInv' /\ Commits(p)
<1>1. p \in Active /\ cur[p].pc = "commit"
  BY BusyIsActive DEF Commit, CommitUnconfirmed
<1>2. /\ cur' = [cur EXCEPT ![p] = Idle]
      /\ db' = [db EXCEPT !.rows = Written(p, cur[p])]
      /\ stranded' = stranded \cup Strands(p, cur[p])
      /\ UNCHANGED <<manageNum, failed, altered, runs, overlapped, requests>>
      /\ granted' \in IF cur[p].req.op = "Leave" THEN {Grants(p, cur[p])}
                      ELSE {granted, Grants(p, cur[p])}
  BY DEF Commit, CommitUnconfirmed
<1>3. HistoryOK /\ Grants(p, cur[p]) \subseteq Grant
      /\ Strands(p, cur[p]) \subseteq 1 .. requests
  BY <1>1, GrantsTyped, ActiveHandlerOK DEF TypeParts
<1>4. BoundsOK'
  BY <1>1, ActiveHandlerOK, BoundsAssumption DEF Commit, CommitUnconfirmed, BoundsOK
<1>5. HistoryOK'
  <2>1. granted' \subseteq Grant
    BY <1>2, <1>3 DEF HistoryOK
  <2>2. Grant' = Grant
    BY <1>2 DEF Grant
  <2>. QED
    BY <1>2, <1>3, <2>1, <2>2 DEF HistoryOK
<1>6. RowsOK' /\ db'.rows = Written(p, cur[p]) /\ db'.columns = db.columns
  BY <1>1, <1>2, WrittenRows
<1>7. TypeInv' /\ OthersStay(p) /\ cur'[p] = Idle
  BY <1>2, <1>4, <1>5, <1>6, EndStep
<1>. QED
  BY <1>1, <1>2, <1>6, <1>7 DEF Commits

\* Whoever raises drops the transaction.
LEMMA RaiseStep ==
    ASSUME TypeInv, NEW p \in Threads, Refuse(p) \/ DatabaseError(p)
    PROVE  TypeInv' /\ Drops(p)
<1>1. p \in Active
  BY BusyIsActive DEF Refuse, DatabaseError, Active
<1>2. /\ cur' = [cur EXCEPT ![p] = Idle] /\ failed' = failed \cup {cur[p].nr}
      /\ UNCHANGED <<db, manageNum, granted, altered, stranded, runs, overlapped, requests>>
  BY DEF Refuse, DatabaseError, Raise, Dropped
<1>3. HistoryOK /\ RowsOK /\ cur[p].nr \in 1 .. requests
  BY <1>1, ActiveHandlerOK, HandlerFields DEF TypeParts
<1>4. HistoryOK' /\ RowsOK'
  BY <1>2, <1>3, RowsOKStay DEF HistoryOK, Grant
<1>5. BoundsOK'
  BY <1>1, <1>2, ActiveHandlerOK, BoundsAssumption DEF Refuse, DatabaseError, BoundsOK
<1>6. TypeInv' /\ OthersStay(p) /\ cur'[p] = Idle
  BY <1>2, <1>4, <1>5, EndStep
<1>. QED
  BY <1>1, <1>2, <1>6 DEF Drops

\* Restart drops the handlers of a process, and their transactions.
LEMMA RestartStep ==
    ASSUME TypeInv, NEW process \in Processes, Restart(process)
    PROVE  TypeInv' /\ Restarts(process)
<1>1. /\ \A q \in Threads : cur'[q] = IF ProcessOf[q] = process THEN Idle ELSE cur[q]
      /\ cur' = [q \in Threads |-> IF ProcessOf[q] = process THEN Idle ELSE cur[q]]
      /\ manageNum' = [manageNum EXCEPT ![process] = 0]
      /\ runs' = [runs EXCEPT ![process] = @ + 1]
      /\ failed' = failed \cup {cur[q].nr : q \in {q \in Active : ProcessOf[q] = process}}
      /\ UNCHANGED <<db, granted, altered, stranded, overlapped, requests>>
      /\ faults' = faults + 1 /\ requests + faults < MaxEvents
  BY DEF Restart, Active
<1>2. TypeParts /\ HistoryOK /\ RowsOK /\ BoundsOK
  BY TypeInvParts DEF TypeParts
<1>3. \A q \in Active : cur[q].nr \in 1 .. requests
  BY ActiveHandlerOK, HandlerFields
<1>4. HistoryOK' /\ RowsOK' /\ BoundsOK'
  <2>1. BoundsOK'
    BY <1>1, <1>2, BoundsAssumption DEF BoundsOK
  <2>. QED
    BY <1>1, <1>2, <1>3, <2>1, RowsOKStay DEF HistoryOK, Grant
<1>5. \A q \in Active' : /\ q \in Active /\ cur'[q] = cur[q]
                         /\ runs'[ProcessOf[q]] = runs[ProcessOf[q]]
  BY <1>1, <1>2, ProcessesAssumption DEF Active, HistoryOK
<1>6. \A q \in Active' : HandlerOK(q, cur[q])'
  BY <1>1, <1>2, <1>5, HandlerStaysOK DEF TypeParts, Active
<1>7. DistinctNumbers'
  BY <1>2, <1>5 DEF TypeParts, DistinctNumbers
<1>8. cur' \in [Threads -> Handlers \cup {Idle}]'
  BY <1>1, <1>2 DEF TypeParts, Handlers, Rows
<1>9. TypeInv'
  BY <1>4, <1>6, <1>7, <1>8, TypeInvPartsNext DEF TypeParts
<1>. QED
  BY <1>1, <1>9 DEF Restarts

\* A step that changes nothing keeps the types.
LEMMA StutterKeepsTypes == ASSUME TypeInv, UNCHANGED vars PROVE TypeInv'
<1>. USE DEF vars, history
<1>1. AnyRow' = AnyRow /\ Handlers' = Handlers /\ Grant' = Grant /\ \A t : Rows(t)' = Rows(t)
  BY DEF AnyRow, Handlers, Grant, Rows
<1>2. \A p \in Active : HandlerOK(p, cur[p])'
  BY ActiveHandlerOK, HandlerStaysOK
<1>3. TypeParts'
  BY <1>1, <1>2, TypeInvParts DEF TypeParts, RowsOK, HistoryOK, BoundsOK, DistinctNumbers, Active
<1>. QED
  BY <1>3, TypeInvPartsNext

\* What a step of p's handler may do.
Effect(p) ==
    Begins(p) \/ Passes(p) \/ Numbered(p) \/ Alters(p) \/ Commits(p) \/ Drops(p)

\* Every step keeps the types, and is of one kind.
LEMMA StepKinds ==
    ASSUME TypeInv, [Next]_vars
    PROVE  /\ TypeInv'
           /\ \/ UNCHANGED vars
              \/ \E p \in Threads : Effect(p)
              \/ \E process \in Processes : Restarts(process)
<1>. USE DEF Effect
<1>1. ASSUME NEW p \in Threads, NEW req \in Requests, Handle(p, req)
      PROVE  TypeInv' /\ Effect(p)
  BY <1>1, HandleStep
<1>2. ASSUME NEW p \in Threads, CountColumns(p) \/ ReadManageNum(p) \/ WriteManageNum(p)
      PROVE  TypeInv' /\ Effect(p)
  BY <1>2, CountColumnsStep, ReadManageNumStep, WriteManageNumStep
<1>3. ASSUME NEW p \in Threads, GenServiceID(p) PROVE TypeInv' /\ Effect(p)
  BY <1>3, GenServiceIDStep
<1>4. ASSUME NEW p \in Threads, AlterService(p) PROVE TypeInv' /\ Effect(p)
  BY <1>4, AlterServiceStep
<1>5. ASSUME NEW p \in Threads, Commit(p) \/ CommitUnconfirmed(p)
      PROVE  TypeInv' /\ Effect(p)
  BY <1>5, CommitStep
<1>6. ASSUME NEW p \in Threads, Refuse(p) \/ DatabaseError(p)
      PROVE  TypeInv' /\ Effect(p)
  BY <1>6, RaiseStep
<1>7. ASSUME NEW process \in Processes, Restart(process)
      PROVE  TypeInv' /\ Restarts(process)
  BY <1>7, RestartStep
<1>8. CASE UNCHANGED vars
  BY <1>8, StutterKeepsTypes
<1>9. CASE Waiting
  BY <1>8, <1>9 DEF Waiting
<1>. HIDE DEF Effect
<1>. QED
  BY <1>1, <1>2, <1>3, <1>4, <1>5, <1>6, <1>7, <1>8, <1>9 DEF Next

\* The empty database is well-typed.
LEMMA TypeInvInit == Init => TypeInv
<1>. SUFFICES ASSUME Init PROVE TypeInv
  OBVIOUS
<1>. USE DEF Init
<1>1. RowsOK
  BY BoundsAssumption DEF RowsOK, Nothing, AnyRow, Tables
<1>2. HistoryOK /\ BoundsOK
  BY BoundsAssumption DEF HistoryOK, BoundsOK
<1>3. Active = {} /\ cur \in [Threads -> Handlers \cup {Idle}]
  BY DEF Active
<1>. QED
  BY <1>1, <1>2, <1>3, TypeInvParts DEF TypeParts, DistinctNumbers

-----------------------------------------------------------------------------
(***************************************************************************)
(* What the kinds of steps have in common.                                 *)
(***************************************************************************)
\* All request numbers in use are of requests that have arrived.
LEMMA NumbersUsed ==
    ASSUME TypeInv
    PROVE  /\ requests \in Nat
           /\ \A q \in Active : cur[q].nr \in 1 .. requests /\ cur[q].seen \subseteq 1 .. requests
           /\ \A g \in granted : g.nr \in 1 .. requests /\ g.seen \subseteq 1 .. requests
           /\ failed \cup altered \cup stranded \cup overlapped \subseteq 1 .. requests
           /\ \A t \in Tables : \A r \in db.rows[t] : r.nr \in 1 .. requests
<1>1. TypeParts
  BY TypeInvParts
<1>2. \A q \in Active : cur[q].nr \in 1 .. requests /\ cur[q].seen \subseteq 1 .. requests
  BY ActiveHandlerOK, HandlerFields
<1>3. \A g \in granted : g.nr \in 1 .. requests /\ g.seen \subseteq 1 .. requests
  BY <1>1 DEF TypeParts, HistoryOK, Grant
<1>4. \A t \in Tables : \A r \in db.rows[t] : r.nr \in 1 .. requests
  BY <1>1 DEF TypeParts, RowsOK, Rows
<1>. QED
  BY <1>1, <1>2, <1>3, <1>4 DEF TypeParts, HistoryOK, BoundsOK

\* Who is active after a step of p.
LEMMA ActiveAfter ==
    ASSUME NEW p \in Threads, OthersStay(p)
    PROVE  /\ \A q \in Active' : q # p => q \in Active /\ cur'[q] = cur[q]
           /\ \A q \in Active : q # p => q \in Active' /\ cur'[q] = cur[q]
           /\ p \in Active' <=> cur'[p] # Idle
  BY DEF OthersStay, Active

\* The rows a transaction wrote carry the number of its request.
LEMMA WritesNumbers ==
    ASSUME TypeInv, NEW p \in Active, NEW t \in Tables, NEW r \in cur[p].writes[t]
    PROVE  /\ r.nr = cur[p].nr
           /\ \/ cur[p].req.op = "Join" /\ t \in {"Device", "Neighbor"} /\ r = OwnRow(cur[p])
              \/ cur[p].req.op = "Request" /\ t = "Request" /\ r = OwnRow(cur[p])
              \/ cur[p].req.op = "Update" /\ t = "Service" /\ r.device = cur[p].req.device
<1>. DEFINE h == cur[p]
<1>1. WritesOK(p, h) /\ h.req \in Requests
  BY ActiveHandlerOK, HandlerFields DEF HandlerOK
<1>2. OwnRow(h).nr = h.nr
  BY DEF OwnRow
<1>. HIDE DEF h
<1>3. CASE t = "Service"
  BY <1>1, <1>3 DEF WritesOK, h
<1>4. CASE t # "Service"
  <2>1. t \in {"Device", "Neighbor", "Request"} /\ r \in h.writes[t]
    BY <1>4 DEF Tables, h
  <2>2. r = OwnRow(h)
    BY <1>1, <2>1 DEF WritesOK
  <2>3. \/ h.req.op = "Join" /\ t \in {"Device", "Neighbor"}
        \/ h.req.op = "Request" /\ t = "Request"
    BY <1>1, <2>1 DEF WritesOK
  <2>. QED
    BY <1>2, <2>2, <2>3 DEF h
<1>. QED
  BY <1>3, <1>4

\* The rows after a step are old ones, and those that p's transaction wrote.
LEMMA RowsAfter ==
    ASSUME TypeInv, NEW p \in Threads, Effect(p), NEW t \in Tables, NEW r \in db'.rows[t]
    PROVE  \/ r \in db.rows[t]
           \/ /\ p \in Active /\ r \in cur[p].writes[t] /\ r.nr = cur[p].nr
              /\ (Alters(p) /\ t = "Service" /\ cur[p].req.op = "Update")
                   \/ (Commits(p) /\ cur[p].req.op # "Leave")
<1>1. CASE Begins(p) \/ Passes(p) \/ Numbered(p) \/ Drops(p)
  BY <1>1 DEF Begins, Passes, Numbered, Drops
<1>2. CASE Alters(p)
  <2>1. p \in Active /\ cur[p].req.op = "Update"
    BY <1>2, ActiveHandlerOK DEF Alters, Continues, HandlerOK, Control
  <2>2. r \in db.rows[t] \/ r \in cur[p].writes[t]
    BY <1>2 DEF Alters, Committed
  <2>. QED
    BY <1>2, <2>1, <2>2, WritesNumbers
<1>3. CASE Commits(p)
  <2>1. p \in Active /\ (r \in db.rows[t] \/ (r \in cur[p].writes[t] /\ cur[p].req.op # "Leave"))
    BY <1>3 DEF Commits, Written, Committed
  <2>. QED
    BY <1>3, <2>1, WritesNumbers
<1>. QED
  BY <1>1, <1>2, <1>3 DEF Effect

\* What the handler of p is granted when it commits.
NewGrant(p) ==
    [op |-> cur[p].req.op, nr |-> cur[p].nr, id |-> cur[p].id,
     process |-> ProcessOf[p],
     device |-> IF cur[p].req.op = "Join" THEN cur[p].id ELSE cur[p].req.device,
     services |-> cur[p].done, seen |-> cur[p].seen]

\* The grants after a step are old ones, and that of a handler that commits.
LEMMA GrantsAfter ==
    ASSUME NEW p \in Threads, Effect(p), NEW g \in granted'
    PROVE  \/ /\ g \in granted
              /\ Commits(p) /\ cur[p].req.op = "Leave" =>
                   \/ g.op = "Request"
                   \/ (IF g.op = "Join" THEN g.id ELSE g.device) # cur[p].req.device
           \/ /\ Commits(p) /\ p \in Active /\ g = NewGrant(p) /\ cur[p].req.op # "Leave"
              /\ cur[p].req.op = "Join" => cur[p].req.interfaces
<1>1. CASE ~Commits(p)
  <2>1. granted' = granted
    BY <1>1 DEF Effect, Begins, Passes, Numbered, Alters, Drops, Continues, history
  <2>. QED
    BY <1>1, <2>1
<1>2. CASE Commits(p)
  BY <1>2 DEF Commits, Grants, NewGrant
<1>. QED
  BY <1>1, <1>2

-----------------------------------------------------------------------------
(***************************************************************************)
(* Fresh numbers, and what failures leave.                                 *)
(***************************************************************************)
\* A step of p leaves the others' numbers to them, and a new one is new.
LEMMA FreshNumbersStep ==
    ASSUME TypeInv, TypeInv', FreshNumbers, NEW p \in Threads, Effect(p)
    PROVE  FreshNumbers'
<1>. USE NumbersUsed
<1>1. OthersStay(p)
  BY DEF Effect, Begins, Passes, Numbered, Alters, Commits, Drops, Continues
<1>. SUFFICES ASSUME NEW q \in Active'
              PROVE  /\ cur'[q].nr \notin failed'
                     /\ \A g \in granted' : g.nr # cur'[q].nr /\ cur'[q].nr \notin g.seen
                     /\ \A s \in Active' : cur'[q].nr \notin cur'[s].seen
                     /\ \A t \in Tables : \A r \in db'.rows[t] :
                          r.nr = cur'[q].nr => t = "Service" /\ cur'[q].nr \in altered'
  BY DEF FreshNumbers
<1>2. CASE Begins(p)
  <2>1. UNCHANGED <<db, granted, failed, altered>>
    BY <1>2 DEF Begins, history
  <2>2. CASE q = p
    <3>1. cur'[q].nr = requests + 1 /\ requests + 1 \notin 1 .. requests
      BY <1>2, <2>2 DEF Begins
    <3>2. \A s \in Active' : cur'[s].seen \subseteq 1 .. requests
      <4>1. cur'[p].seen \subseteq 1 .. requests
        BY <1>2 DEF Begins
      <4>. QED
        BY <1>1, <4>1, ActiveAfter
    <3>. QED
      BY <2>1, <3>1, <3>2
  <2>3. CASE q # p
    <3>1. q \in Active /\ cur'[q] = cur[q]
      BY <1>1, <2>3, ActiveAfter
    <3>2. \A s \in Active' : cur[q].nr \notin cur'[s].seen
      <4>1. cur[q].nr \notin cur'[p].seen
        BY <1>2, <3>1 DEF Begins, FreshNumbers
      <4>. QED
        BY <1>1, <3>1, <4>1, ActiveAfter DEF FreshNumbers
    <3>. QED
      BY <2>1, <3>1, <3>2 DEF FreshNumbers
  <2>. QED
    BY <2>2, <2>3
<1>3. CASE ~Begins(p)
  <2>1. \A s \in Active' : s \in Active /\ cur'[s].nr = cur[s].nr /\ cur'[s].seen = cur[s].seen
    <3>1. p \in Active' => p \in Active /\ cur'[p].nr = cur[p].nr /\ cur'[p].seen = cur[p].seen
      BY <1>1, <1>3, ActiveAfter DEF Effect, Passes, Numbered, Alters, Commits, Drops, Continues
    <3>. QED
      BY <1>1, <3>1, ActiveAfter
  <2>2. (Commits(p) \/ Drops(p)) => q # p
    BY <1>1, ActiveAfter DEF Commits, Drops
  <2>3. q # p /\ p \in Active => cur[q].nr # cur[p].nr
    BY <2>1, TypeInvParts DEF TypeParts, DistinctNumbers
  <2>4. cur[q].nr \notin failed'
    <3>1. failed' = failed \/ (Drops(p) /\ p \in Active /\ failed' = failed \cup {cur[p].nr})
      BY <1>3 DEF Effect, Passes, Numbered, Alters, Commits, Drops, Continues
    <3>2. cur[q].nr \notin failed
      BY <2>1 DEF FreshNumbers
    <3>. QED
      BY <2>2, <2>3, <3>1, <3>2
  <2>5. \A g \in granted' : g.nr # cur[q].nr /\ cur[q].nr \notin g.seen
    <3>1. \A g \in granted' : g \in granted \/ (Commits(p) /\ p \in Active /\ g = NewGrant(p))
      BY GrantsAfter
    <3>2. q \in Active
      BY <2>1
    <3>. QED
      BY <2>2, <2>3, <3>1, <3>2 DEF FreshNumbers, NewGrant
  <2>6. \A s \in Active' : cur[q].nr \notin cur'[s].seen
    BY <2>1 DEF FreshNumbers
  <2>7. ASSUME NEW t \in Tables, NEW r \in db'.rows[t], r.nr = cur[q].nr
        PROVE  t = "Service" /\ cur[q].nr \in altered'
    <3>1. altered \subseteq altered'
      BY <1>3 DEF Effect, Passes, Numbered, Alters, Commits, Drops, Continues
    <3>2. CASE r \in db.rows[t]
      BY <2>1, <2>7, <3>1, <3>2 DEF FreshNumbers
    <3>3. CASE r \notin db.rows[t]
      <4>1. p \in Active /\ r.nr = cur[p].nr /\ (Commits(p) \/ (Alters(p) /\ t = "Service"))
        BY <3>3, RowsAfter
      <4>2. q = p /\ Alters(p) /\ t = "Service"
        BY <2>2, <2>3, <2>7, <4>1
      <4>. QED
        BY <4>2 DEF Alters
    <3>. QED
      BY <3>2, <3>3
  <2>. QED
    BY <2>1, <2>4, <2>5, <2>6, <2>7
<1>. QED
  BY <1>2, <1>3

\* A row stays unless its device leaves.
LEMMA RowsStay ==
    ASSUME NEW p \in Threads, Effect(p), NEW t \in Tables, NEW r \in db.rows[t]
    PROVE  \/ r \in db'.rows[t]
           \/ /\ Commits(p) /\ p \in Active /\ cur[p].req.op = "Leave"
              /\ t \in DeletedTables(p) /\ r.device = cur[p].req.device
<1>1. CASE ~Commits(p)
  BY <1>1 DEF Effect, Begins, Passes, Numbered, Alters, Drops, Committed
<1>2. CASE Commits(p)
  BY <1>2 DEF Commits, Written, Committed
<1>. QED
  BY <1>1, <1>2

\* An alteration is never undone, and one process moves at a time.
LEMMA AlteredGrows ==
    ASSUME NEW p \in Threads, Effect(p)
    PROVE  altered \subseteq altered' /\ OthersStay(p)
  BY DEF Effect, Begins, Passes, Numbered, Alters, Commits, Drops, Continues, history

\* A commit strands what it strands for good.
LEMMA StrandedGrows ==
    ASSUME NEW p \in Threads, Effect(p)
    PROVE  /\ stranded \subseteq stranded'
           /\ Commits(p) => Strands(p, cur[p]) \subseteq stranded'
  BY DEF Effect, Begins, Passes, Numbered, Alters, Commits, Drops, Continues, history

\* The services of a request are deleted all or none.
LEMMA PlacesStay ==
    ASSUME OneDevice, NEW p \in Threads, Effect(p),
           NEW r \in db.rows["Service"], r \in db'.rows["Service"]
    PROVE  Places(r.nr) \subseteq Places(r.nr)'
<1>. SUFFICES ASSUME NEW s \in db.rows["Service"], s.nr = r.nr
              PROVE  s \in db'.rows["Service"]
  BY DEF Places
<1>1. s.device = r.device
  BY DEF OneDevice
<1>2. CASE Commits(p) /\ cur[p].req.op = "Leave"
  BY <1>1, <1>2 DEF Commits, Written, Tables
<1>3. CASE ~(Commits(p) /\ cur[p].req.op = "Leave")
  BY <1>3, RowsStay DEF Tables
<1>. QED
  BY <1>2, <1>3

\* A failed request left rows only if it altered Service before, and then the
\* first of its services.
LEMMA FailuresStep ==
    ASSUME TypeInv, FreshNumbers, WholeUpdates, OneDevice, FailuresLeaveNothing,
           NEW p \in Threads, Effect(p)
    PROVE  FailuresLeaveNothing'
<1>. SUFFICES ASSUME NEW t \in Tables, NEW r \in db'.rows[t], r.nr \in failed'
              PROVE  /\ t = "Service" /\ r.nr \in altered'
                     /\ r.nr \in stranded' \/ 1 .. r.place \subseteq Places(r.nr)'
  BY DEF FailuresLeaveNothing
<1>1. altered \subseteq altered' /\ stranded \subseteq stranded'
  BY AlteredGrows, StrandedGrows
<1>2. CASE r \notin db.rows[t]
  <2>1. p \in Active /\ r.nr = cur[p].nr /\ (Commits(p) \/ Alters(p)) /\ r.nr \notin failed
    BY <1>2, RowsAfter DEF FreshNumbers
  <2>2. failed' = failed
    BY <2>1 DEF Commits, Alters, Continues
  <2>. QED
    BY <2>1, <2>2
<1>3. CASE r \in db.rows[t] /\ r.nr \in failed
  <2>1. /\ t = "Service" /\ r.nr \in altered
        /\ r.nr \in stranded \/ 1 .. r.place \subseteq Places(r.nr)
    BY <1>3 DEF FailuresLeaveNothing
  <2>2. Places(r.nr) \subseteq Places(r.nr)'
    BY <1>3, <2>1, PlacesStay
  <2>. QED
    BY <1>1, <2>1, <2>2
<1>4. CASE r \in db.rows[t] /\ r.nr \notin failed
  <2>1. Drops(p) /\ p \in Active /\ r.nr = cur[p].nr /\ db' = db
    BY <1>4 DEF Effect, Begins, Passes, Numbered, Alters, Commits, Drops, Continues, history
  <2>2. t = "Service" /\ r.nr \in altered
    BY <1>4, <2>1 DEF FreshNumbers
  <2>3. cur[p].req.op = "Update" /\ r.place \in Places(cur[p].nr)
    BY <1>4, <2>1, <2>2 DEF OneDevice, Places
  <2>4. r.nr \in stranded \/ 1 .. r.place \subseteq Places(r.nr)
    BY <2>1, <2>2, <2>3 DEF WholeUpdates
  <2>. QED
    BY <1>1, <2>1, <2>2, <2>4 DEF Places
<1>. QED
  BY <1>2, <1>3, <1>4

-----------------------------------------------------------------------------
(***************************************************************************)
(* What was acknowledged is stored.                                        *)
(***************************************************************************)
\* The services of a handler are its own, unless its device leaves, who then
\* strands it.
LEMMA PlacesOfOthers ==
    ASSUME TypeInv, FreshNumbers, OneDevice, NEW p \in Threads, Effect(p),
           NEW q \in Active, q # p, cur[q].nr \notin altered' \cap stranded',
           NEW n, n = cur[q].nr
    PROVE  Places(n)' = Places(n)
<1>. USE DEF Tables
<1>1. ASSUME NEW r \in db'.rows["Service"], r.nr = cur[q].nr
      PROVE  r \in db.rows["Service"]
  <2>1. p \in Active => cur[p].nr # cur[q].nr
    BY TypeInvParts DEF TypeParts, DistinctNumbers
  <2>. QED
    BY <1>1, <2>1, RowsAfter
<1>2. ASSUME NEW r \in db.rows["Service"], r.nr = cur[q].nr
      PROVE  r \in db'.rows["Service"]
  <2>1. SUFFICES ASSUME r \notin db'.rows["Service"] PROVE FALSE
    OBVIOUS
  <2>2. Commits(p) /\ cur[p].req.op = "Leave" /\ r.device = cur[p].req.device
    BY <2>1, RowsStay
  <2>3. cur[q].req.op = "Update" /\ r.device = cur[q].req.device
    BY <1>2 DEF OneDevice
  <2>4. cur[q].nr \in Strands(p, cur[p])
    BY <2>2, <2>3 DEF Strands, Active
  <2>5. cur[q].nr \in altered
    BY <1>2 DEF FreshNumbers
  <2>. QED
    BY <2>2, <2>4, <2>5, AlteredGrows, StrandedGrows
<1>. QED
  BY <1>1, <1>2 DEF Places

\* A commit puts the services of the transaction beside those stored before.
LEMMA PlacesCommitted ==
    ASSUME TypeInv, NEW p \in Active,
           db'.rows["Service"] = db.rows["Service"] \cup cur[p].writes["Service"],
           NEW n, n = cur[p].nr
    PROVE  Places(n)' = Places(n) \cup {r.place : r \in cur[p].writes["Service"]}
<1>1. \A r \in cur[p].writes["Service"] : r.nr = cur[p].nr
  BY WritesNumbers DEF Tables
<1>. QED
  BY <1>1 DEF Places

\* Each service that is stored gets the next place.
LEMMA WholeUpdatesStep ==
    ASSUME TypeInv, FreshNumbers, OneDevice, WholeUpdates, NEW p \in Threads, Effect(p)
    PROVE  WholeUpdates'
<1>. DEFINE places(s) == {r.place : r \in s}
            whole(stored, written, n) ==
              /\ stored \cup written = 1 .. n
              /\ \A i \in stored : 1 .. i \subseteq stored
<1>. SUFFICES ASSUME NEW q \in Active', cur'[q].req.op = "Update",
                     cur'[q].nr \notin altered' \cap stranded'
              PROVE  whole(Places(cur[q].nr)', places(cur'[q].writes["Service"]), cur'[q].done)
  BY DEF WholeUpdates
<1>0. \A s \in Active : cur[s].req.op = "Update" /\ cur[s].nr \notin altered \cap stranded =>
        whole(Places(cur[s].nr), places(cur[s].writes["Service"]), cur[s].done)
  BY DEF WholeUpdates
<1>1. CASE q # p
  <2>1. q \in Active /\ cur'[q] = cur[q]
    BY <1>1, AlteredGrows, ActiveAfter
  <2>2. cur[q].nr \notin altered \cap stranded
    BY <2>1, AlteredGrows, StrandedGrows
  <2>3. Places(cur[q].nr)' = Places(cur[q].nr)
    <3>1. PICK n : n = cur[q].nr
      OBVIOUS
    <3>2. Places(n)' = Places(n)
      BY <1>1, <2>1, <3>1, PlacesOfOthers
    <3>. QED
      BY <2>1, <3>1, <3>2 DEF Places
  <2>. QED
    BY <1>0, <2>1, <2>2, <2>3
<1>2. CASE q = p /\ Begins(p)
  <2>1. \A r \in db'.rows["Service"] : r.nr # requests + 1
    BY <1>2, NumbersUsed DEF Begins, Tables
  <2>2. Places(cur[q].nr)' = {}
    BY <1>2, <2>1 DEF Begins, Places
  <2>3. places(cur'[q].writes["Service"]) = {} /\ cur'[q].done = 0
    BY <1>2 DEF Begins
  <2>. QED
    BY <2>2, <2>3
<1>3. ASSUME q = p, Continues(p)
      PROVE  /\ p \in Active /\ cur[p].req.op = "Update" /\ cur'[p].nr = cur[p].nr
             /\ cur[p].nr \notin altered \cap stranded /\ cur[p].done \in Nat
             /\ whole(Places(cur[p].nr), places(cur[p].writes["Service"]), cur[p].done)
  <2>1. p \in Active /\ cur[p].req.op = "Update" /\ cur'[p].nr = cur[p].nr
    BY <1>3 DEF Continues
  <2>2. cur[p].nr \notin altered \cap stranded
    BY <1>3, <2>1, AlteredGrows, StrandedGrows
  <2>. QED
    BY <1>0, <2>1, <2>2, ActiveHandlerOK, HandlerFields
<1>4. CASE q = p /\ (Passes(p) \/ Numbered(p))
  <2>1. Continues(p) /\ Places(cur[p].nr)' = Places(cur[p].nr)
    BY <1>4 DEF Passes, Numbered, Continues, Places
  <2>2. CASE cur'[p].writes = cur[p].writes /\ cur'[p].done = cur[p].done
    BY <1>3, <1>4, <2>1, <2>2
  <2>3. CASE WritesService(p, cur[p].writes["Service"])
    <3>1. places(cur'[p].writes["Service"]) =
            places(cur[p].writes["Service"]) \cup {cur[p].done + 1}
      BY <2>3 DEF WritesService
    <3>2. cur'[p].done = cur[p].done + 1
      BY <2>3 DEF WritesService
    <3>3. Places(cur[p].nr) \cup places(cur'[p].writes["Service"]) = 1 .. cur'[p].done
      <4>. HIDE DEF places
      <4>. QED
        BY <1>3, <1>4, <2>1, <3>1, <3>2
    <3>. QED
      BY <1>3, <1>4, <2>1, <3>3
  <2>. QED
    BY <1>4, <2>2, <2>3 DEF Passes, Numbered
<1>5. CASE q = p /\ Alters(p)
  <2>0. Continues(p) /\ db'.rows = Committed(cur[p])
    BY <1>5 DEF Alters
  <2>1. db'.rows["Service"] = db.rows["Service"] \cup cur[p].writes["Service"]
    BY <2>0 DEF Committed, Tables
  <2>2. Places(cur[p].nr)' = 1 .. cur[p].done
    <3>1. PICK n : n = cur[p].nr
      OBVIOUS
    <3>2. cur'[p].nr = n /\ Places(n) \cup places(cur[p].writes["Service"]) = 1 .. cur[p].done
      BY <1>3, <1>5, <2>0, <3>1
    <3>3. Places(n)' = Places(n) \cup places(cur[p].writes["Service"])
      BY <1>3, <1>5, <2>0, <2>1, <3>1, PlacesCommitted
    <3>4. Places(n)' = 1 .. cur[p].done
      BY <3>2, <3>3
    <3>. QED
      BY <3>2, <3>4 DEF Places
  <2>3. CASE WritesService(p, {})
    <3>1. places(cur'[p].writes["Service"]) = {cur[p].done + 1}
      BY <2>3 DEF WritesService
    <3>2. cur'[p].done = cur[p].done + 1
      BY <2>3 DEF WritesService
    <3>. HIDE DEF places
    <3>. QED
      BY <1>3, <1>5, <2>0, <2>2, <3>1, <3>2
  <2>4. CASE cur'[p].done = cur[p].done /\ cur'[p].writes["Service"] = {}
    <3>1. places(cur'[p].writes["Service"]) = {}
      BY <2>4
    <3>. HIDE DEF places
    <3>. QED
      BY <1>3, <1>5, <2>0, <2>2, <2>4, <3>1
  <2>. QED
    BY <1>5, <2>3, <2>4 DEF Alters
<1>6. CASE q = p /\ (Commits(p) \/ Drops(p))
  BY <1>6 DEF Commits, Drops, Active
<1>. QED
  BY <1>1, <1>2, <1>4, <1>5, <1>6 DEF Effect

\* The services of a request are written by its handler.
LEMMA OneDeviceStep ==
    ASSUME TypeInv, FreshNumbers, OneDevice, NEW p \in Threads, Effect(p)
    PROVE  OneDevice'
<1>. USE DEF Tables
<1>. SUFFICES ASSUME NEW r \in db'.rows["Service"]
              PROVE  /\ \A s \in db'.rows["Service"] : r.nr = s.nr => r.device = s.device
                     /\ \A q \in Active' : r.nr = cur'[q].nr =>
                          cur'[q].req.op = "Update" /\ r.device = cur'[q].req.device
                     /\ \A g \in granted' : r.nr = g.nr =>
                          g.op = "Update" /\ r.device = g.device
  BY DEF OneDevice
<1>1. \A s \in db'.rows["Service"] :
        \/ s \in db.rows["Service"]
        \/ /\ p \in Active /\ s.nr = cur[p].nr /\ cur[p].req.op = "Update"
           /\ s.device = cur[p].req.device
  BY RowsAfter, WritesNumbers
<1>2. ASSUME NEW s \in db'.rows["Service"], r.nr = s.nr PROVE r.device = s.device
  BY <1>1, <1>2 DEF OneDevice
<1>3. ASSUME NEW q \in Active', r.nr = cur'[q].nr
      PROVE  cur'[q].req.op = "Update" /\ r.device = cur'[q].req.device
  <2>1. CASE Begins(p) /\ q = p
    <3>1. r \in db.rows["Service"] /\ r.nr = requests + 1
      BY <1>3, <2>1 DEF Begins
    <3>. QED
      BY <3>1, NumbersUsed
  <2>2. CASE ~(Begins(p) /\ q = p)
    <3>1. q \in Active /\ cur'[q].req = cur[q].req /\ cur'[q].nr = cur[q].nr
      <4>1. CASE q # p
        BY <4>1, AlteredGrows, ActiveAfter
      <4>2. CASE q = p
        <5>1. ~Commits(p) /\ ~Drops(p)
          BY <4>2 DEF Commits, Drops, Active
        <5>. QED
          BY <2>2, <4>2, <5>1 DEF Effect, Passes, Numbered, Alters, Continues
      <4>. QED
        BY <4>1, <4>2
    <3>2. p \in Active /\ cur[p].nr = cur[q].nr => p = q
      BY <3>1, TypeInvParts DEF TypeParts, DistinctNumbers
    <3>. QED
      BY <1>1, <1>3, <3>1, <3>2 DEF OneDevice
  <2>. QED
    BY <2>1, <2>2
<1>4. ASSUME NEW g \in granted', r.nr = g.nr PROVE g.op = "Update" /\ r.device = g.device
  <2>1. CASE g \in granted
    <3>1. r \in db.rows["Service"]
      BY <1>1, <1>4, <2>1 DEF FreshNumbers
    <3>. QED
      BY <1>4, <2>1, <3>1 DEF OneDevice
  <2>2. CASE g \notin granted
    <3>1. p \in Active /\ g = NewGrant(p)
      BY <2>2, GrantsAfter
    <3>2. cur[p].req.op = "Update" /\ r.device = cur[p].req.device
      BY <1>1, <1>4, <3>1 DEF OneDevice, NewGrant
    <3>. QED
      BY <3>1, <3>2 DEF NewGrant
  <2>. QED
    BY <2>1, <2>2
<1>. QED
  BY <1>2, <1>3, <1>4

\* A grant is of rows that are committed with it, and no row of it is deleted
\* but by the Leave of its device.
LEMMA AcksStoredStep ==
    ASSUME TypeInv, FreshNumbers, WholeUpdates, OneDevice, AcksStored,
           NEW p \in Threads, Effect(p)
    PROVE  AcksStored'
<1>. USE DEF Tables
<1>. DEFINE stored(rows, g) == \E r \in rows : r.nr = g.nr /\ r.id = g.id
<1>1. \A g \in granted :
        \/ g.op = "Join" /\ stored(db.rows["Device"], g)
        \/ g.op = "Request" /\ stored(db.rows["Request"], g)
        \/ g.op = "Update" /\ (g.nr \in altered \cap stranded \/ Places(g.nr) = 1 .. g.services)
  BY DEF AcksStored
<1>. SUFFICES ASSUME NEW g \in granted'
              PROVE  \/ g.op = "Join" /\ stored(db'.rows["Device"], g)
                     \/ g.op = "Request" /\ stored(db'.rows["Request"], g)
                     \/ g.op = "Update" /\
                          (g.nr \in altered' \cap stranded' \/ Places(g.nr)' = 1 .. g.services)
  BY DEF AcksStored, Places
<1>2. CASE g \in granted /\ g.op = "Join"
  <2>1. PICK r \in db.rows["Device"] : r.nr = g.nr /\ r.id = g.id
    BY <1>1, <1>2
  <2>2. r.device = r.id
    BY <2>1 DEF TypeInv, SmallIDs
  <2>3. r \in db'.rows["Device"]
    <3>1. g \in granted' /\ ~(Commits(p) /\ cur[p].req.op = "Leave" /\ g.id = cur[p].req.device)
      BY <1>2, FreshNumbers, GrantsAfter DEF NewGrant, FreshNumbers
    <3>. QED
      BY <2>1, <2>2, <3>1, RowsStay
  <2>. QED
    BY <1>2, <2>1, <2>3
<1>3. CASE g \in granted /\ g.op = "Request"
  <2>1. PICK r \in db.rows["Request"] : r.nr = g.nr /\ r.id = g.id
    BY <1>1, <1>3
  <2>2. r \in db'.rows["Request"]
    BY <2>1, RowsStay DEF DeletedTables
  <2>. QED
    BY <1>3, <2>1, <2>2
<1>4. CASE g \in granted /\ g.op = "Update"
  <2>1. CASE g.nr \in altered \cap stranded
    BY <1>4, <2>1, AlteredGrows, StrandedGrows
  <2>2. CASE g.nr \notin altered \cap stranded
    <3>1. ~(Commits(p) /\ cur[p].req.op = "Leave" /\ g.device = cur[p].req.device)
      BY <1>4, GrantsAfter DEF NewGrant, FreshNumbers
    <3>2. \A r \in db.rows["Service"] : r.nr = g.nr => r \in db'.rows["Service"]
      BY <1>4, <3>1, RowsStay DEF OneDevice
    <3>3. \A r \in db'.rows["Service"] : r.nr = g.nr => r \in db.rows["Service"]
      BY <1>4, RowsAfter DEF FreshNumbers
    <3>4. Places(g.nr)' = Places(g.nr)
      BY <3>2, <3>3 DEF Places
    <3>. QED
      BY <1>1, <1>4, <2>2, <3>4
  <2>. QED
    BY <2>1, <2>2
<1>5. CASE g \notin granted
  <2>1. /\ Commits(p) /\ p \in Active /\ g = NewGrant(p) /\ cur[p].req.op # "Leave"
        /\ cur[p].req.op = "Join" => cur[p].req.interfaces
    BY <1>5, GrantsAfter
  <2>2. /\ HandlerOK(p, cur[p]) /\ cur[p].req.op \in {"Join", "Update", "Request"}
        /\ cur[p].done \in Nat
    BY <2>1, ActiveHandlerOK, HandlerFields, RequestFields
  <2>3. \A t \in Tables : db'.rows[t] = db.rows[t] \cup cur[p].writes[t]
    BY <2>1 DEF Commits, Written, Committed
  <2>4. CASE cur[p].req.op = "Join"
    <3>1. OwnRow(cur[p]) \in db'.rows["Device"]
      BY <2>1, <2>2, <2>3, <2>4 DEF HandlerOK, WritesOK
    <3>. QED
      BY <2>1, <2>4, <3>1 DEF OwnRow, NewGrant
  <2>5. CASE cur[p].req.op = "Request"
    <3>1. OwnRow(cur[p]) \in db'.rows["Request"]
      BY <2>2, <2>3, <2>5 DEF HandlerOK, WritesOK
    <3>. QED
      BY <2>1, <2>5, <3>1 DEF OwnRow, NewGrant
  <2>6. CASE cur[p].req.op = "Update" /\ g.nr \notin altered' \cap stranded'
    <3>1. g.nr = cur[p].nr /\ g.nr \notin altered \cap stranded /\ g.services = cur[p].done
      BY <2>1, <2>6, AlteredGrows, StrandedGrows DEF NewGrant
    <3>2. Places(g.nr)' = Places(g.nr) \cup {r.place : r \in cur[p].writes["Service"]}
      BY <2>1, <2>3, <3>1, PlacesCommitted
    <3>3. Places(g.nr) \cup {r.place : r \in cur[p].writes["Service"]} = 1 .. g.services
      BY <2>1, <2>6, <3>1 DEF WholeUpdates
    <3>. QED
      BY <2>1, <2>6, <3>2, <3>3 DEF NewGrant
  <2>. QED
    BY <2>1, <2>2, <2>4, <2>5, <2>6 DEF NewGrant
<1>. QED
  BY <1>1, <1>2, <1>3, <1>4, <1>5


-----------------------------------------------------------------------------
(***************************************************************************)
(* IDs that are given out twice.                                           *)
(***************************************************************************)
\* A handler begins above the IDs of all it sees, and what is granted after
\* that has a number it does not see.
LEMMA GreaterThanSeenStep ==
    ASSUME TypeInv, FreshNumbers, AcksStored, GreaterThanSeen, NEW p \in Threads, Effect(p)
    PROVE  GreaterThanSeen'
<1>. SUFFICES ASSUME NEW q \in Active', NEW k \in granted',
                     k.op = cur'[q].req.op, k.nr \in cur'[q].seen,
                     k.op = "Join" \/ (k.op = "Request" /\ Per(q))
              PROVE  k.id < cur'[q].id
  BY DEF GreaterThanSeen
<1>1. CASE Begins(p) /\ q = p
  <2>1. k \in granted
    BY <1>1 DEF Begins, history
  <2>2. CASE k.op = "Join"
    <3>1. PICK r \in db.rows["Device"] : r.id = k.id
      BY <2>1, <2>2 DEF AcksStored
    <3>2. \A d \in db.rows["Device"] : d.id < cur'[p].id
      BY <1>1, <2>2 DEF Begins
    <3>. QED
      BY <1>1, <3>1, <3>2
  <2>3. CASE k.op = "Request"
    <3>1. PICK r \in db.rows["Request"] : r.id = k.id
      BY <2>1, <2>3 DEF AcksStored
    <3>2. \A d \in db.rows["Request"] : d.id < cur'[p].id
      BY <1>1, <2>3 DEF Begins
    <3>. QED
      BY <1>1, <3>1, <3>2
  <2>. QED
    BY <2>2, <2>3
<1>2. CASE ~(Begins(p) /\ q = p)
  <2>1. q \in Active /\ cur'[q].req = cur[q].req /\ cur'[q].id = cur[q].id
                     /\ cur'[q].seen = cur[q].seen
    <3>1. CASE q # p
      BY <3>1, AlteredGrows, ActiveAfter
    <3>2. CASE q = p
      <4>1. ~Commits(p) /\ ~Drops(p)
        BY <3>2 DEF Commits, Drops, Active
      <4>. QED
        BY <1>2, <3>2, <4>1 DEF Effect, Passes, Numbered, Alters, Continues
    <3>. QED
      BY <3>1, <3>2
  <2>2. k \in granted
    BY <2>1, GrantsAfter DEF FreshNumbers, NewGrant
  <2>. QED
    BY <2>1, <2>2 DEF GreaterThanSeen
<1>. QED
  BY <1>1, <1>2

\* What was seen when a handler began is below the ID it is granted.
LEMMA SameIDStep ==
    ASSUME TypeInv, FreshNumbers, GreaterThanSeen, SameIDOnlyByRace,
           NEW p \in Threads, Effect(p)
    PROVE  SameIDOnlyByRace'
<1>. SUFFICES ASSUME NEW g \in granted', NEW k \in granted',
                     g.op = k.op, k.nr \in g.seen,
                     g.op = "Join" \/ (g.op = "Request" /\ g.process \in SocketIO)
              PROVE  g.id # k.id
  BY DEF SameIDOnlyByRace
<1>1. CASE g \in granted
  <2>1. k \in granted
    BY <1>1, GrantsAfter DEF FreshNumbers, NewGrant
  <2>. QED
    BY <1>1, <2>1 DEF SameIDOnlyByRace
<1>2. CASE g \notin granted
  <2>1. p \in Active /\ g = NewGrant(p)
    BY <1>2, GrantsAfter
  <2>2. /\ g.op = cur[p].req.op /\ g.nr = cur[p].nr /\ g.id = cur[p].id
        /\ g.process = ProcessOf[p] /\ g.seen = cur[p].seen
    BY <2>1 DEF NewGrant
  <2>3. cur[p].nr \notin cur[p].seen
    BY <2>1 DEF FreshNumbers
  <2>4. k \in granted
    BY <2>2, <2>3, GrantsAfter DEF NewGrant
  <2>5. k.id < cur[p].id
    BY <2>1, <2>2, <2>4 DEF GreaterThanSeen, Per
  <2>6. k.id \in Nat /\ cur[p].id \in Nat
    BY <2>1, <2>4, TypeInvParts, ActiveHandlerOK, HandlerFields DEF TypeParts, HistoryOK, Grant
  <2>. QED
    BY <2>2, <2>5, <2>6
<1>. QED
  BY <1>1, <1>2

-----------------------------------------------------------------------------
(***************************************************************************)
(* Whose the rows are.                                                     *)
(***************************************************************************)
\* A device that leaves strands the Updates of the others that are under way.
LEMMA DevicesOfUpdatesStep ==
    ASSUME TypeInv, DevicesOfUpdates, NEW p \in Threads, Effect(p)
    PROVE  DevicesOfUpdates'
<1>. SUFFICES ASSUME NEW q \in Active', cur'[q].req.op = "Update", cur'[q].pc # "refused"
              PROVE  \/ cur'[q].nr \in stranded'
                     \/ \E d \in db'.rows["Device"] :
                          d.device = cur'[q].req.device /\ d.nr < cur'[q].nr
  BY DEF DevicesOfUpdates
<1>1. CASE Begins(p) /\ q = p
  <2>1. PICK d \in db.rows["Device"] : d.device = cur'[p].req.device
    BY <1>1 DEF Begins
  <2>2. requests \in Nat /\ d.nr \in 1 .. requests
    BY NumbersUsed DEF Tables
  <2>. QED
    BY <1>1, <2>1, <2>2 DEF Begins
<1>2. CASE ~(Begins(p) /\ q = p)
  <2>1. CASE q # p
    <3>1. q \in Active /\ cur'[q] = cur[q]
      BY <2>1, AlteredGrows, ActiveAfter
    <3>2. CASE cur[q].nr \in stranded
      BY <3>1, <3>2, StrandedGrows
    <3>3. CASE cur[q].nr \notin stranded
      <4>1. PICK d \in db.rows["Device"] : d.device = cur[q].req.device /\ d.nr < cur[q].nr
        BY <3>1, <3>3 DEF DevicesOfUpdates
      <4>2. CASE d \in db'.rows["Device"]
        BY <3>1, <4>1, <4>2
      <4>3. CASE d \notin db'.rows["Device"]
        <5>1. Commits(p) /\ cur[p].req.op = "Leave" /\ cur[q].req.device = cur[p].req.device
          BY <4>1, <4>3, RowsStay DEF Tables
        <5>2. q \in Threads /\ cur[q] # Idle /\ cur[q].req.op = "Update"
          BY <3>1 DEF Active
        <5>3. cur[q].nr \in Strands(p, cur[p])
          BY <5>1, <5>2 DEF Strands
        <5>. QED
          BY <3>1, <5>1, <5>3, StrandedGrows
      <4>. QED
        BY <4>2, <4>3
    <3>. QED
      BY <3>2, <3>3
  <2>2. CASE q = p
    <3>1. Passes(p) \/ Numbered(p) \/ Alters(p)
      BY <1>2, <2>2 DEF Effect, Commits, Drops, Active
    <3>2. /\ p \in Active /\ cur'[p].req = cur[p].req /\ cur'[p].nr = cur[p].nr
          /\ cur[p].pc # "refused" /\ ~(Commits(p) /\ p \in Active)
      BY <2>2, <3>1 DEF Passes, Numbered, Alters, Continues, Commits, Active
    <3>3. \A d \in db.rows["Device"] : d \in db'.rows["Device"]
      BY <3>2, RowsStay DEF Tables
    <3>. QED
      BY <2>2, <3>2, <3>3, StrandedGrows DEF DevicesOfUpdates
  <2>. QED
    BY <2>1, <2>2
<1>. QED
  BY <1>1, <1>2

\* Rows of one number are written by one handler.
LEMMA JoinedTogetherStep ==
    ASSUME TypeInv, FreshNumbers, JoinedTogether, NEW p \in Threads, Effect(p)
    PROVE  JoinedTogether'
<1>. SUFFICES ASSUME NEW d \in db'.rows["Device"], NEW n \in db'.rows["Neighbor"], d.nr = n.nr
              PROVE  d.device = n.device
  BY DEF JoinedTogether
<1>. USE DEF Tables
<1>1. CASE d \in db.rows["Device"] /\ n \in db.rows["Neighbor"]
  BY <1>1 DEF JoinedTogether
<1>2. CASE d \in db.rows["Device"] /\ n \notin db.rows["Neighbor"]
  BY <1>2, RowsAfter DEF FreshNumbers
<1>3. CASE d \notin db.rows["Device"] /\ n \in db.rows["Neighbor"]
  BY <1>3, RowsAfter DEF FreshNumbers
<1>4. CASE d \notin db.rows["Device"] /\ n \notin db.rows["Neighbor"]
  <2>1. p \in Active /\ d \in cur[p].writes["Device"] /\ n \in cur[p].writes["Neighbor"]
    BY <1>4, RowsAfter
  <2>. QED
    BY <2>1, WritesNumbers
<1>. QED
  BY <1>1, <1>2, <1>3, <1>4

\* A service goes with its device, or was stranded by its leaving.
LEMMA ServicesOfMembersStep ==
    ASSUME TypeInv, DevicesOfUpdates, RowsOfMembers, NEW p \in Threads, Effect(p),
           NEW s \in db'.rows["Service"]
    PROVE  \/ s.nr \in stranded'
           \/ \E d \in db'.rows["Device"] : d.device = s.device /\ d.nr < s.nr
<1>. USE DEF Tables
<1>1. CASE s \in db.rows["Service"]
  <2>1. CASE s.nr \in stranded
    BY <2>1, StrandedGrows
  <2>2. CASE s.nr \notin stranded
    <3>1. PICK d \in db.rows["Device"] : d.device = s.device /\ d.nr < s.nr
      BY <1>1, <2>2 DEF RowsOfMembers
    <3>2. CASE d \notin db'.rows["Device"]
      <4>1. Commits(p) /\ cur[p].req.op = "Leave" /\ s.device = cur[p].req.device
        BY <3>1, <3>2, RowsStay
      <4>2. s \notin db'.rows["Service"]
        BY <4>1 DEF Commits, Written, DeletedTables
      <4>. QED
        BY <4>2
    <3>. QED
      BY <3>1, <3>2
  <2>. QED
    BY <2>1, <2>2
<1>2. CASE s \notin db.rows["Service"]
  <2>1. /\ p \in Active /\ s \in cur[p].writes["Service"] /\ s.nr = cur[p].nr
        /\ Alters(p) \/ (Commits(p) /\ cur[p].req.op # "Leave")
    BY <1>2, RowsAfter
  <2>2. cur[p].req.op = "Update" /\ s.device = cur[p].req.device
    BY <2>1, WritesNumbers
  <2>3. cur[p].pc # "refused"
    BY <2>1 DEF Alters, Commits
  <2>4. \A d \in db.rows["Device"] : d \in db'.rows["Device"]
    BY <2>2, RowsStay
  <2>. QED
    BY <2>1, <2>2, <2>3, <2>4, StrandedGrows DEF DevicesOfUpdates
<1>. QED
  BY <1>1, <1>2

\* A neighbor goes with its device, or was stranded by its leaving.
LEMMA NeighborsOfMembersStep ==
    ASSUME TypeInv, JoinedTogether, RowsOfMembers, NEW p \in Threads, Effect(p),
           NEW n \in db'.rows["Neighbor"]
    PROVE  n.nr \in stranded' \/ \E d \in db'.rows["Device"] : d.nr = n.nr
<1>. USE DEF Tables
<1>1. CASE n \in db.rows["Neighbor"]
  <2>1. CASE n.nr \in stranded
    BY <2>1, StrandedGrows
  <2>2. CASE n.nr \notin stranded
    <3>1. PICK d \in db.rows["Device"] : d.nr = n.nr
      BY <1>1, <2>2 DEF RowsOfMembers
    <3>2. d.device = n.device
      BY <1>1, <3>1 DEF JoinedTogether
    <3>3. CASE d \notin db'.rows["Device"]
      <4>1. Commits(p) /\ cur[p].req.op = "Leave" /\ d.device = cur[p].req.device
        BY <3>3, RowsStay
      <4>2. Per(p) => n \notin db'.rows["Neighbor"]
        <5>1. Per(p) => "Neighbor" \in DeletedTables(p)
          BY DEF DeletedTables
        <5>2. db'.rows["Neighbor"] =
                {r \in db.rows["Neighbor"] :
                   ~("Neighbor" \in DeletedTables(p) /\ r.device = cur[p].req.device)}
          BY <4>1 DEF Commits, Written
        <5>. QED
          BY <3>2, <4>1, <5>1, <5>2
      <4>3. ~Per(p) => d.nr \in Strands(p, cur[p])
        BY <4>1 DEF Strands
      <4>. QED
        BY <3>1, <4>1, <4>2, <4>3, StrandedGrows
    <3>. QED
      BY <3>1, <3>3
  <2>. QED
    BY <2>1, <2>2
<1>2. CASE n \notin db.rows["Neighbor"]
  <2>1. /\ p \in Active /\ n \in cur[p].writes["Neighbor"] /\ n.nr = cur[p].nr
        /\ Commits(p) /\ cur[p].req.op # "Leave"
    BY <1>2, RowsAfter
  <2>2. cur[p].req.op = "Join" /\ cur[p].req \in Requests /\ WritesOK(p, cur[p])
    BY <2>1, WritesNumbers, ActiveHandlerOK, HandlerFields DEF HandlerOK
  <2>3. CASE cur[p].req.interfaces
    <3>1. OwnRow(cur[p]) \in cur[p].writes["Device"]
      BY <2>2, <2>3 DEF WritesOK
    <3>2. OwnRow(cur[p]) \in db'.rows["Device"]
      BY <2>1, <3>1 DEF Commits, Written, Committed
    <3>. QED
      BY <2>1, <3>2 DEF OwnRow
  <2>4. CASE ~cur[p].req.interfaces
    <3>1. cur[p].nr \in Strands(p, cur[p])
      BY <2>2, <2>4 DEF Strands
    <3>. QED
      BY <2>1, <3>1, StrandedGrows
  <2>. QED
    BY <2>3, <2>4
<1>. QED
  BY <1>1, <1>2

\* Both together.
LEMMA RowsOfMembersStep ==
    ASSUME TypeInv, DevicesOfUpdates, JoinedTogether, RowsOfMembers,
           NEW p \in Threads, Effect(p)
    PROVE  RowsOfMembers'
  BY ServicesOfMembersStep, NeighborsOfMembersStep DEF RowsOfMembers

-----------------------------------------------------------------------------
(***************************************************************************)
(* The numbers of services.                                                *)
(***************************************************************************)
\* The numbers in use are numbers.
LEMMA NumberTypes ==
    ASSUME TypeInv
    PROVE  /\ manageNum \in [Processes -> Nat] /\ runs \in [Processes -> Nat]
           /\ \A r \in Stored : /\ r \in Rows("Service") /\ r.id \in Nat
                                /\ r.by[1] \in Processes /\ r.by[2] \in Nat
           /\ \A q \in Threads : /\ ProcessOf[q] \in Processes /\ Counter(q) \in Nat
                                 /\ Run(q)[1] = ProcessOf[q]
                                 /\ Run(q)[2] = runs[ProcessOf[q]]
           /\ \A q \in Active : cur[q].number \in Nat
<1>1. TypeParts
  BY TypeInvParts
<1>2. manageNum \in [Processes -> Nat] /\ runs \in [Processes -> Nat]
  BY <1>1 DEF TypeParts, HistoryOK
<1>3. \A r \in db.rows["Service"] : r \in Rows("Service")
  BY <1>1 DEF TypeParts, RowsOK, Tables
<1>4. \A q \in Active : \A r \in cur[q].writes["Service"] : r \in Rows("Service")
  BY ActiveHandlerOK DEF HandlerOK, WritesOK
<1>5. \A r \in Rows("Service") : r.id \in Nat /\ r.by[1] \in Processes /\ r.by[2] \in Nat
  BY DEF Rows
<1>6. \A q \in Active : cur[q].number \in Nat
  BY ActiveHandlerOK, HandlerFields
<1>7. \A r \in Stored : r \in Rows("Service")
  BY <1>3, <1>4 DEF Stored
<1>. QED
  BY <1>2, <1>5, <1>6, <1>7, ProcessesAssumption DEF Counter, Run

\* A step adds at most one service to those that are stored or written.
LEMMA StoredAfter ==
    ASSUME TypeInv, NEW p \in Threads, Effect(p)
    PROVE  \/ Stored' \subseteq Stored
           \/ /\ Numbered(p) \/ Alters(p)
              /\ cur'[p].pc \in {"services", "commit"}
              /\ \E n \in Rows("Service") :
                   /\ Stored' \subseteq Stored \cup {n}
                   /\ n.nr = cur[p].nr /\ n.by = Run(p) /\ n.id = cur'[p].number
<1>1. \A r \in db'.rows["Service"] : r \in Stored
  BY RowsAfter DEF Stored, Tables
<1>2. \A q \in Active' \ {p} : cur'[q].writes["Service"] \subseteq Stored
  BY AlteredGrows, ActiveAfter DEF Stored
<1>3. p \in Active => cur[p].writes["Service"] \subseteq Stored
  BY DEF Stored
<1>4. ASSUME p \in Active' => cur'[p].writes["Service"] \subseteq Stored
      PROVE  Stored' \subseteq Stored
  BY <1>1, <1>2, <1>4 DEF Stored
<1>5. ASSUME NEW old, old \subseteq cur[p].writes["Service"], p \in Active,
             WritesService(p, old)
      PROVE  /\ cur'[p].pc \in {"services", "commit"}
             /\ \E n \in Rows("Service") :
                  /\ Stored' \subseteq Stored \cup {n}
                  /\ n.nr = cur[p].nr /\ n.by = Run(p) /\ n.id = cur'[p].number
  <2>1. PICK n \in Rows("Service") :
               /\ cur'[p].writes["Service"] = old \cup {n}
               /\ n.nr = cur[p].nr /\ n.by = Run(p) /\ n.id = cur'[p].number
    BY <1>5 DEF WritesService
  <2>2. \A q \in Active' : cur'[q].writes["Service"] \subseteq Stored \cup {n}
    BY <1>2, <1>3, <1>5, <2>1
  <2>3. Stored' \subseteq Stored \cup {n}
    BY <1>1, <2>2 DEF Stored
  <2>. QED
    BY <1>5, <2>1, <2>3 DEF WritesService
<1>6. CASE Begins(p)
  BY <1>4, <1>6 DEF Begins
<1>7. CASE Passes(p)
  BY <1>3, <1>4, <1>7 DEF Passes, Continues
<1>8. CASE Numbered(p)
  BY <1>3, <1>4, <1>5, <1>8 DEF Numbered, Continues
<1>9. CASE Alters(p)
  <2>1. p \in Active
    BY <1>9 DEF Alters, Continues
  <2>2. CASE WritesService(p, {})
    BY <1>5, <1>9, <2>1, <2>2
  <2>3. CASE cur'[p].writes["Service"] = {}
    BY <1>4, <2>3
  <2>. QED
    BY <1>9, <2>2, <2>3 DEF Alters
<1>10. CASE Commits(p) \/ Drops(p)
  BY <1>4, <1>10 DEF Commits, Drops, Active
<1>. QED
  BY <1>6, <1>7, <1>8, <1>9, <1>10 DEF Effect

\* Who once overlapped, did; no step of a handler begins another run.
LEMMA OverlappedGrows ==
    ASSUME NEW p \in Threads, Effect(p)
    PROVE  overlapped \subseteq overlapped' /\ runs' = runs
  BY DEF Effect, Begins, Passes, Numbered, Alters, Commits, Drops, Continues, history

\* An Update that begins beside others of its process is noted with them.
LEMMA LoneUpdatesStep ==
    ASSUME LoneUpdates, NEW p \in Threads, Effect(p)
    PROVE  LoneUpdates'
<1>. SUFFICES ASSUME NEW q \in Active', NEW s \in Active', q # s,
                     ProcessOf[q] = ProcessOf[s],
                     cur'[q].req.op = "Update", cur'[s].req.op = "Update"
              PROVE  cur'[q].nr \in overlapped'
  BY DEF LoneUpdates
<1>1. \A t \in Active' : t # p => t \in Active /\ cur'[t] = cur[t]
  BY AlteredGrows, ActiveAfter
<1>2. CASE Begins(p) /\ q = p
  <2>1. s \in Threads /\ cur[s] # Idle /\ cur[s].req.op = "Update"
    BY <1>1, <1>2 DEF Active
  <2>2. requests + 1 \in Overlaps(p, cur'[p].req)
    BY <1>2, <2>1 DEF Overlaps
  <2>. QED
    BY <1>2, <2>2 DEF Begins
<1>3. CASE Begins(p) /\ s = p
  <2>1. q \in Threads /\ cur[q] # Idle /\ cur[q].req.op = "Update" /\ cur'[q] = cur[q]
    BY <1>1, <1>3 DEF Active
  <2>2. cur[q].nr \in Overlaps(p, cur'[p].req)
    BY <1>3, <2>1 DEF Overlaps
  <2>. QED
    BY <1>3, <2>1, <2>2 DEF Begins
<1>4. CASE ~(Begins(p) /\ p \in {q, s})
  <2>1. \A t \in {q, s} : /\ t \in Active /\ cur'[t].req = cur[t].req
                          /\ cur'[t].nr = cur[t].nr
    BY <1>1, <1>4 DEF Effect, Passes, Numbered, Alters, Continues, Commits, Drops, Active
  <2>. QED
    BY <2>1, OverlappedGrows DEF LoneUpdates
<1>. QED
  BY <1>2, <1>3, <1>4

\* Only a later Update of the process adds services of a later one.
LEMMA LastAloneStep ==
    ASSUME TypeInv, LoneUpdates, LastAlone, NEW p \in Threads, Effect(p)
    PROVE  LastAlone'
<1>1. overlapped \subseteq overlapped' /\ runs' = runs /\ \A q : Run(q)' = Run(q)
  BY OverlappedGrows DEF Run
<1>. SUFFICES ASSUME NEW q \in Active', cur'[q].nr \notin overlapped',
                     cur'[q].req.op = "Update", NEW r \in Stored', r.by = Run(q)
              PROVE  r.nr <= cur'[q].nr
  BY <1>1 DEF LastAlone, Alone
<1>2. \A s \in Active' : s # p => s \in Active /\ cur'[s] = cur[s]
  BY AlteredGrows, ActiveAfter
<1>3. CASE Begins(p) /\ q = p
  <2>1. r \in Stored /\ cur'[p].nr = requests + 1
    BY <1>3, StoredAfter DEF Begins, Numbered, Alters, Continues, Active
  <2>2. r.nr \in 1 .. requests /\ requests \in Nat
    BY <2>1, NumberTypes, TypeInvParts DEF Rows, TypeParts, BoundsOK
  <2>. QED
    BY <1>3, <2>1, <2>2
<1>4. CASE ~(Begins(p) /\ q = p)
  <2>1. q \in Active /\ cur'[q].req = cur[q].req /\ cur'[q].nr = cur[q].nr
    BY <1>2, <1>4 DEF Effect, Passes, Numbered, Alters, Continues, Commits, Drops, Active
  <2>2. CASE r \in Stored
    BY <1>1, <2>1, <2>2 DEF LastAlone, Alone
  <2>3. CASE r \notin Stored
    <3>1. /\ Numbered(p) \/ Alters(p)
          /\ r.nr = cur[p].nr /\ r.by = Run(p)
      BY <2>3, StoredAfter
    <3>2. p \in Active /\ cur[p].pc \in {"number", "alter"}
      BY <3>1 DEF Numbered, Alters, Continues
    <3>3. cur[p].req.op = "Update"
      BY <3>2, ActiveHandlerOK DEF HandlerOK, Control
    <3>4. ProcessOf[p] = ProcessOf[q]
      BY <2>1, <3>1, NumberTypes DEF Active
    <3>5. p = q
      BY <1>1, <2>1, <3>2, <3>3, <3>4 DEF LoneUpdates
    <3>6. cur[p].nr \in Nat
      BY <3>2, TypeInvParts, ActiveHandlerOK, HandlerFields DEF HandlerOK
    <3>. QED
      BY <2>1, <3>1, <3>5, <3>6
  <2>. QED
    BY <2>2, <2>3
<1>. QED
  BY <1>3, <1>4

\* The service that p adds has a number above all that its run gave out alone,
\* and when p runs alone itself, one that is not above the count.
LEMMA NewNumber ==
    ASSUME TypeInv, LastNumbers, NEW p \in Threads, p \in Active, Numbered(p) \/ Alters(p)
    PROVE  /\ cur'[p].number \in Nat /\ (Alone(p) => cur'[p].number <= Counter(p))
           /\ cur'[p].number # 0 =>
                \A r \in LoneRows : r.by = Run(p) => r.id < cur'[p].number
<1>1. NumbersOf(p) /\ (Alone(p) /\ cur[p].pc = "alter" => cur[p].number <= Counter(p))
  BY DEF LastNumbers
<1>2. Counter(p) \in Nat /\ cur[p].number \in Nat
  BY <1>1, NumberTypes
<1>3. CASE Numbered(p)
  BY <1>1, <1>2, <1>3 DEF Numbered, NumbersOf
<1>4. CASE Alters(p)
  BY <1>1, <1>2, <1>4 DEF Alters, NumbersOf
<1>. QED
  BY <1>3, <1>4

\* The count is set to more than the numbers that were given out alone.
LEMMA CountAfter ==
    ASSUME TypeInv, Numbers, LastNumbers, NEW p \in Threads, Effect(p)
    PROVE  \A r \in LoneRows : r.by[2] = runs[r.by[1]] => r.id <= manageNum'[r.by[1]]
<1>. SUFFICES ASSUME NEW r \in LoneRows, r.by[2] = runs[r.by[1]]
              PROVE  r.id <= manageNum'[r.by[1]]
  OBVIOUS
<1>1. r.id <= manageNum[r.by[1]] /\ r \in Rows("Service") /\ r.id \in Nat
  BY NumberTypes DEF Numbers, LoneRows
<1>2. CASE manageNum' = manageNum
  BY <1>1, <1>2
<1>3. CASE Passes(p) /\ Counts(p)
  <2>1. p \in Active /\ cur[p].pc = "increment" /\ cur[p].number \in Nat
    BY <1>3, NumberTypes DEF Passes, Counts, Continues
  <2>2. CASE r.by[1] = ProcessOf[p]
    <3>1. r.by = <<r.by[1], r.by[2]>>
      BY <1>1 DEF Rows
    <3>2. r.by = Run(p)
      BY <2>2, <3>1 DEF Run
    <3>3. r.id <= cur[p].number
      BY <2>1, <3>2 DEF LastNumbers, NumbersOf
    <3>4. manageNum'[r.by[1]] = cur[p].number + 1
      BY <1>3, <2>2, NumberTypes DEF Counts
    <3>. QED
      BY <1>1, <2>1, <3>3, <3>4
  <2>3. CASE r.by[1] # ProcessOf[p]
    BY <1>1, <1>3, <2>3, NumberTypes DEF Counts
  <2>. QED
    BY <2>2, <2>3
<1>. QED
  BY <1>2, <1>3 DEF Effect, Begins, Passes, KeepsCount, Numbered, Alters, Commits, Drops,
                    history

\* A new number is above those that were counted alone.
LEMMA NumbersStep ==
    ASSUME TypeInv, LastAlone, Numbers, LastNumbers, NEW p \in Threads, Effect(p)
    PROVE  Numbers'
<1>1. overlapped \subseteq overlapped' /\ runs' = runs
  BY OverlappedGrows
<1>2. CASE Stored' \subseteq Stored
  <2>1. LoneRows' \subseteq LoneRows
    BY <1>1, <1>2 DEF LoneRows
  <2>2. \A r \in LoneRows' : r.by[2] = runs'[r.by[1]] => r.id <= manageNum'[r.by[1]]
    BY <1>1, <2>1, CountAfter
  <2>3. \A r \in Stored' : r.by[2] <= runs'[r.by[1]]
    BY <1>1, <1>2 DEF Numbers
  <2>4. \A q \in LoneRows', r \in Stored' :
          q # r /\ q.by = r.by /\ q.nr <= r.nr /\ q.id # 0 => q.id # r.id
    BY <1>2, <2>1 DEF Numbers
  <2>. QED
    BY <2>2, <2>3, <2>4 DEF Numbers
<1>3. CASE ~(Stored' \subseteq Stored)
  <2>1. PICK n \in Rows("Service") :
               /\ Numbered(p) \/ Alters(p)
               /\ Stored' \subseteq Stored \cup {n}
               /\ n.nr = cur[p].nr /\ n.by = Run(p) /\ n.id = cur'[p].number
    BY <1>3, StoredAfter
  <2>2. p \in Active /\ manageNum' = manageNum
    BY <2>1 DEF Numbered, Alters, Continues
  <2>3. n.by[1] = ProcessOf[p] /\ n.by[2] = runs[n.by[1]] /\ runs[n.by[1]] \in Nat
    BY <2>1, NumberTypes
  <2>4. \A r \in LoneRows' : r \in LoneRows \/ (r = n /\ Alone(p))
    BY <1>1, <2>1, <2>2 DEF LoneRows, Alone
  <2>5. Alone(p) => n.id \in Nat /\ n.id <= manageNum[n.by[1]]
    BY <2>1, <2>2, <2>3, NewNumber DEF Counter
  <2>6. n.id \in Nat /\ n.id # 0 => \A r \in LoneRows : r.by = n.by => r.id < n.id
    BY <2>1, <2>2, NewNumber
  <2>7. \A r \in Stored' : r.by[2] <= runs'[r.by[1]]
    BY <1>1, <2>1, <2>3 DEF Numbers
  <2>8. \A r \in LoneRows' : r.by[2] = runs'[r.by[1]] => r.id <= manageNum'[r.by[1]]
    BY <1>1, <2>2, <2>4, <2>5 DEF Numbers
  <2>9. \A r \in LoneRows : r.id \in Nat
    BY NumberTypes DEF LoneRows
  <2>10. cur[p].req.op = "Update"
    BY <2>1, <2>2, ActiveHandlerOK DEF HandlerOK, Control, Numbered, Alters
  <2>11. n.id \in Nat /\ cur[p].nr \in Nat /\ \A r \in Stored : r.nr \in Nat
    BY <2>1, <2>2, NumberTypes, TypeInvParts, ActiveHandlerOK, HandlerFields
       DEF HandlerOK, Rows
  <2>12. \A q \in LoneRows', r \in Stored' :
           q # r /\ q.by = r.by /\ q.nr <= r.nr /\ q.id # 0 => q.id # r.id
    <3>. SUFFICES ASSUME NEW q \in LoneRows', NEW r \in Stored', q # r, q.by = r.by,
                         q.nr <= r.nr, q.id # 0
                  PROVE  q.id # r.id
      OBVIOUS
    <3>1. CASE q \in LoneRows /\ r \in Stored
      BY <3>1 DEF Numbers
    <3>2. CASE q \in LoneRows /\ r = n
      BY <2>6, <2>9, <2>11, <3>2
    <3>3. CASE q = n /\ r \in Stored /\ Alone(p)
      <4>1. r.nr <= cur[p].nr
        BY <2>1, <2>2, <2>10, <3>3 DEF LastAlone
      <4>2. r.nr = cur[p].nr
        BY <2>1, <2>11, <3>3, <4>1
      <4>3. r \in LoneRows
        BY <3>3, <4>2 DEF LoneRows, Alone
      <4>. QED
        BY <2>6, <2>9, <2>11, <3>3, <4>3
    <3>. QED
      BY <2>1, <2>4, <3>1, <3>2, <3>3
  <2>. QED
    BY <2>7, <2>8, <2>12 DEF Numbers
<1>. QED
  BY <1>2, <1>3

\* What the handlers of the other threads do leaves an Update that runs alone
\* its count, no other one adds a service that was numbered alone, and no one
\* sets the count back below one.
LEMMA OthersNumbers ==
    ASSUME TypeInv, LoneUpdates, LastNumbers, NEW p \in Threads, Effect(p),
           NEW q \in Active, q # p, cur[q].req.op = "Update", cur'[q] = cur[q]
    PROVE  /\ \A r \in LoneRows' : r.by = Run(q) => r \in LoneRows
           /\ Alone(q)' => Alone(q) /\ Counter(q)' = Counter(q)
           /\ \A r \in LoneRows : r.by = Run(q) /\ r.id < Counter(q) => r.id < Counter(q)'
<1>1. overlapped \subseteq overlapped' /\ q \in Threads
  BY OverlappedGrows DEF Active
<1>2. ASSUME NEW r \in LoneRows', r.by = Run(q), r \notin LoneRows
      PROVE  FALSE
  <2>1. /\ Numbered(p) \/ Alters(p)
        /\ r.nr = cur[p].nr /\ r.by = Run(p) /\ r.nr \notin overlapped
    BY <1>1, <1>2, StoredAfter DEF LoneRows
  <2>2. p \in Active /\ cur[p].pc \in {"number", "alter"}
    BY <2>1 DEF Numbered, Alters, Continues
  <2>3. cur[p].req.op = "Update"
    BY <2>2, ActiveHandlerOK DEF HandlerOK, Control
  <2>4. ProcessOf[p] = ProcessOf[q]
    BY <1>1, <1>2, <2>1, NumberTypes
  <2>. QED
    BY <2>1, <2>2, <2>3, <2>4 DEF LoneUpdates
<1>3. ASSUME Alone(q)'
      PROVE  Alone(q) /\ Counter(q)' = Counter(q)
  <2>1. Alone(q)
    BY <1>1, <1>3 DEF Alone
  <2>2. CASE manageNum' = manageNum
    BY <2>1, <2>2 DEF Counter
  <2>3. CASE Passes(p) /\ Counts(p)
    <3>1. p \in Active /\ cur[p].pc = "increment"
      BY <2>3 DEF Passes, Counts, Continues
    <3>2. cur[p].req.op = "Update"
      BY <3>1, ActiveHandlerOK DEF HandlerOK, Control
    <3>3. ProcessOf[p] # ProcessOf[q]
      BY <2>1, <3>1, <3>2 DEF LoneUpdates, Alone
    <3>. QED
      BY <1>1, <2>1, <2>3, <3>3, NumberTypes DEF Counts, Counter
  <2>. QED
    BY <2>2, <2>3 DEF Effect, Begins, Passes, KeepsCount, Numbered, Alters, Commits, Drops,
                      history
<1>4. ASSUME NEW r \in LoneRows, r.by = Run(q), r.id < Counter(q)
      PROVE  r.id < Counter(q)'
  <2>1. CASE manageNum' = manageNum
    BY <1>4, <2>1 DEF Counter
  <2>2. CASE Passes(p) /\ Counts(p)
    <3>1. p \in Active /\ cur[p].pc = "increment" /\ cur[p].number \in Nat /\ r.id \in Nat
      BY <2>2, NumberTypes DEF Passes, Counts, Continues, LoneRows
    <3>2. CASE ProcessOf[p] = ProcessOf[q]
      <4>1. r.by = Run(p)
        BY <1>4, <3>2 DEF Run
      <4>2. r.id <= cur[p].number
        BY <3>1, <4>1 DEF LastNumbers, NumbersOf
      <4>3. Counter(q)' = cur[p].number + 1
        BY <1>1, <2>2, <3>2, NumberTypes DEF Counts, Counter
      <4>. QED
        BY <3>1, <4>2, <4>3
    <3>3. CASE ProcessOf[p] # ProcessOf[q]
      BY <1>1, <1>4, <2>2, <3>3, NumberTypes DEF Counts, Counter
    <3>. QED
      BY <3>2, <3>3
  <2>. QED
    BY <2>1, <2>2 DEF Effect, Begins, Passes, KeepsCount, Numbered, Alters, Commits, Drops,
                      history
<1>. QED
  BY <1>2, <1>3, <1>4

\* The number of who runs alone stays the last one.
LEMMA LastNumbersStep ==
    ASSUME TypeInv, LoneUpdates, Numbers, LastNumbers, NEW p \in Threads, Effect(p)
    PROVE  LastNumbers'
<1>1. overlapped \subseteq overlapped' /\ runs' = runs /\ \A q : Run(q)' = Run(q)
  BY OverlappedGrows DEF Run
<1>. SUFFICES ASSUME NEW q \in Active'
              PROVE  /\ NumbersOf(q)'
                     /\ Alone(q)' /\ cur'[q].pc = "alter" => cur'[q].number <= Counter(q)'
  BY DEF LastNumbers
<1>2. CASE cur'[q].pc \notin {"increment", "number", "alter"}
  BY <1>2 DEF NumbersOf
<1>3. CASE q # p /\ cur'[q].pc \in {"increment", "number", "alter"}
  <2>1. q \in Active /\ cur'[q] = cur[q] /\ cur[q].pc \in {"increment", "number", "alter"}
    BY <1>3, AlteredGrows, ActiveAfter
  <2>2. cur[q].req.op = "Update"
    BY <2>1, ActiveHandlerOK DEF HandlerOK, Control
  <2>3. /\ \A r \in LoneRows' : r.by = Run(q) => r \in LoneRows
        /\ Alone(q)' => Alone(q) /\ Counter(q)' = Counter(q)
        /\ \A r \in LoneRows : r.by = Run(q) /\ r.id < Counter(q) => r.id < Counter(q)'
    BY <1>3, <2>1, <2>2, OthersNumbers
  <2>4. NumbersOf(q) /\ (Alone(q) /\ cur[q].pc = "alter" => cur[q].number <= Counter(q))
    BY <2>1 DEF LastNumbers
  <2>. QED
    BY <1>1, <2>1, <2>3, <2>4 DEF NumbersOf
<1>4. CASE q = p /\ cur'[p].pc \in {"increment", "number", "alter"}
  <2>1. Passes(p) \/ Numbered(p) \/ Alters(p)
    BY <1>4 DEF Effect, Begins, Commits, Drops, Active
  <2>2. p \in Active /\ cur'[p].nr = cur[p].nr /\ overlapped' = overlapped
    BY <2>1 DEF Passes, Numbered, Alters, Continues
  <2>3. Alone(p)' => Alone(p)
    BY <2>2 DEF Alone
  <2>4. \A r \in LoneRows' : r \in LoneRows
    BY <1>4, <2>2, StoredAfter DEF LoneRows
  <2>5. NumbersOf(p) /\ Counter(p) \in Nat /\ cur[p].number \in Nat
    BY <2>2, NumberTypes DEF LastNumbers
  <2>6. CASE Passes(p) /\ KeepsCount(p)
    <3>1. cur'[p].pc = "increment" /\ cur'[p].number = Counter(p)
      BY <1>4, <2>6 DEF KeepsCount
    <3>2. \A r \in LoneRows : r.by = Run(p) => r.id <= Counter(p)
      BY NumberTypes DEF Numbers, Counter
    <3>. QED
      BY <1>1, <1>4, <2>4, <3>1, <3>2 DEF NumbersOf
  <2>7. CASE Passes(p) /\ Counts(p)
    <3>1. cur'[p].pc = "number" /\ Counter(p)' = cur[p].number + 1
      BY <2>7, NumberTypes DEF Counts, Counter
    <3>2. \A r \in LoneRows : r.by = Run(p) => r.id \in Nat /\ r.id <= cur[p].number
      BY <2>5, <2>7, NumberTypes DEF Counts, NumbersOf, LoneRows
    <3>3. \A r \in LoneRows : r.by = Run(p) => r.id < cur[p].number + 1
      BY <2>5, <3>2
    <3>. QED
      BY <1>1, <1>4, <2>4, <3>1, <3>3 DEF NumbersOf
  <2>8. CASE Numbered(p) \/ Alters(p)
    <3>1. cur'[p].pc = "alter" /\ Counter(p)' = Counter(p)
      BY <1>4, <2>8 DEF Numbered, Alters, WritesService, Counter
    <3>. QED
      BY <1>1, <1>4, <2>2, <2>3, <2>4, <2>8, <3>1, NewNumber DEF NumbersOf
  <2>. QED
    BY <2>1, <2>6, <2>7, <2>8 DEF Passes
<1>. QED
  BY <1>2, <1>3, <1>4

\* Two services that are stored are among those written.
LEMMA NumbersAreDistinct ==
    ASSUME Numbers
    PROVE  LoneUpdatesNumbered
<1>1. \A r \in db.rows["Service"] : r \in Stored /\ (r.nr \notin overlapped => r \in LoneRows)
  BY DEF LoneRows, Stored
<1>. QED
  BY <1>1 DEF Numbers, LoneUpdatesNumbered

-----------------------------------------------------------------------------
(***************************************************************************)
(* The columns.                                                            *)
(***************************************************************************)
\* No column is ever dropped.
LEMMA ColumnsGrow ==
    ASSUME TypeInv, NEW p \in Threads, Effect(p)
    PROVE  /\ db.columns \in Nat /\ db'.columns >= db.columns
           /\ \A q \in Active : cur[q].columns \in Nat
<1>1. db.columns \in Nat
  BY TypeInvParts DEF TypeParts, RowsOK
<1>2. db'.columns = db.columns \/ db'.columns >= db.columns
  BY DEF Effect, Begins, Passes, Numbered, Alters, Commits, Drops
<1>. QED
  BY <1>1, <1>2, ActiveHandlerOK, HandlerFields DEF HandlerOK

\* A service is written only when its columns are there, and no column goes.
LEMMA ColumnsOfWritesStep ==
    ASSUME TypeInv, TypeInv', ColumnsOfWrites, NEW p \in Threads, Effect(p)
    PROVE  ColumnsOfWrites'
<1>. SUFFICES ASSUME NEW q \in Active'
              PROVE  /\ cur'[q].columns <= db'.columns
                     /\ \A r \in cur'[q].writes["Service"] : r.attributes <= db'.columns
  BY DEF ColumnsOfWrites
<1>1. /\ db.columns \in Nat /\ db'.columns \in Nat /\ db'.columns >= db.columns
      /\ \A s \in Active : cur[s].columns \in Nat
  BY ColumnsGrow, TypeInvPartsNext DEF TypeParts, RowsOK
<1>2. \A s \in Active : \A r \in cur[s].writes["Service"] : r.attributes \in Nat
  BY ActiveHandlerOK DEF HandlerOK, WritesOK, Rows
<1>3. \A s \in Active : /\ cur[s].columns <= db'.columns
                        /\ \A r \in cur[s].writes["Service"] : r.attributes <= db'.columns
  BY <1>1, <1>2 DEF ColumnsOfWrites
<1>4. ASSUME NEW old, old \subseteq cur[p].writes["Service"], p \in Active, WritesService(p, old)
      PROVE  \A r \in cur'[p].writes["Service"] : r.attributes <= db'.columns
  <2>1. PICK n \in Rows("Service") :
               /\ cur'[p].writes["Service"] = old \cup {n}
               /\ n.attributes <= cur[p].columns \/ n.attributes <= db'.columns
    BY <1>4 DEF WritesService
  <2>2. n.attributes \in Nat
    BY DEF Rows
  <2>3. n.attributes <= db'.columns
    BY <1>1, <1>3, <1>4, <2>1, <2>2
  <2>. QED
    BY <1>3, <1>4, <2>1, <2>3
<1>5. CASE q # p
  BY <1>3, <1>5, AlteredGrows, ActiveAfter
<1>6. CASE q = p /\ Begins(p)
  BY <1>1, <1>6 DEF Begins
<1>7. CASE q = p /\ Passes(p)
  BY <1>1, <1>3, <1>7 DEF Passes, Continues
<1>8. CASE q = p /\ Numbered(p)
  BY <1>3, <1>4, <1>8 DEF Numbered, Continues
<1>9. CASE q = p /\ Alters(p)
  <2>1. p \in Active /\ cur'[p].columns = cur[p].columns
    BY <1>9 DEF Alters, Continues
  <2>2. CASE WritesService(p, {})
    BY <1>3, <1>4, <1>9, <2>1, <2>2
  <2>3. CASE cur'[p].writes["Service"] = {}
    BY <1>3, <1>9, <2>1, <2>3
  <2>. QED
    BY <1>9, <2>2, <2>3 DEF Alters
<1>10. CASE q = p /\ (Commits(p) \/ Drops(p))
  BY <1>10 DEF Commits, Drops, Active
<1>. QED
  BY <1>5, <1>6, <1>7, <1>8, <1>9, <1>10 DEF Effect

\* What is committed was within the columns when it was written.
LEMMA ColumnsExistStep ==
    ASSUME TypeInv, TypeInv', ColumnsOfWrites, AttributeColumnsExist,
           NEW p \in Threads, Effect(p)
    PROVE  AttributeColumnsExist'
<1>. SUFFICES ASSUME NEW r \in db'.rows["Service"]
              PROVE  r.attributes <= db'.columns
  BY DEF AttributeColumnsExist
<1>. USE DEF Tables
<1>1. db.columns \in Nat /\ db'.columns >= db.columns
  BY ColumnsGrow
<1>2. r.attributes <= db.columns
  BY RowsAfter DEF ColumnsOfWrites, AttributeColumnsExist
<1>3. r.attributes \in Nat /\ db'.columns \in Nat
  <2>1. r \in db.rows["Service"] \/ (p \in Active /\ r \in cur[p].writes["Service"])
    BY RowsAfter
  <2>2. \A s \in db.rows["Service"] : s \in Rows("Service")
    BY TypeInvParts DEF TypeParts, RowsOK
  <2>3. p \in Active => \A s \in cur[p].writes["Service"] : s \in Rows("Service")
    BY ActiveHandlerOK DEF HandlerOK, WritesOK
  <2>4. r \in Rows("Service")
    BY <2>1, <2>2, <2>3
  <2>5. db'.columns \in Nat
    BY TypeInvPartsNext DEF TypeParts, RowsOK
  <2>. QED
    BY <2>4, <2>5 DEF Rows
<1>. QED
  BY <1>1, <1>2, <1>3

-----------------------------------------------------------------------------
(***************************************************************************)
(* The invariant.                                                          *)
(***************************************************************************)
\* The empty database satisfies the invariant.
LEMMA SafeInvInit == Init => SafeInv
<1>. SUFFICES ASSUME Init PROVE SafeInv
  OBVIOUS
<1>1. TypeInv
  BY TypeInvInit
<1>2. Active = {} /\ granted = {} /\ failed = {} /\ \A t \in Tables : db.rows[t] = {}
  BY DEF Init, Active, Nothing
<1>3. db.rows["Device"] = {} /\ db.rows["Neighbor"] = {} /\ db.rows["Service"] = {}
  BY <1>2 DEF Tables
<1>4. Stored = {}
  BY <1>2, <1>3 DEF Stored
<1>5. FreshNumbers /\ WholeUpdates /\ GreaterThanSeen /\ DevicesOfUpdates /\ ColumnsOfWrites
  BY <1>2 DEF FreshNumbers, WholeUpdates, GreaterThanSeen, DevicesOfUpdates, ColumnsOfWrites
<1>6. LoneUpdates /\ LastAlone /\ Numbers /\ LastNumbers
  BY <1>2, <1>4 DEF LoneUpdates, LastAlone, Numbers, LastNumbers, LoneRows
<1>7. OneDevice /\ AcksStored /\ FailuresLeaveNothing /\ SameIDOnlyByRace
  BY <1>2, <1>3 DEF OneDevice, AcksStored, FailuresLeaveNothing, SameIDOnlyByRace
<1>8. JoinedTogether /\ RowsOfMembers /\ AttributeColumnsExist
  BY <1>3 DEF JoinedTogether, RowsOfMembers, AttributeColumnsExist
<1>. QED
  BY <1>1, <1>5, <1>6, <1>7, <1>8 DEF SafeInv

\* A step that changes nothing keeps the invariant.
LEMMA SafeInvStutter == SafeInv /\ UNCHANGED vars => SafeInv'
<1>. SUFFICES ASSUME SafeInv, UNCHANGED vars PROVE SafeInv'
  OBVIOUS
<1>. USE DEF vars, history
<1>1. TypeInv'
  BY StepKinds DEF SafeInv
<1>2. Active' = Active
  BY DEF Active
<1>3. FreshNumbers' /\ GreaterThanSeen' /\ DevicesOfUpdates' /\ ColumnsOfWrites'
  BY <1>2 DEF SafeInv, FreshNumbers, GreaterThanSeen, DevicesOfUpdates, ColumnsOfWrites
<1>4. WholeUpdates' /\ OneDevice' /\ AcksStored' /\ FailuresLeaveNothing' /\ SameIDOnlyByRace'
  BY <1>2 DEF SafeInv, WholeUpdates, OneDevice, AcksStored, FailuresLeaveNothing,
              SameIDOnlyByRace, Places
<1>5. JoinedTogether' /\ RowsOfMembers' /\ AttributeColumnsExist'
  BY DEF SafeInv, JoinedTogether, RowsOfMembers, AttributeColumnsExist
<1>6. LoneUpdates' /\ LastAlone' /\ Numbers' /\ LastNumbers'
  BY <1>2 DEF SafeInv, LoneUpdates, LastAlone, Numbers, LastNumbers, NumbersOf, LoneRows,
              Stored, Alone, Run, Counter
<1>. QED
  BY <1>1, <1>3, <1>4, <1>5, <1>6 DEF SafeInv

\* A restart ends handlers and begins another run, and leaves the rest.
LEMMA SafeInvRestart ==
    ASSUME SafeInv, TypeInv', NEW process \in Processes, Restarts(process)
    PROVE  SafeInv'
<1>. USE DEF SafeInv
<1>1. \A q \in Active' : q \in Active /\ cur'[q] = cur[q] /\ ProcessOf[q] # process
  BY DEF Restarts, Active
<1>2. UNCHANGED <<db, granted, altered, stranded, overlapped, requests>>
  BY DEF Restarts
<1>3. ASSUME NEW n \in failed', n \notin failed
      PROVE  \E q \in Active : q \notin Active' /\ n = cur[q].nr
  BY <1>1, <1>3 DEF Restarts
<1>4. FreshNumbers'
  <2>1. \A q \in Active' : cur[q].nr \notin failed'
    <3>1. \A q, s \in Active : q # s => cur[q].nr # cur[s].nr
      BY TypeInvParts DEF TypeParts, DistinctNumbers
    <3>. QED
      BY <1>1, <1>3, <3>1 DEF FreshNumbers
  <2>. QED
    BY <1>1, <1>2, <2>1 DEF FreshNumbers
<1>5. WholeUpdates' /\ OneDevice' /\ AcksStored'
  BY <1>1, <1>2 DEF WholeUpdates, OneDevice, AcksStored, Places
<1>6. FailuresLeaveNothing'
  <2>. SUFFICES ASSUME NEW t \in Tables, NEW r \in db.rows[t], r.nr \in failed'
                PROVE  /\ t = "Service" /\ r.nr \in altered
                       /\ r.nr \in stranded \/ 1 .. r.place \subseteq Places(r.nr)
    BY <1>2 DEF FailuresLeaveNothing, Places
  <2>1. CASE r.nr \in failed
    BY <2>1 DEF FailuresLeaveNothing
  <2>2. CASE r.nr \notin failed
    <3>1. PICK q \in Active : r.nr = cur[q].nr
      BY <1>3, <2>2
    <3>2. t = "Service" /\ r.nr \in altered
      BY <3>1 DEF FreshNumbers
    <3>3. cur[q].req.op = "Update" /\ r.place \in Places(cur[q].nr)
      BY <3>1, <3>2 DEF OneDevice, Places
    <3>. QED
      BY <3>1, <3>2, <3>3 DEF WholeUpdates
  <2>. QED
    BY <2>1, <2>2
<1>7. GreaterThanSeen' /\ SameIDOnlyByRace'
  BY <1>1, <1>2 DEF GreaterThanSeen, SameIDOnlyByRace
<1>8. DevicesOfUpdates' /\ JoinedTogether' /\ RowsOfMembers'
  BY <1>1, <1>2 DEF DevicesOfUpdates, JoinedTogether, RowsOfMembers
<1>9. ColumnsOfWrites' /\ AttributeColumnsExist'
  BY <1>1, <1>2 DEF ColumnsOfWrites, AttributeColumnsExist
<1>10. Stored' \subseteq Stored /\ LoneRows' \subseteq LoneRows
  BY <1>1, <1>2 DEF Stored, LoneRows
<1>11. /\ \A o \in Processes \ {process} : runs'[o] = runs[o] /\ manageNum'[o] = manageNum[o]
       /\ runs'[process] = runs[process] + 1 /\ runs[process] \in Nat
  BY NumberTypes DEF Restarts
<1>12. Numbers'
  <2>1. ASSUME NEW r \in Stored'
        PROVE  /\ r.by[2] <= runs'[r.by[1]]
               /\ r \in LoneRows /\ r.by[2] = runs'[r.by[1]] => r.id <= manageNum'[r.by[1]]
    <3>1. /\ r.by[1] \in Processes /\ r.by[2] \in Nat /\ r.by[2] <= runs[r.by[1]]
          /\ r \in LoneRows /\ r.by[2] = runs[r.by[1]] => r.id <= manageNum[r.by[1]]
      BY <1>10, NumberTypes DEF Numbers
    <3>2. CASE r.by[1] = process
      BY <1>11, <3>1, <3>2
    <3>3. CASE r.by[1] # process
      BY <1>11, <3>1, <3>3
    <3>. QED
      BY <3>2, <3>3
  <2>2. LoneRows' \subseteq Stored'
    BY DEF LoneRows
  <2>3. \A r \in LoneRows' : r.by[2] = runs'[r.by[1]] => r.id <= manageNum'[r.by[1]]
    BY <1>10, <2>1, <2>2
  <2>4. \A q \in LoneRows', r \in Stored' :
          q # r /\ q.by = r.by /\ q.nr <= r.nr /\ q.id # 0 => q.id # r.id
    BY <1>10 DEF Numbers
  <2>. QED
    BY <2>1, <2>3, <2>4 DEF Numbers
<1>13. LoneUpdates'
  BY <1>1, <1>2 DEF LoneUpdates
<1>15. LastAlone'
  <2>1. ASSUME NEW q \in Active' PROVE Run(q)' = Run(q) /\ (Alone(q)' => Alone(q))
    <3>1. q \in Threads /\ ProcessOf[q] \in Processes \ {process} /\ q \in Active
      BY <1>1, NumberTypes DEF Active
    <3>. QED
      BY <1>1, <1>2, <1>11, <3>1 DEF Run, Alone
  <2>. QED
    BY <1>1, <1>10, <2>1 DEF LastAlone
<1>14. LastNumbers'
  <2>. SUFFICES ASSUME NEW q \in Active'
                PROVE  /\ NumbersOf(q)'
                       /\ Alone(q)' /\ cur'[q].pc = "alter" => cur'[q].number <= Counter(q)'
    BY DEF LastNumbers
  <2>1. q \in Active /\ cur'[q] = cur[q] /\ q \in Threads /\ ProcessOf[q] # process
    BY <1>1 DEF Active
  <2>2. Run(q)' = Run(q) /\ Counter(q)' = Counter(q)
    BY <1>11, <2>1, NumberTypes DEF Run, Counter
  <2>3. Alone(q)' => Alone(q)
    BY <1>2, <2>1 DEF Alone
  <2>4. NumbersOf(q) /\ (Alone(q) /\ cur[q].pc = "alter" => cur[q].number <= Counter(q))
    BY <2>1 DEF LastNumbers
  <2>. QED
    BY <1>10, <2>1, <2>2, <2>3, <2>4 DEF NumbersOf
<1>. QED
  BY <1>4, <1>5, <1>6, <1>7, <1>8, <1>9, <1>12, <1>13, <1>14, <1>15

\* Every step keeps the invariant, one conjunct at a time.
LEMMA SafeInvStep == SafeInv /\ [Next]_vars => SafeInv'
<1>. SUFFICES ASSUME SafeInv, [Next]_vars PROVE SafeInv'
  OBVIOUS
<1>1. /\ TypeInv /\ TypeInv'
      /\ \/ UNCHANGED vars
         \/ \E p \in Threads : Effect(p)
         \/ \E process \in Processes : Restarts(process)
  BY StepKinds DEF SafeInv
<1>2. CASE UNCHANGED vars
  BY <1>2, SafeInvStutter
<1>3. ASSUME NEW process \in Processes, Restarts(process)
      PROVE  SafeInv'
  BY <1>1, <1>3, SafeInvRestart
<1>4. ASSUME NEW p \in Threads, Effect(p)
      PROVE  SafeInv'
  <2>1. FreshNumbers' /\ FailuresLeaveNothing'
    BY <1>1, <1>4, FreshNumbersStep, FailuresStep DEF SafeInv
  <2>2. WholeUpdates' /\ OneDevice' /\ AcksStored'
    BY <1>1, <1>4, WholeUpdatesStep, OneDeviceStep, AcksStoredStep DEF SafeInv
  <2>3. GreaterThanSeen' /\ SameIDOnlyByRace'
    BY <1>1, <1>4, GreaterThanSeenStep, SameIDStep DEF SafeInv
  <2>4. DevicesOfUpdates' /\ JoinedTogether' /\ RowsOfMembers'
    BY <1>1, <1>4, DevicesOfUpdatesStep, JoinedTogetherStep, RowsOfMembersStep DEF SafeInv
  <2>5. LoneUpdates' /\ LastAlone' /\ Numbers' /\ LastNumbers'
    BY <1>1, <1>4, LoneUpdatesStep, LastAloneStep, NumbersStep,
                     LastNumbersStep DEF SafeInv
  <2>6. ColumnsOfWrites' /\ AttributeColumnsExist'
    BY <1>1, <1>4, ColumnsOfWritesStep, ColumnsExistStep DEF SafeInv
  <2>. QED
    BY <1>1, <2>1, <2>2, <2>3, <2>4, <2>5, <2>6 DEF SafeInv
<1>. QED
  BY <1>1, <1>2, <1>3, <1>4

\* The conjunction of all of this holds in every state the servers reach.
THEOREM SafeInvariant == Spec => []SafeInv
  BY SafeInvInit, SafeInvStep, PTL DEF Spec

-----------------------------------------------------------------------------
(***************************************************************************)
(* The theorems.                                                           *)
(***************************************************************************)
\* The state stays within its types, no two handlers answer one request, and
\* the bounds hold.
THEOREM TypeCorrect == Spec => []TypeOK
<1>1. SafeInv => TypeOK
  BY DEF SafeInv, TypeInv
<1>. QED
  BY <1>1, SafeInvariant, PTL

\* What a success says is stored (Join, Update, Request): no error, restart,
\* Leave of any other device or other thread takes it away again, and every
\* service of an Update is among it, in however many transactions its ALTER
\* TABLEs split it, unless its device left between two of them.
THEOREM AcksAreStored == Spec => []AcksStored
<1>1. SafeInv => AcksStored
  BY DEF SafeInv
<1>. QED
  BY <1>1, SafeInvariant, PTL

\* A handler that raises, or dies with its process, leaves no row behind (the
\* except clauses), but for the services that an ALTER TABLE committed; those
\* are the first of its request, without gaps, unless its device has left.
THEOREM FailuresLeaveNoRows == Spec => []FailuresLeaveNothing
<1>1. SafeInv => FailuresLeaveNothing
  BY DEF SafeInv
<1>. QED
  BY <1>1, SafeInvariant, PTL

\* SELECT MAX gives an ID a second time only to handlers that overlap, or once
\* its first owner has left.
THEOREM SameIDsOnlyByRace == Spec => []SameIDOnlyByRace
<1>1. SafeInv => SameIDOnlyByRace
  BY DEF SafeInv
<1>. QED
  BY <1>1, SafeInvariant, PTL

\* Services and neighbors are of devices that are there, but for those that a
\* Leave strands.
THEOREM RowsHaveMembers == Spec => []RowsOfMembers
<1>1. SafeInv => RowsOfMembers
  BY DEF SafeInv
<1>. QED
  BY <1>1, SafeInvariant, PTL

\* However many threads of a process lose counts of manageNum to each other,
\* genServiceID gives the number of a service whose Update no other one of the
\* process overlapped to no later service in that run of the process.
THEOREM LoneUpdatesDistinct == Spec => []LoneUpdatesNumbered
<1>1. SafeInv => LoneUpdatesNumbered
  BY NumbersAreDistinct DEF SafeInv
<1>. QED
  BY <1>1, SafeInvariant, PTL

\* No stored service names an attribute column that does not exist, whatever
\* the Updates of other threads and processes do to the table.
THEOREM ColumnsExist == Spec => []AttributeColumnsExist
<1>1. SafeInv => AttributeColumnsExist
  BY DEF SafeInv
<1>. QED
  BY <1>1, SafeInvariant, PTL

=============================================================================
