-------------------------- MODULE FlexSocketProofs --------------------------
(***************************************************************************)
(* Theorems about FlexSocket, for any number of sockets, CPUs, loads,      *)
(* frames and failures.                                                    *)
(***************************************************************************)
EXTENDS FlexSocket, FiniteSetTheorems, TLAPS

-----------------------------------------------------------------------------
(***************************************************************************)
(* The inductive invariant.                                                *)
(***************************************************************************)
\* What is registered, by how far the loader is.
Stages ==
    /\ loader.pc \in {"absent", "proto_register"} => registered = {}
    /\ loader.pc = "sock_register" => registered = {"proto"}
    /\ loader.pc = "dev_add_pack" => registered = {"proto", "family"}
    /\ loader.pc = "out_proto" =>
         registered = IF loader.rc = 0 THEN {"proto", "family", "packet"} ELSE {"proto"}
    /\ loader.pc \in {"live", "dev_remove_pack"} => registered = {"family", "packet"}
    /\ loader.pc = "sock_unregister" => registered = {"family"}

\* Who holds a reference keeps the module from being unloaded.
Holding == refs > 0 => "family" \in registered /\ ModuleLives

\* A CPU in flex_rcv keeps dev_remove_pack from coming back.
Receiving ==
    \A c \in CPUs : rcv[c] # Idle =>
        "packet" \in registered \/ loader.pc = "sock_unregister"

\* The struct socks and the sockets they are of.
Accounts ==
    /\ IsFiniteSet(sks)
    /\ \A s, t \in Used : socket[s].nr = socket[t].nr => s = t
    /\ \A k \in sks, s \in Used : socket[s].pc = "create" => socket[s].nr # k.nr

\* The buffers of the CPUs that parse.
Parsing == {c \in CPUs : rcv[c].pc = "parse"}

Buffers ==
    /\ 2 * Cardinality(Parsing) <= held.buffers
    /\ held.buffers <= 2 * Cardinality(Parsing) + failures
    /\ held.packets <= calls.received + failures
    /\ held.devices <= calls.sent

SafeInv ==
    TypeOK /\ Stages /\ Holding /\ Receiving /\ Accounts /\ SocketsGivenBack /\ Buffers

SocketRecords ==
    [pc : {"create", "open"}, type : Types, protocolOk : BOOLEAN, nr : 1 .. calls.creates]

\* A socket in use is a record with all the fields.
LEMMA UsedSockets ==
    ASSUME TypeOK, NEW s \in Sockets
    PROVE  /\ s \in Used <=> socket[s].pc # "closed"
           /\ s \in Used <=> socket[s] \in SocketRecords
  BY DEF TypeOK, Used, Closed, SocketRecords

LEMMA FiniteUsed == IsFiniteSet(Used) /\ Cardinality(Used) \in Nat
  BY FiniteAssumption, FS_Subset, FS_CardinalityType DEF Used

LEMMA FiniteParsing == IsFiniteSet(Parsing) /\ Cardinality(Parsing) \in Nat
  BY FiniteAssumption, FS_Subset, FS_CardinalityType DEF Parsing

\* The leaks are what Buffers says.
LEMMA BuffersBoundLeaks == Buffers => LeaksBounded
  BY DEF Buffers, Parsing, LeaksBounded

LEMMA SafeInvInit == Init => SafeInv
<1>. SUFFICES ASSUME Init PROVE SafeInv
  OBVIOUS
<1>. USE DEF Init
<1>1. TypeOK
  BY BoundsAssumption DEF TypeOK, At, Closed, Idle, Loading, Unloading
<1>2. Used = {} /\ Parsing = {}
  BY DEF Used, Parsing, Idle
<1>3. Cardinality(Used) = 0 /\ Cardinality(Parsing) = 0 /\ Cardinality(sks) = 0
  BY <1>2, FS_EmptySet
<1>4. Stages /\ Holding /\ Receiving
  BY DEF Stages, Holding, Receiving, At
<1>5. Accounts /\ SocketsGivenBack
  BY <1>2, <1>3, FS_EmptySet DEF Accounts, SocketsGivenBack
<1>6. Buffers
  BY <1>3 DEF Buffers
<1>. QED
  BY <1>1, <1>4, <1>5, <1>6 DEF SafeInv

-----------------------------------------------------------------------------
(***************************************************************************)
(* Loading and unloading: sockets, CPUs and buffers stay as they are.      *)
(***************************************************************************)
\* What a step keeps that touches neither sockets nor flex_rcv.
LEMMA LoaderKeeps ==
    ASSUME SafeInv, UNCHANGED <<refs, socket, sks, rcv>>,
           \/ UNCHANGED <<held, calls, failures>>
           \/ UNCHANGED <<held, calls>> /\ failures' = failures + 1
           \/ UNCHANGED <<held, failures>> /\ calls' = [calls EXCEPT !.loads = @ + 1]
    PROVE  Accounts' /\ SocketsGivenBack' /\ Buffers'
<1>. USE DEF SafeInv
<1>1. Used' = Used /\ Parsing' = Parsing
  BY DEF Used, Parsing
<1>2. failures \in Nat /\ calls.received \in Nat
  BY BoundsAssumption DEF TypeOK
<1>3. /\ failures' \in {failures, failures + 1}
      /\ calls'.received = calls.received /\ calls'.sent = calls.sent
  BY DEF TypeOK
<1>4. Accounts' /\ SocketsGivenBack'
  BY <1>1 DEF Accounts, SocketsGivenBack
<1>5. Buffers'
  BY <1>1, <1>2, <1>3, FiniteParsing DEF Buffers, TypeOK
<1>. QED
  BY <1>4, <1>5

LEMMA InsmodKeeps == ASSUME SafeInv, Insmod PROVE SafeInv'
<1>. USE DEF SafeInv, Insmod
<1>1. TypeOK'
  BY DEF TypeOK, At, Loading, Unloading
<1>2. Stages' /\ Receiving'
  BY DEF Stages, Receiving, At
<1>3. Holding'
  BY DEF Holding, ModuleLives, Stages
<1>4. Accounts' /\ SocketsGivenBack' /\ Buffers'
  BY LoaderKeeps
<1>. QED
  BY <1>1, <1>2, <1>3, <1>4

LEMMA LoaderStepKeeps == ASSUME SafeInv, Loader PROVE SafeInv'
<1>. USE DEF SafeInv
<1>1. UNCHANGED <<refs, socket, sks, rcv, held, calls>>
  BY DEF Loader
<1>2. failures' = failures \/ (Fails /\ failures' = failures + 1)
  BY DEF Loader, ProtoRegister, SockRegister, DevAddPack, OutProto, DevRemovePack,
         SockUnregister, Fails
<1>3. Accounts' /\ SocketsGivenBack' /\ Buffers'
  BY <1>1, <1>2, LoaderKeeps
<1>4. failures' \in 0 .. MaxFailures
  BY <1>2, BoundsAssumption DEF TypeOK, Fails
<1>5. ASSUME loader' \in [pc : {"absent", "live"} \cup Loading \cup Unloading, rc : {0, -1}],
             registered' \subseteq {"proto", "family", "packet"}
      PROVE  TypeOK'
  BY <1>1, <1>4, <1>5 DEF TypeOK
<1>6. refs \in Nat
  BY DEF TypeOK
<1>7. CASE ProtoRegister
  BY <1>1, <1>3, <1>5, <1>6, <1>7
     DEF ProtoRegister, Stages, Holding, Receiving, ModuleLives, At, Loading, Unloading
<1>8. CASE SockRegister
  BY <1>1, <1>3, <1>5, <1>6, <1>8
     DEF SockRegister, Stages, Holding, Receiving, ModuleLives, At, Loading, Unloading
<1>9. CASE DevAddPack
  BY <1>1, <1>3, <1>5, <1>6, <1>9
     DEF DevAddPack, Stages, Holding, Receiving, ModuleLives, At, Loading, Unloading
<1>10. CASE OutProto
  BY <1>1, <1>3, <1>5, <1>6, <1>10
     DEF OutProto, Stages, Holding, Receiving, ModuleLives, At, Loading, Unloading, TypeOK
<1>11. CASE DevRemovePack
  BY <1>1, <1>3, <1>5, <1>6, <1>11
     DEF DevRemovePack, Stages, Holding, Receiving, ModuleLives, At, Loading, Unloading
<1>12. CASE SockUnregister
  BY <1>1, <1>3, <1>5, <1>6, <1>12
     DEF SockUnregister, Stages, Holding, Receiving, ModuleLives, At, Loading, Unloading
<1>. QED
  BY <1>7, <1>8, <1>9, <1>10, <1>11, <1>12 DEF Loader

LEMMA RmmodKeeps ==
    ASSUME SafeInv, Rmmod, UNCHANGED <<refs, socket, sks, rcv, held, calls>>
    PROVE  SafeInv'
<1>. USE DEF SafeInv, Rmmod
<1>1. TypeOK'
  BY DEF TypeOK, At, Loading, Unloading
<1>2. Stages' /\ Receiving'
  BY DEF Stages, Receiving, At
<1>3. Holding'
  BY DEF Holding
<1>4. Accounts' /\ SocketsGivenBack' /\ Buffers'
  BY LoaderKeeps
<1>. QED
  BY <1>1, <1>2, <1>3, <1>4

-----------------------------------------------------------------------------
(***************************************************************************)
(* Sockets.                                                                *)
(***************************************************************************)
\* What a step keeps that touches neither the loader nor flex_rcv.
LEMMA SocketsKeep ==
    ASSUME SafeInv, UNCHANGED <<loader, registered, rcv>>
    PROVE  Stages' /\ Receiving'
  BY DEF SafeInv, Stages, Receiving

LEMMA BuffersKeep ==
    ASSUME SafeInv, UNCHANGED <<rcv, held>>,
           calls'.received = calls.received, calls'.sent = calls.sent,
           failures' \in {failures, failures + 1}
    PROVE  Buffers'
<1>1. Parsing' = Parsing
  BY DEF Parsing
<1>2. failures \in Nat /\ calls.received \in Nat
  BY BoundsAssumption DEF SafeInv, TypeOK
<1>. QED
  BY <1>1, <1>2, FiniteParsing DEF SafeInv, Buffers, TypeOK

\* A reference needs the family and a module that is not being unloaded.
LEMMA HeldByUse ==
    ASSUME SafeInv, NEW s \in Used
    PROVE  refs > 0 /\ "family" \in registered /\ ModuleLives
<1>1. Cardinality(Used) # 0
  BY FiniteUsed, FS_EmptySet
<1>2. Cardinality(sks) \in Nat
  BY FS_CardinalityType DEF SafeInv, Accounts
<1>3. refs > 0
  BY <1>1, <1>2, FiniteUsed DEF SafeInv, SocketsGivenBack
<1>. QED
  BY <1>3 DEF SafeInv, Holding

LEMMA SockCreateKeeps ==
    ASSUME SafeInv, NEW s \in Sockets, NEW type \in Types, NEW ok \in BOOLEAN,
           SockCreate(s, type, ok)
    PROVE  SafeInv'
<1>. DEFINE h == [pc |-> "create", type |-> type, protocolOk |-> ok, nr |-> calls.creates + 1]
<1>1. /\ socket' = [socket EXCEPT ![s] = h]
      /\ calls' = [calls EXCEPT !.creates = @ + 1]
      /\ refs' = refs + 1
      /\ UNCHANGED <<loader, registered, sks, rcv, held, failures>>
      /\ socket[s] = Closed /\ "family" \in registered /\ ModuleLives
  BY DEF SockCreate
<1>2. /\ calls.creates \in Nat /\ calls'.creates = calls.creates + 1
      /\ calls' \in [loads : Nat, creates : Nat, received : Nat, sent : Nat]
      /\ calls'.received = calls.received /\ calls'.sent = calls.sent
  BY <1>1 DEF SafeInv, TypeOK
<1>3. Used' = Used \cup {s} /\ s \notin Used
  BY <1>1 DEF Used, Closed, SafeInv, TypeOK
<1>4. Cardinality(Used') = Cardinality(Used) + 1
  BY <1>3, FiniteUsed, FS_AddElement
<1>5. TypeOK'
  <2>1. h \in SocketRecords'
    BY <1>2 DEF SocketRecords
  <2>2. 1 .. calls.creates \subseteq 1 .. calls'.creates
    BY <1>2
  <2>3. \A t \in Sockets : socket[t] \in {Closed} \cup SocketRecords'
    BY <2>2 DEF SafeInv, TypeOK, SocketRecords
  <2>4. socket' \in [Sockets -> {Closed} \cup SocketRecords']
    BY <1>1, <2>1, <2>3 DEF SafeInv, TypeOK
  <2>5. sks' \subseteq [nr : 1 .. calls'.creates, type : Types]
    BY <1>1, <2>2 DEF SafeInv, TypeOK
  <2>. QED
    BY <1>1, <1>2, <2>4, <2>5 DEF SafeInv, TypeOK, SocketRecords
<1>6. \A t \in Used : socket'[t] = socket[t] /\ socket[t].nr < socket'[s].nr
  BY <1>1, <1>2, <1>3, UsedSockets DEF SafeInv, TypeOK, SocketRecords, Used
<1>7. socket'[s] = h
  BY <1>1 DEF SafeInv, TypeOK
<1>8. \A k \in sks : k.nr < socket'[s].nr
  BY <1>2, <1>7 DEF SafeInv, TypeOK
<1>9. Accounts'
  <2>1. \A t, u \in Used' : socket'[t].nr = socket'[u].nr => t = u
    BY <1>3, <1>6, <1>7, UsedSockets, <1>2 DEF SafeInv, Accounts, SocketRecords
  <2>2. \A k \in sks', t \in Used' : socket'[t].pc = "create" => socket'[t].nr # k.nr
    BY <1>1, <1>2, <1>3, <1>6, <1>7, <1>8 DEF SafeInv, Accounts, TypeOK
  <2>. QED
    BY <1>1, <2>1, <2>2 DEF SafeInv, Accounts
<1>10. SocketsGivenBack'
  <2>1. \A k \in sks : k.type = "SOCK_RAW" \/ \E t \in Used' : socket'[t].nr = k.nr
    BY <1>3, <1>6 DEF SafeInv, SocketsGivenBack
  <2>2. Cardinality(sks) \in Nat
    BY FS_CardinalityType DEF SafeInv, Accounts
  <2>. QED
    BY <1>1, <1>4, <2>1, <2>2, FiniteUsed DEF SafeInv, SocketsGivenBack
<1>11. Holding'
  BY <1>1 DEF Holding, ModuleLives
<1>12. Stages' /\ Receiving' /\ Buffers'
  BY <1>1, <1>2, SocketsKeep, BuffersKeep
<1>. QED
  BY <1>5, <1>9, <1>10, <1>11, <1>12 DEF SafeInv

\* A socket that is closed, with the struct socks that are of it.
LEMMA ClosingKeeps ==
    ASSUME SafeInv, NEW s \in Used,
           socket' = [socket EXCEPT ![s] = Closed],
           UNCHANGED <<loader, registered, rcv, held, calls>>,
           failures' \in {failures, failures + 1}, failures' \in 0 .. MaxFailures,
           sks' \subseteq sks, Released(s) \subseteq sks',
           socket[s].pc = "open" => sks' = Released(s),
           refs' = refs - 1 - (Cardinality(sks) - Cardinality(sks'))
    PROVE  SafeInv'
<1>. USE DEF SafeInv
<1>1. s \in Sockets
  BY DEF Used
<1>2. Used' = Used \ {s}
  BY <1>1 DEF Used, TypeOK
<1>3. Cardinality(Used') = Cardinality(Used) - 1
  BY <1>2, FiniteUsed, FS_RemoveElement
<1>4. IsFiniteSet(sks') /\ Cardinality(sks') \in Nat /\ Cardinality(sks) \in Nat
  BY FS_Subset, FS_CardinalityType DEF Accounts
<1>5. Cardinality(Used') \in Nat
  BY <1>2, FiniteUsed, FS_Subset, FS_CardinalityType
<1>6. refs' = Cardinality(Used') + Cardinality(sks')
  BY <1>3, <1>4, <1>5, FiniteUsed DEF SocketsGivenBack
<1>7. \A t \in Used' : t \in Used /\ socket'[t] = socket[t]
  BY <1>2 DEF Used, TypeOK
<1>8. TypeOK'
  <2>1. refs' \in Nat
    BY <1>4, <1>5, <1>6
  <2>2. socket' \in [Sockets -> {Closed} \cup SocketRecords]
    BY <1>1 DEF TypeOK, SocketRecords
  <2>. QED
    BY <2>1, <2>2 DEF TypeOK, SocketRecords
<1>9. Accounts'
  BY <1>4, <1>7 DEF Accounts
<1>10. ASSUME NEW k \in sks', k.type # "SOCK_RAW"
       PROVE  \E t \in Used' : socket'[t].nr = k.nr
  <2>1. PICK t \in Used : socket[t].nr = k.nr
    BY <1>10 DEF SocketsGivenBack
  <2>2. socket[s].pc \in {"create", "open"}
    BY <1>1, UsedSockets DEF SocketRecords
  <2>3. t # s
    BY <2>1, <2>2 DEF Accounts, Released
  <2>. QED
    BY <1>2, <1>7, <2>1, <2>3
<1>11. SocketsGivenBack'
  BY <1>6, <1>10 DEF SocketsGivenBack
<1>12. Holding'
  BY HeldByUse DEF Holding, ModuleLives
<1>13. Stages' /\ Receiving' /\ Buffers'
  BY SocketsKeep, BuffersKeep
<1>. QED
  BY <1>8, <1>9, <1>11, <1>12, <1>13

LEMMA FlexReleaseKeeps ==
    ASSUME SafeInv, NEW s \in Sockets, FlexRelease(s) PROVE SafeInv'
<1>1. s \in Used
  BY UsedSockets DEF SafeInv, FlexRelease
<1>2. /\ IsFiniteSet(sks) /\ Cardinality(sks) \in Nat
      /\ IsFiniteSet(Released(s)) /\ Cardinality(Released(s)) \in Nat
  BY FS_Subset, FS_CardinalityType DEF SafeInv, Accounts, Released
<1>3. Cardinality(sks \ Released(s)) = Cardinality(sks) - Cardinality(Released(s))
  <2>1. /\ IsFiniteSet(sks \ Released(s))
        /\ Cardinality(sks \ Released(s)) = Cardinality(sks) - Cardinality(sks \cap Released(s))
    BY <1>2, FS_Difference
  <2>2. sks \cap Released(s) = Released(s)
    BY DEF Released
  <2>. QED
    BY <2>1, <2>2
<1>4. /\ refs' = refs - 1 - (Cardinality(sks) - Cardinality(sks'))
      /\ sks' = Released(s) /\ Released(s) \subseteq sks
      /\ socket' = [socket EXCEPT ![s] = Closed]
      /\ UNCHANGED <<loader, registered, rcv, held, calls, failures>>
  BY <1>3 DEF FlexRelease, Released
<1>5. failures \in 0 .. MaxFailures
  BY DEF SafeInv, TypeOK
<1>. QED
  BY <1>1, <1>4, <1>5, ClosingKeeps

\* The struct sock that flex_create allocates.
LEMMA NewSk ==
    ASSUME SafeInv, NEW s \in Sockets, socket[s].pc = "create"
    PROVE  LET sk == [nr |-> socket[s].nr, type |-> socket[s].type] IN
           /\ sk \notin sks
           /\ IsFiniteSet(sks \cup {sk}) /\ Cardinality(sks) \in Nat
           /\ Cardinality(sks \cup {sk}) = Cardinality(sks) + 1
           /\ sk \in [nr : 1 .. calls.creates, type : Types]
           /\ s \in Used
<1>1. s \in Used /\ socket[s] \in SocketRecords
  BY UsedSockets DEF SafeInv
<1>2. [nr |-> socket[s].nr, type |-> socket[s].type] \notin sks
  BY <1>1 DEF SafeInv, Accounts
<1>3. IsFiniteSet(sks) /\ Cardinality(sks) \in Nat
  BY FS_CardinalityType DEF SafeInv, Accounts
<1>. QED
  BY <1>1, <1>2, <1>3, FS_AddElement DEF SocketRecords

\* The socket opens, with its struct sock.
LEMMA OpeningKeeps ==
    ASSUME SafeInv, NEW s \in Sockets, socket[s].pc = "create",
           socket' = [socket EXCEPT ![s].pc = "open"],
           sks' = sks \cup {[nr |-> socket[s].nr, type |-> socket[s].type]},
           refs' = refs + 1,
           UNCHANGED <<loader, registered, rcv, held, calls, failures>>
    PROVE  SafeInv'
<1>. DEFINE sk == [nr |-> socket[s].nr, type |-> socket[s].type]
<1>1. /\ sk \notin sks /\ IsFiniteSet(sks') /\ Cardinality(sks) \in Nat
      /\ Cardinality(sks') = Cardinality(sks) + 1
      /\ sk \in [nr : 1 .. calls.creates, type : Types] /\ s \in Used
  BY NewSk
<1>2. socket[s] \in SocketRecords
  BY <1>1, UsedSockets DEF SafeInv
<1>3. /\ socket'[s] \in SocketRecords /\ socket'[s].pc = "open"
      /\ socket'[s].nr = socket[s].nr
      /\ \A t \in Sockets \ {s} : socket'[t] = socket[t]
      /\ socket' \in [Sockets -> {Closed} \cup SocketRecords]
  BY <1>2 DEF SafeInv, TypeOK, SocketRecords
<1>4. Used' = Used
  BY <1>1, <1>3 DEF Used, Closed, SocketRecords
<1>5. TypeOK'
  BY <1>1, <1>3 DEF SafeInv, TypeOK, SocketRecords
<1>6. \A t \in Used : socket'[t].nr = socket[t].nr
  BY <1>3 DEF Used
<1>7. Accounts'
  <2>1. \A t, u \in Used' : socket'[t].nr = socket'[u].nr => t = u
    BY <1>4, <1>6 DEF SafeInv, Accounts
  <2>2. \A k \in sks', t \in Used' : socket'[t].pc = "create" => socket'[t].nr # k.nr
    <3>. SUFFICES ASSUME NEW k \in sks', NEW t \in Used', socket'[t].pc = "create"
                  PROVE  socket'[t].nr # k.nr
      OBVIOUS
    <3>1. t # s /\ t \in Used /\ socket'[t] = socket[t]
      BY <1>3, <1>4 DEF Used
    <3>2. CASE k \in sks
      BY <3>1, <3>2 DEF SafeInv, Accounts
    <3>3. CASE k = sk
      BY <1>1, <3>1, <3>3 DEF SafeInv, Accounts
    <3>. QED
      BY <3>2, <3>3
  <2>. QED
    BY <1>1, <2>1, <2>2 DEF Accounts
<1>8. SocketsGivenBack'
  <2>1. \A k \in sks : k.type = "SOCK_RAW" \/ \E t \in Used' : socket'[t].nr = k.nr
    BY <1>4, <1>6 DEF SafeInv, SocketsGivenBack
  <2>2. \E t \in Used' : socket'[t].nr = sk.nr
    BY <1>1, <1>3, <1>4
  <2>3. refs' = Cardinality(Used') + Cardinality(sks')
    BY <1>1, <1>4, FiniteUsed DEF SafeInv, SocketsGivenBack
  <2>. QED
    BY <2>1, <2>2, <2>3 DEF SocketsGivenBack
<1>9. Holding'
  BY <1>1, HeldByUse DEF Holding, ModuleLives
<1>10. Stages' /\ Receiving' /\ Buffers'
  BY SocketsKeep, BuffersKeep
<1>. QED
  BY <1>5, <1>7, <1>8, <1>9, <1>10 DEF SafeInv

\* flex_create refuses the type: the struct sock stays, and its reference.
LEMMA RefusedTypeKeeps ==
    ASSUME SafeInv, NEW s \in Sockets, socket[s].pc = "create",
           socket[s].type = "SOCK_RAW",
           socket' = [socket EXCEPT ![s] = Closed],
           sks' = sks \cup {[nr |-> socket[s].nr, type |-> socket[s].type]},
           UNCHANGED <<loader, registered, refs, rcv, held, calls, failures>>
    PROVE  SafeInv'
<1>. DEFINE sk == [nr |-> socket[s].nr, type |-> socket[s].type]
<1>1. /\ sk \notin sks /\ IsFiniteSet(sks') /\ Cardinality(sks) \in Nat
      /\ Cardinality(sks') = Cardinality(sks) + 1
      /\ sk \in [nr : 1 .. calls.creates, type : Types] /\ s \in Used
  BY NewSk
<1>2. /\ Used' = Used \ {s}
      /\ \A t \in Used' : t \in Used /\ socket'[t] = socket[t]
  BY DEF SafeInv, TypeOK, Used
<1>3. Cardinality(Used') = Cardinality(Used) - 1 /\ Cardinality(Used') \in Nat
  BY <1>1, <1>2, FiniteUsed, FS_RemoveElement, FS_Subset, FS_CardinalityType
<1>4. TypeOK'
  <2>1. socket' \in [Sockets -> {Closed} \cup SocketRecords]
    BY DEF SafeInv, TypeOK, SocketRecords
  <2>. QED
    BY <1>1, <2>1 DEF SafeInv, TypeOK, SocketRecords
<1>5. Accounts'
  <2>1. \A t \in Used' : socket'[t].nr # sk.nr
    BY <1>1, <1>2 DEF SafeInv, Accounts
  <2>. QED
    BY <1>1, <1>2, <2>1 DEF SafeInv, Accounts
<1>6. SocketsGivenBack'
  <2>1. ASSUME NEW k \in sks, k.type # "SOCK_RAW"
        PROVE  \E t \in Used' : socket'[t].nr = k.nr
    <3>1. PICK t \in Used : socket[t].nr = k.nr
      BY <2>1 DEF SafeInv, SocketsGivenBack
    <3>2. t # s
      BY <1>1, <3>1 DEF SafeInv, Accounts
    <3>. QED
      BY <1>2, <3>1, <3>2
  <2>2. refs' = Cardinality(Used') + Cardinality(sks')
    BY <1>1, <1>3, FiniteUsed DEF SafeInv, SocketsGivenBack
  <2>. QED
    BY <2>1, <2>2 DEF SocketsGivenBack
<1>7. Holding'
  BY <1>1, HeldByUse DEF Holding, ModuleLives
<1>8. Stages' /\ Receiving' /\ Buffers'
  BY SocketsKeep, BuffersKeep
<1>. QED
  BY <1>4, <1>5, <1>6, <1>7, <1>8 DEF SafeInv

LEMMA FlexCreateKeeps ==
    ASSUME SafeInv, NEW s \in Sockets, FlexCreate(s) PROVE SafeInv'
<1>1. /\ socket[s].pc = "create"
      /\ UNCHANGED <<loader, registered, rcv, held, calls>>
  BY DEF FlexCreate
<1>2. s \in Used /\ Released(s) \subseteq sks
  BY <1>1, NewSk DEF Released
<1>3. failures \in 0 .. MaxFailures /\ MaxFailures \in Nat /\ Cardinality(sks) \in Nat
  BY <1>1, NewSk, BoundsAssumption DEF SafeInv, TypeOK
<1>4. ASSUME socket' = [socket EXCEPT ![s] = Closed], refs' = refs - 1, sks' = sks,
             failures' = failures \/ Fails
      PROVE  SafeInv'
  <2>1. failures' \in {failures, failures + 1} /\ failures' \in 0 .. MaxFailures
    BY <1>3, <1>4 DEF Fails
  <2>2. refs \in Nat
    BY DEF SafeInv, TypeOK
  <2>3. refs' = refs - 1 - (Cardinality(sks) - Cardinality(sks'))
    BY <1>3, <1>4, <2>2
  <2>. QED
    BY <1>1, <1>2, <1>4, <2>1, <2>3, ClosingKeeps
<1>5. CASE /\ socket' = [socket EXCEPT ![s].pc = "open"]
           /\ sks' = sks \cup {[nr |-> socket[s].nr, type |-> socket[s].type]}
           /\ refs' = refs + 1 /\ UNCHANGED failures
  BY <1>1, <1>5, OpeningKeeps
<1>6. CASE /\ socket[s].type = "SOCK_RAW"
           /\ socket' = [socket EXCEPT ![s] = Closed]
           /\ sks' = sks \cup {[nr |-> socket[s].nr, type |-> socket[s].type]}
           /\ UNCHANGED <<refs, failures>>
  BY <1>1, <1>6, RefusedTypeKeeps
<1>. QED
  BY <1>4, <1>5, <1>6 DEF FlexCreate

LEMMA FlexSendmsgKeeps ==
    ASSUME SafeInv, NEW s \in Sockets, FlexSendmsg(s) PROVE SafeInv'
<1>. USE DEF SafeInv
<1>1. /\ UNCHANGED <<loader, registered, refs, socket, sks, rcv>>
      /\ calls' = [calls EXCEPT !.sent = @ + 1]
      /\ held'.buffers = held.buffers /\ held'.devices = held.devices + 1
      /\ \/ failures' = failures /\ held'.packets = held.packets
         \/ Fails /\ held'.packets \in {held.packets, held.packets + 1}
      /\ held' \in [buffers : Nat, packets : Nat, devices : Nat]
  <2>1. /\ UNCHANGED <<loader, registered, refs, socket, sks, rcv>>
        /\ calls' = [calls EXCEPT !.sent = @ + 1]
        /\ held \in [buffers : Nat, packets : Nat, devices : Nat]
    BY DEF FlexSendmsg, TypeOK
  <2>2. ASSUME NEW kept \in {0, 1}, Fails,
               held' = [buffers |-> held.buffers, packets |-> held.packets + kept,
                        devices |-> held.devices + 1]
        PROVE  /\ held'.buffers = held.buffers /\ held'.devices = held.devices + 1
               /\ held'.packets \in {held.packets, held.packets + 1}
               /\ held' \in [buffers : Nat, packets : Nat, devices : Nat]
    BY <2>1, <2>2
  <2>3. CASE held' = [held EXCEPT !.devices = @ + 1] /\ UNCHANGED failures
    BY <2>1, <2>3
  <2>. QED
    BY <2>1, <2>2, <2>3 DEF FlexSendmsg
<1>2. /\ failures \in Nat /\ failures' \in 0 .. MaxFailures
      /\ calls' \in [loads : Nat, creates : Nat, received : Nat, sent : Nat]
      /\ calls'.received = calls.received /\ calls'.sent = calls.sent + 1
      /\ calls'.creates = calls.creates
  BY <1>1, BoundsAssumption DEF TypeOK, Fails
<1>3. TypeOK'
  BY <1>1, <1>2 DEF TypeOK
<1>4. Used' = Used /\ Parsing' = Parsing
  BY <1>1 DEF Used, Parsing
<1>5. Accounts' /\ SocketsGivenBack' /\ Holding'
  BY <1>1, <1>4 DEF Accounts, SocketsGivenBack, Holding, ModuleLives
<1>6. Buffers'
  BY <1>1, <1>2, <1>4, FiniteParsing DEF Buffers, TypeOK, Fails
<1>7. Stages' /\ Receiving'
  BY <1>1, SocketsKeep
<1>. QED
  BY <1>3, <1>5, <1>6, <1>7

-----------------------------------------------------------------------------
(***************************************************************************)
(* flex_rcv.                                                               *)
(***************************************************************************)
\* What a step keeps that only touches flex_rcv and what it allocates.
LEMMA RcvKeeps ==
    ASSUME SafeInv, UNCHANGED <<loader, registered, refs, socket, sks>>
    PROVE  Stages' /\ Holding' /\ Accounts' /\ SocketsGivenBack'
<1>1. Used' = Used
  BY DEF Used
<1>. QED
  BY <1>1 DEF SafeInv, Stages, Holding, ModuleLives, Accounts, SocketsGivenBack

LEMMA DeliverKeeps ==
    ASSUME SafeInv, NEW c \in CPUs, Deliver(c) PROVE SafeInv'
<1>. USE DEF SafeInv
<1>1. /\ rcv[c] = Idle /\ "packet" \in registered
      /\ rcv' = [rcv EXCEPT ![c] = [pc |-> "alloc"]]
      /\ calls' = [calls EXCEPT !.received = @ + 1]
      /\ held' = [held EXCEPT !.packets = @ + 1]
      /\ UNCHANGED <<loader, registered, refs, socket, sks, failures>>
  BY DEF Deliver
<1>2. TypeOK'
  BY <1>1 DEF TypeOK
<1>3. Parsing' = Parsing
  BY <1>1 DEF Parsing, TypeOK, Idle
<1>4. Buffers'
  BY <1>1, <1>3, FiniteParsing, BoundsAssumption DEF Buffers, TypeOK
<1>5. Receiving'
  BY <1>1 DEF Receiving, TypeOK
<1>. QED
  BY <1>1, <1>2, <1>4, <1>5, RcvKeeps

LEMMA FlexRcvAllocKeeps ==
    ASSUME SafeInv, NEW c \in CPUs, FlexRcvAlloc(c),
           UNCHANGED <<loader, registered, refs, socket, sks, calls>>
    PROVE  SafeInv'
<1>. USE DEF SafeInv
<1>1. rcv[c].pc = "alloc" /\ rcv[c] # Idle /\ c \notin Parsing
  BY DEF FlexRcvAlloc, Idle, Parsing
<1>2. CASE Returns(c) /\ Fails /\ \E one \in {0, 1} : held' = [held EXCEPT !.buffers = @ + one]
  <2>1. TypeOK'
    BY <1>2, BoundsAssumption DEF TypeOK, Returns, Idle, Fails
  <2>2. Parsing' = Parsing
    BY <1>1, <1>2 DEF Parsing, TypeOK, Returns, Idle
  <2>3. Buffers'
    BY <1>2, <2>2, FiniteParsing, BoundsAssumption DEF Buffers, TypeOK, Fails
  <2>4. Receiving'
    BY <1>2 DEF Receiving, TypeOK, Returns
  <2>. QED
    BY <2>1, <2>3, <2>4, RcvKeeps
<1>3. CASE /\ held' = [held EXCEPT !.buffers = @ + 2]
           /\ rcv' = [rcv EXCEPT ![c] = [pc |-> "parse"]]
           /\ UNCHANGED failures
  <2>1. TypeOK'
    BY <1>3 DEF TypeOK
  <2>2. Parsing' = Parsing \cup {c}
    BY <1>3 DEF Parsing, TypeOK
  <2>3. Cardinality(Parsing') = Cardinality(Parsing) + 1
    BY <1>1, <2>2, FiniteParsing, FS_AddElement
  <2>4. Buffers'
    BY <1>3, <2>3, FiniteParsing, BoundsAssumption DEF Buffers, TypeOK
  <2>5. Receiving'
    BY <1>1, <1>3 DEF Receiving, TypeOK
  <2>. QED
    BY <2>1, <2>4, <2>5, RcvKeeps
<1>. QED
  BY <1>2, <1>3 DEF FlexRcvAlloc

LEMMA FlexRcvDoneKeeps ==
    ASSUME SafeInv, NEW c \in CPUs, FlexRcvDone(c),
           UNCHANGED <<loader, registered, refs, socket, sks, calls>>
    PROVE  SafeInv'
<1>. USE DEF SafeInv
<1>1. /\ c \in Parsing /\ rcv' = [rcv EXCEPT ![c] = Idle]
      /\ held' = [held EXCEPT !.buffers = @ - 2] /\ failures' = failures
  BY DEF FlexRcvDone, Parsing, Returns, Freed
<1>2. Parsing' = Parsing \ {c}
  BY <1>1 DEF Parsing, TypeOK, Idle
<1>3. Cardinality(Parsing') = Cardinality(Parsing) - 1 /\ Cardinality(Parsing') \in Nat
  BY <1>1, <1>2, FiniteParsing, FS_RemoveElement, FS_Subset, FS_CardinalityType
<1>4. held.buffers >= 2 /\ held.buffers \in Nat /\ held'.buffers = held.buffers - 2
  BY <1>1, <1>3, FiniteParsing DEF Buffers, TypeOK
<1>5. TypeOK'
  BY <1>1, <1>4 DEF TypeOK, Idle
<1>6. Buffers'
  BY <1>1, <1>3, <1>4, FiniteParsing, BoundsAssumption DEF Buffers, TypeOK
<1>7. Receiving'
  BY <1>1 DEF Receiving, TypeOK
<1>. QED
  BY <1>5, <1>6, <1>7, RcvKeeps

-----------------------------------------------------------------------------
(***************************************************************************)
(* The theorems.                                                           *)
(***************************************************************************)
LEMMA StutterKeeps == ASSUME SafeInv, UNCHANGED vars PROVE SafeInv'
<1>. USE DEF SafeInv, vars
<1>1. Used' = Used /\ Parsing' = Parsing
  BY DEF Used, Parsing
<1>2. TypeOK'
  BY DEF TypeOK
<1>3. Receiving' /\ Buffers'
  BY <1>1 DEF Receiving, Buffers
<1>. QED
  BY <1>2, <1>3, RcvKeeps

LEMMA StepKeeps == SafeInv /\ [Next]_vars => SafeInv'
<1>. SUFFICES ASSUME SafeInv, [Next]_vars PROVE SafeInv'
  OBVIOUS
<1>1. CASE Insmod
  BY <1>1, InsmodKeeps
<1>2. CASE Loader
  BY <1>2, LoaderStepKeeps
<1>3. CASE Rmmod /\ UNCHANGED <<refs, socket, sks, rcv, held, calls>>
  BY <1>3, RmmodKeeps
<1>4. ASSUME NEW s \in Sockets, NEW type \in Types, NEW ok \in BOOLEAN,
             SockCreate(s, type, ok)
      PROVE  SafeInv'
  BY <1>4, SockCreateKeeps
<1>5. ASSUME NEW s \in Sockets, FlexCreate(s) \/ FlexRelease(s) \/ FlexSendmsg(s)
      PROVE  SafeInv'
  BY <1>5, FlexCreateKeeps, FlexReleaseKeeps, FlexSendmsgKeeps
<1>6. ASSUME NEW c \in CPUs, Deliver(c)
      PROVE  SafeInv'
  BY <1>6, DeliverKeeps
<1>7. CASE FlexRcv
  BY <1>7, FlexRcvAllocKeeps, FlexRcvDoneKeeps DEF FlexRcv
<1>8. CASE Quiet \/ UNCHANGED vars
  BY <1>8, StutterKeeps DEF Quiet
<1>. QED
  BY <1>1, <1>2, <1>3, <1>4, <1>5, <1>6, <1>7, <1>8 DEF Next

\* The inductive invariant of the module, its sockets and its receive path.
THEOREM SafeInvariant == Spec => []SafeInv
  BY SafeInvInit, StepKeeps, PTL DEF Spec

\* The state of the module and of the kernel stays within its types.
THEOREM TypeCorrect == Spec => []TypeOK
<1>1. SafeInv => TypeOK
  BY DEF SafeInv
<1>. QED
  BY <1>1, SafeInvariant, PTL

\* A module that is gone, or failed to load, has left no pointer behind, in
\* any interleaving of its loader with sockets and frames (af_flex_init,
\* af_flex_exit).
THEOREM KernelForgets == Spec => []NothingLeftBehind
<1>1. SafeInv => NothingLeftBehind
  <2>. SUFFICES ASSUME SafeInv, loader.pc = "absent"
                PROVE  registered = {} /\ Used = {} /\ \A c \in CPUs : rcv[c] = Idle
    BY DEF NothingLeftBehind
  <2>1. registered = {}
    BY DEF SafeInv, Stages
  <2>2. Used = {}
    BY <2>1, HeldByUse
  <2>3. \A c \in CPUs : rcv[c] = Idle
    BY <2>1 DEF SafeInv, Receiving
  <2>. QED
    BY <2>1, <2>2, <2>3
<1>. QED
  BY <1>1, SafeInvariant, PTL

\* References and struct socks are those of the sockets in use and of the
\* types that flex_create refuses late (flex_create, flex_release).
THEOREM SocketsAccounted == Spec => []SocketsGivenBack
<1>1. SafeInv => SocketsGivenBack
  BY DEF SafeInv
<1>. QED
  BY <1>1, SafeInvariant, PTL

\* What is never freed is bounded by frames, messages and failures (flex_rcv,
\* flex_unreliable_sendmsg_test).
THEOREM LeaksAreBounded == Spec => []LeaksBounded
<1>1. SafeInv => LeaksBounded
  BY BuffersBoundLeaks DEF SafeInv
<1>. QED
  BY <1>1, SafeInvariant, PTL

=============================================================================
