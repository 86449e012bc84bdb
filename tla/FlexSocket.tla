----------------------------- MODULE FlexSocket -----------------------------
(***************************************************************************)
(* socket/: the kernel module of the FlexID socket family.                 *)
(*                                                                         *)
(* Loading registers a protocol, a socket family and a packet type, one    *)
(* after the other, and each is in use as soon as it is registered:        *)
(* sockets are created and frames received while the module is still       *)
(* loading.  Unloading needs the module's reference count to be zero;      *)
(* after dev_remove_pack it waits for the CPUs that still run flex_rcv.    *)
(***************************************************************************)
EXTENDS Integers, FiniteSets

CONSTANTS
    Sockets,     \* the file descriptors that processes use
    CPUs,        \* what frames are received on
    MaxLoads,    \* bound: how often the module is loaded
    MaxCreates,  \* bound: how many sockets are asked for
    MaxFrames,   \* bound: how many frames are received, and how many are sent
    MaxFailures  \* bound: how many allocations and registrations fail

ASSUME BoundsAssumption ==
    /\ MaxLoads \in Nat /\ MaxCreates \in Nat
    /\ MaxFrames \in Nat /\ MaxFailures \in Nat

ASSUME FiniteAssumption == IsFiniteSet(Sockets) /\ IsFiniteSet(CPUs)

VARIABLES
    loader,      \* how far af_flex_init or af_flex_exit is, and its rc
    registered,  \* what is registered with the kernel
    refs,        \* the module's reference count
    socket,      \* the socket behind each file descriptor
    sks,         \* the struct socks in memory
    rcv,         \* flex_rcv on each CPU
    held,        \* what is allocated otherwise: buffers, packets, device references
    calls,       \* how many loads, creations, received and sent frames there were
    failures     \* how many allocations and registrations failed

vars == <<loader, registered, refs, socket, sks, rcv, held, calls, failures>>

Closed == [pc |-> "closed"]
Idle   == [pc |-> "idle"]
At(pc) == [pc |-> pc, rc |-> 0]

Init ==
    /\ loader = At("absent")
    /\ registered = {}
    /\ refs = 0
    /\ socket = [s \in Sockets |-> Closed]
    /\ sks = {}
    /\ rcv = [c \in CPUs |-> Idle]
    /\ held = [buffers |-> 0, packets |-> 0, devices |-> 0]
    /\ calls = [loads |-> 0, creates |-> 0, received |-> 0, sent |-> 0]
    /\ failures = 0

Fails == failures < MaxFailures /\ failures' = failures + 1

-----------------------------------------------------------------------------
(***************************************************************************)
(* af_flex_init and af_flex_exit.                                          *)
(***************************************************************************)
Insmod ==
    /\ loader.pc = "absent"
    /\ calls.loads < MaxLoads
    /\ calls' = [calls EXCEPT !.loads = @ + 1]
    /\ loader' = At("proto_register")
    /\ UNCHANGED <<registered, refs, socket, sks, rcv, held, failures>>

ProtoRegister ==
    /\ loader.pc = "proto_register"
    /\ \/ /\ registered' = registered \cup {"proto"}
          /\ loader' = At("sock_register")
          /\ UNCHANGED failures
       \/ /\ Fails
          /\ loader' = At("absent")
          /\ UNCHANGED registered

SockRegister ==
    /\ loader.pc = "sock_register"
    /\ \/ /\ registered' = registered \cup {"family"}
          /\ loader' = At("dev_add_pack")
          /\ UNCHANGED failures
       \/ /\ Fails
          /\ loader' = [pc |-> "out_proto", rc |-> -1]
          /\ UNCHANGED registered

\* Mistake: init returns here, and nothing else undoes proto_register.
DevAddPack_Returns ==
    /\ loader.pc = "dev_add_pack"
    /\ registered' = registered \cup {"packet"}
    /\ loader' = At("live")
    /\ UNCHANGED failures

DevAddPack ==
    /\ loader.pc = "dev_add_pack"
    /\ registered' = registered \cup {"packet"}
    /\ loader' = At("out_proto")
    /\ UNCHANGED failures

\* The success path runs on into the label.
OutProto ==
    /\ loader.pc = "out_proto"
    /\ registered' = registered \ {"proto"}
    /\ loader' = At(IF loader.rc = 0 THEN "live" ELSE "absent")
    /\ UNCHANGED failures

Rmmod ==
    /\ loader.pc = "live"
    /\ refs = 0
    /\ loader' = At("dev_remove_pack")
    /\ UNCHANGED <<registered, failures>>

DevRemovePack ==
    /\ loader.pc = "dev_remove_pack"
    /\ registered' = registered \ {"packet"}
    /\ loader' = At("sock_unregister")
    /\ UNCHANGED failures

\* dev_remove_pack comes back when no CPU runs flex_rcv any more.
SockUnregister ==
    /\ loader.pc = "sock_unregister"
    /\ \A c \in CPUs : rcv[c] = Idle
    /\ registered' = registered \ {"family"}
    /\ loader' = At("absent")
    /\ UNCHANGED failures

Loader ==
    /\ \/ ProtoRegister \/ SockRegister \/ DevAddPack \/ OutProto
       \/ DevRemovePack \/ SockUnregister
    /\ UNCHANGED <<refs, socket, sks, rcv, held, calls>>

-----------------------------------------------------------------------------
(***************************************************************************)
(* Sockets.  While it is created a socket holds the module by its family;  *)
(* open, by its operations, and its struct sock by the protocol.           *)
(***************************************************************************)
Types == {"SOCK_STREAM", "SOCK_DGRAM", "SOCK_RAW"}

\* try_module_get
ModuleLives == loader.pc \notin {"absent", "dev_remove_pack", "sock_unregister"}

SockCreate(s, type, protocolOk) ==
    /\ socket[s] = Closed
    /\ "family" \in registered /\ ModuleLives
    /\ calls.creates < MaxCreates
    /\ calls' = [calls EXCEPT !.creates = @ + 1]
    /\ refs' = refs + 1
    /\ socket' = [socket EXCEPT ![s] =
                    [pc |-> "create", type |-> type, protocolOk |-> protocolOk,
                     nr |-> calls.creates + 1]]
    /\ UNCHANGED <<loader, registered, sks, rcv, held, failures>>

\* flex_create.  The struct sock of a type it does not know stays behind.
FlexCreate(s) ==
    LET h == socket[s] IN
    /\ h.pc = "create"
    /\ \/ /\ ~h.protocolOk
          /\ socket' = [socket EXCEPT ![s] = Closed]
          /\ refs' = refs - 1
          /\ UNCHANGED <<sks, failures>>
       \/ /\ h.protocolOk /\ Fails
          /\ socket' = [socket EXCEPT ![s] = Closed]
          /\ refs' = refs - 1
          /\ UNCHANGED sks
       \/ /\ h.protocolOk /\ h.type # "SOCK_RAW"
          /\ socket' = [socket EXCEPT ![s].pc = "open"]
          /\ sks' = sks \cup {[nr |-> h.nr, type |-> h.type]}
          /\ refs' = refs + 1
          /\ UNCHANGED failures
       \/ /\ h.protocolOk /\ h.type = "SOCK_RAW"
          /\ socket' = [socket EXCEPT ![s] = Closed]
          /\ sks' = sks \cup {[nr |-> h.nr, type |-> h.type]}
          /\ UNCHANGED <<refs, failures>>
    /\ UNCHANGED <<loader, registered, rcv, held, calls>>

\* Mistake: flex_release_sock without its sock_put.
Released_NoPut(s) == sks

Released(s) == {k \in sks : k.nr # socket[s].nr}

\* flex_release: the last reference of the struct sock goes with sock_put.
FlexRelease(s) ==
    /\ socket[s].pc = "open"
    /\ socket' = [socket EXCEPT ![s] = Closed]
    /\ sks' = Released(s)
    /\ refs' = refs - 1 - Cardinality(sks \ Released(s))
    /\ UNCHANGED <<loader, registered, rcv, held, calls, failures>>

\* flex_unreliable_sendmsg_test: the reference of dev_get_by_name is kept, and
\* so is the packet when it gets no link header.
FlexSendmsg(s) ==
    /\ socket[s].pc = "open" /\ socket[s].type = "SOCK_DGRAM"
    /\ calls.sent < MaxFrames
    /\ calls' = [calls EXCEPT !.sent = @ + 1]
    /\ \/ /\ Fails
          /\ \E kept \in {0, 1} :
               held' = [buffers |-> held.buffers, packets |-> held.packets + kept,
                        devices |-> held.devices + 1]
       \/ /\ held' = [held EXCEPT !.devices = @ + 1]
          /\ UNCHANGED failures
    /\ UNCHANGED <<loader, registered, refs, socket, sks, rcv>>

-----------------------------------------------------------------------------
(***************************************************************************)
(* flex_rcv.                                                               *)
(***************************************************************************)
Deliver(c) ==
    /\ rcv[c] = Idle
    /\ "packet" \in registered
    /\ calls.received < MaxFrames
    /\ calls' = [calls EXCEPT !.received = @ + 1]
    /\ rcv' = [rcv EXCEPT ![c] = [pc |-> "alloc"]]
    /\ held' = [held EXCEPT !.packets = @ + 1]
    /\ UNCHANGED <<loader, registered, refs, socket, sks, failures>>

\* Mistake: goes on with the same packet, which it has not consumed.
Returns_Again(c) == rcv' = [rcv EXCEPT ![c] = [pc |-> "alloc"]]

Returns(c) == rcv' = [rcv EXCEPT ![c] = Idle]

\* flex and data; when only one is there, it stays.
FlexRcvAlloc(c) ==
    /\ rcv[c].pc = "alloc"
    /\ \/ /\ Fails
          /\ \E one \in {0, 1} : held' = [held EXCEPT !.buffers = @ + one]
          /\ Returns(c)
       \/ /\ held' = [held EXCEPT !.buffers = @ + 2]
          /\ rcv' = [rcv EXCEPT ![c] = [pc |-> "parse"]]
          /\ UNCHANGED failures

\* Mistake: data is not freed.
Freed_One == 1

\* Mistake: a label frees what the path to it has freed.
Freed_Twice == 3

Freed == 2

\* The packet is not freed.
FlexRcvDone(c) ==
    /\ rcv[c].pc = "parse"
    /\ held' = [held EXCEPT !.buffers = @ - Freed]
    /\ Returns(c)
    /\ UNCHANGED failures

FlexRcv ==
    /\ \E c \in CPUs : FlexRcvAlloc(c) \/ FlexRcvDone(c)
    /\ UNCHANGED <<loader, registered, refs, socket, sks, calls>>

-----------------------------------------------------------------------------
\* Nothing is under way: what may come next is up to users and network.
Quiet ==
    /\ loader.pc \in {"absent", "live"}
    /\ \A c \in CPUs : rcv[c] = Idle
    /\ \A s \in Sockets : socket[s].pc # "create"
    /\ UNCHANGED vars

Next ==
    \/ Insmod \/ Loader
    \/ Rmmod /\ UNCHANGED <<refs, socket, sks, rcv, held, calls>>
    \/ \E s \in Sockets :
         \/ \E type \in Types, ok \in BOOLEAN : SockCreate(s, type, ok)
         \/ FlexCreate(s) \/ FlexRelease(s) \/ FlexSendmsg(s)
    \/ \E c \in CPUs : Deliver(c)
    \/ FlexRcv
    \/ Quiet

\* A call that has begun goes on: nothing in it waits but SockUnregister.
Fairness ==
    /\ WF_vars(Loader)
    /\ WF_vars(FlexRcv)

Spec == Init /\ [][Next]_vars /\ Fairness

-----------------------------------------------------------------------------
Loading   == {"proto_register", "sock_register", "dev_add_pack", "out_proto"}
Unloading == {"dev_remove_pack", "sock_unregister"}

TypeOK ==
    /\ loader \in [pc : {"absent", "live"} \cup Loading \cup Unloading, rc : {0, -1}]
    /\ registered \subseteq {"proto", "family", "packet"}
    /\ refs \in Nat
    /\ socket \in [Sockets -> {Closed} \cup
                     [pc : {"create", "open"}, type : Types, protocolOk : BOOLEAN,
                      nr : 1 .. calls.creates]]
    /\ sks \subseteq [nr : 1 .. calls.creates, type : Types]
    /\ rcv \in [CPUs -> [pc : {"idle", "alloc", "parse"}]]
    /\ held \in [buffers : Nat, packets : Nat, devices : Nat]
    /\ calls \in [loads : Nat, creates : Nat, received : Nat, sent : Nat]
    /\ failures \in 0 .. MaxFailures

Used == {s \in Sockets : socket[s] # Closed}

\* Once the module is gone, or failed to load, the kernel has no pointer into
\* it: nothing is registered, no socket is open or being created, no CPU runs
\* flex_rcv (af_flex_init, af_flex_exit).
NothingLeftBehind ==
    loader.pc = "absent" =>
        /\ registered = {}
        /\ Used = {}
        /\ \A c \in CPUs : rcv[c] = Idle

\* The module can be unloaded when no socket is open: references and struct
\* socks are given back, but for those of the types flex_create refuses after
\* it allocated them (flex_create, flex_release).
SocketsGivenBack ==
    /\ \A k \in sks : k.type = "SOCK_RAW" \/ \E s \in Used : socket[s].nr = k.nr
    /\ refs = Cardinality(Used) + Cardinality(sks)

\* What is allocated and not freed is bounded by what arrived, was sent and
\* failed: a frame costs its packet, a failed allocation one buffer or packet
\* more, a message a reference to the device (flex_rcv, sendmsg).
LeaksBounded ==
    /\ held.buffers <= 2 * Cardinality({c \in CPUs : rcv[c].pc = "parse"}) + failures
    /\ held.packets <= calls.received + failures
    /\ held.devices <= calls.sent

\* insmod and rmmod come back, whatever sockets do and however many frames come
\* meanwhile: they wait for CPUs that are in flex_rcv, which comes back too as
\* long as a frame is no larger than a header and skb->tail is a pointer
\* (flex_input.c: its loop ends at skb->tail, its copy at skb->len).
LoaderReturns == loader.pc \in Loading \cup Unloading ~> loader.pc \in {"absent", "live"}

(***************************************************************************)
(* What the log says, and the code does not do.                            *)
(***************************************************************************)
\* "The Protocal and Socket for Flex ID are registered"
RegisteredWhenLoaded ==
    loader.pc = "live" => registered = {"proto", "family", "packet"}

=============================================================================
