---------------------------- MODULE JoinExchange ----------------------------
(***************************************************************************)
(* app/: the join of client.c and its acknowledgement by server.c.         *)
(*                                                                         *)
(* The server serves the one connection it accepts, and ends.  Each side   *)
(* writes one packet, which may arrive in pieces, and takes what a single  *)
(* read returns for the packet of the other.  The code ignores that        *)
(* parse_flex_header refused it, and goes on with a pointer that nothing   *)
(* has set: the program crashes, or uses what happens to be there.  The    *)
(* headers are allocated without a look at the result, and a program that  *)
(* gets no memory for one crashes too.                                     *)
(***************************************************************************)
EXTENDS Integers, Sequences

CONSTANTS
    Clients,     \* runs of client.c
    HeaderLen,   \* DEFAULT_HEADER_LEN, the size of struct flexhdr
    MessageLen,  \* the message of the join
    AnswerLen,   \* the message of its acknowledgement
    MaxFaults    \* bound: how many programs are killed or get no memory

ASSUME LengthsAssumption ==
    /\ HeaderLen \in Nat \ {0} /\ MessageLen \in Nat \ {0} /\ AnswerLen \in Nat \ {0}
    /\ MaxFaults \in Nat

VARIABLES
    server,   \* how far server.c is, and what it has read
    serves,   \* the client whose connection it accepted
    client,   \* how far each client.c is, and what it has read
    backlog,  \* the connections that wait to be accepted
    up,       \* what each client wrote, and what of it has come
    down,     \* what was written to each client, and what of it has come
    faults    \* how many programs were killed or got no memory

vars == <<server, serves, client, backlog, up, down, faults>>

None    == "none"
Garbage == -1
Unread  == -2

\* What a read returned, and the packet length or acknowledgement in it.
Fresh == [pc |-> "off", got |-> Unread, value |-> Garbage]
Ended == {"done", "error", "crashed", "killed", "refused"}

\* Bytes on their way, bytes a read would return, and what follows them.
Silent == [flight |-> 0, ready |-> 0, end |-> "open"]

Init ==
    /\ server = Fresh
    /\ serves = None
    /\ client = [c \in Clients |-> Fresh]
    /\ backlog = << >>
    /\ up   = [c \in Clients |-> Silent]
    /\ down = [c \in Clients |-> Silent]
    /\ faults = 0

-----------------------------------------------------------------------------
(***************************************************************************)
(* TCP: bytes arrive in pieces; what a program leaves unread when it ends, *)
(* and what is sent to it later, is answered with a reset.                 *)
(***************************************************************************)
Listening    == server.pc \notin {"off"} \cup Ended
Connected(c) == client[c].pc \notin {"off", "refused"}

Close(stream, unread) ==
    [stream EXCEPT !.end = IF unread \/ @ = "reset" THEN "reset" ELSE "fin"]

Arrived(stream, n) ==
    [flight |-> stream.flight - n, ready |-> stream.ready + n, end |-> stream.end]

DeliverUp(c) ==
    \E n \in 1 .. up[c].flight :
        /\ up' = [up EXCEPT ![c] = Arrived(@, n)]
        /\ down' = [down EXCEPT ![c] = IF Listening THEN @ ELSE Close(@, TRUE)]
        /\ UNCHANGED <<server, serves, client, backlog, faults>>

\* A reset may overtake bytes, which are lost then.
DeliverDown(c) ==
    \E n \in 1 .. down[c].flight :
        /\ \/ down' = [down EXCEPT ![c] = Arrived(@, n)]
           \/ down[c].end = "reset" /\ down' = [down EXCEPT ![c].flight = 0]
        /\ UNCHANGED <<server, serves, client, backlog, up, faults>>

\* What a read may return: all that has come, 0 at the end, -1 for a reset, or
\* 0 when a write had that error already.
Returned(stream) ==
    IF stream.ready > 0 THEN {stream.ready}
    ELSE IF stream.flight > 0 THEN {}
    ELSE [open |-> {}, fin |-> {0}, reset |-> {-1, 0}][stream.end]

\* The server becomes s; when it ends, what it has open is closed.
ServerBecomes(s) ==
    /\ server' = s
    /\ IF s.pc \in Ended
       THEN /\ backlog' = << >>
            /\ down' = [c \in Clients |->
                          IF Connected(c) THEN Close(down[c], c # serves \/ up'[c].ready > 0)
                          ELSE down[c]]
       ELSE UNCHANGED <<backlog, down>>

ClientEnds(c, end) ==
    /\ client' = [client EXCEPT ![c] = end]
    /\ up' = [up EXCEPT ![c] = Close(@, down'[c].ready > 0)]

-----------------------------------------------------------------------------
(***************************************************************************)
(* What both programs do with what they read.                              *)
(***************************************************************************)
\* parse_flex_header
Parses(len) == len >= HeaderLen

\* Mistake: the read does not wait.
Taken_Unwaited(stream) == Returned(stream) \cup {0}

\* Mistake: read again as long as nothing is read.
Taken_Repeated(stream) == Returned(stream) \ {0}

\* One read, of whatever there is.
Taken(stream) == Returned(stream)

\* The program after a read of len bytes, of a packet that says value, if it
\* goes on to pc.  print_flex_header uses the pointer, set or not; a short
\* packet leaves it unset.
After(len, value, pc) ==
    IF len = -1 THEN {[pc |-> "error", got |-> len, value |-> Garbage]}
    ELSE IF Parses(len) THEN {[pc |-> pc, got |-> len, value |-> value]}
    ELSE {[pc |-> p, got |-> len, value |-> Garbage] : p \in {"crashed", pc}}

\* parse_flex_header copies the header into what malloc gave it, be it NULL.
Uncopied(len, value) == [pc |-> "crashed", got |-> len, value |-> value]

Fault == faults < MaxFaults /\ faults' = faults + 1

-----------------------------------------------------------------------------
(***************************************************************************)
(* server.c.                                                               *)
(***************************************************************************)
Listen ==
    /\ server.pc = "off"
    /\ server' = [server EXCEPT !.pc = "accept"]
    /\ UNCHANGED <<serves, client, backlog, up, down, faults>>

Accept ==
    /\ server.pc = "accept" /\ backlog # << >>
    /\ server' = [server EXCEPT !.pc = "read"]
    /\ serves' = Head(backlog)
    /\ backlog' = Tail(backlog)
    /\ UNCHANGED <<client, up, down, faults>>

ServerRead ==
    /\ server.pc = "read"
    /\ \E len \in Taken(up[serves]) :
         /\ up' = [up EXCEPT ![serves].ready = 0]
         /\ \/ /\ UNCHANGED faults
               /\ \E s \in After(len, HeaderLen + MessageLen, "write") : ServerBecomes(s)
            \/ /\ Parses(len) /\ Fault
               /\ ServerBecomes(Uncopied(len, HeaderLen + MessageLen))
    /\ UNCHANGED <<serves, client>>

\* Mistake: the length of the answer is taken before it is set.
Written_Unset == 0

Written == HeaderLen + AnswerLen

\* init_flex_header sets the IDs of the header, allocated or not.
ServerWrite ==
    /\ server.pc = "write"
    /\ UNCHANGED <<serves, client, up>>
    /\ \/ /\ server' = [server EXCEPT !.pc = "close"]
          /\ down' = [down EXCEPT ![serves].flight = @ + Written]
          /\ UNCHANGED <<backlog, faults>>
       \/ Fault /\ ServerBecomes([server EXCEPT !.pc = "crashed"])

\* free_flex_header(flex) may crash, if flex was never set.
ServerClose ==
    /\ server.pc = "close"
    /\ up' = up
    /\ \E pc \in IF Parses(server.got) THEN {"done"} ELSE {"done", "crashed"} :
         ServerBecomes([server EXCEPT !.pc = pc])
    /\ UNCHANGED <<serves, client, faults>>

-----------------------------------------------------------------------------
(***************************************************************************)
(* client.c.                                                               *)
(***************************************************************************)
\* connect: the server need not have accepted.
Connect(c) ==
    /\ client[c].pc = "off"
    /\ IF Listening
       THEN /\ client' = [client EXCEPT ![c].pc = "write"]
            /\ backlog' = Append(backlog, c)
       ELSE /\ client' = [client EXCEPT ![c].pc = "refused"]
            /\ UNCHANGED backlog
    /\ UNCHANGED <<server, serves, up, down, faults>>

\* What write returns is printed, and is not looked at; before it, the header
\* is allocated as the server's is.
ClientWrite(c) ==
    /\ client[c].pc = "write"
    /\ \/ /\ client' = [client EXCEPT ![c].pc = "read"]
          /\ \/ up' = [up EXCEPT ![c].flight = @ + HeaderLen + MessageLen]
             \/ down[c].end = "reset" /\ up' = up
          /\ UNCHANGED <<down, faults>>
       \/ Fault /\ down' = down /\ ClientEnds(c, [client[c] EXCEPT !.pc = "crashed"])
    /\ UNCHANGED <<server, serves, backlog>>

\* Mistake: the bytes read are acknowledged.
Acknowledged_Read == server.got

\* Mistake: the byte that comes next is named.
Acknowledged_Next == server.value + 1

\* resp->ack, but for the sequence number that it is added to.
Acknowledged == server.value

ClientRead(c) ==
    /\ client[c].pc = "read"
    /\ \E len \in Taken(down[c]) :
         /\ down' = [down EXCEPT ![c].ready = 0]
         /\ \/ /\ UNCHANGED faults
               /\ \E end \in After(len, Acknowledged, "done") : ClientEnds(c, end)
            \/ Parses(len) /\ Fault /\ ClientEnds(c, Uncopied(len, Acknowledged))
    /\ UNCHANGED <<server, serves, backlog>>

-----------------------------------------------------------------------------
KillServer ==
    /\ Listening
    /\ Fault
    /\ up' = up
    /\ ServerBecomes([server EXCEPT !.pc = "killed"])
    /\ UNCHANGED <<serves, client>>

KillClient(c) ==
    /\ client[c].pc \in {"write", "read"}
    /\ Fault
    /\ down' = down
    /\ ClientEnds(c, [client[c] EXCEPT !.pc = "killed"])
    /\ UNCHANGED <<server, serves, backlog>>

Server == Accept \/ ServerRead \/ ServerWrite \/ ServerClose

Client(c) == ClientWrite(c) \/ ClientRead(c)

Next ==
    \/ Listen \/ Server \/ KillServer
    \/ \E c \in Clients :
         \/ Connect(c) \/ Client(c) \/ KillClient(c)
         \/ DeliverUp(c) \/ DeliverDown(c)

\* Nobody has to start a program; one that runs goes on when it can, and what
\* is sent arrives, the end of a connection too.
Fairness ==
    /\ WF_vars(Server)
    /\ \A c \in Clients :
         WF_vars(Client(c)) /\ WF_vars(DeliverUp(c)) /\ WF_vars(DeliverDown(c))

Spec == Init /\ [][Next]_vars /\ Fairness

-----------------------------------------------------------------------------
Program(steps) ==
    [pc : {"off"} \cup steps \cup Ended,
     got : Unread .. HeaderLen + MessageLen + AnswerLen,
     value : Garbage .. HeaderLen + MessageLen]

Stream == [flight : Nat, ready : Nat, end : {"open", "fin", "reset"}]

TypeOK ==
    /\ server \in Program({"accept", "read", "write", "close"})
    /\ serves \in Clients \cup {None}
    /\ client \in [Clients -> Program({"write", "read"})]
    /\ backlog \in Seq(Clients)
    /\ up \in [Clients -> Stream] /\ down \in [Clients -> Stream]
    /\ faults \in 0 .. MaxFaults

Whole(n) == n >= HeaderLen

\* An acknowledgement that a client reads names the packet length the client
\* sent, however its packet was cut into reads, if at least the header was in
\* the read of the server (resp->ack, parse_flex_header).
AckNamesPacket ==
    \A c \in Clients :
        client[c].pc = "done" /\ Whole(client[c].got) /\ Whole(server.got)
            => client[c].value = HeaderLen + MessageLen

\* The server goes on after a read of nothing, yet no client is acknowledged for
\* nothing: who reads an acknowledgement is the client that is served, and the
\* server has read some of its bytes.  An empty read means that the client is
\* gone (server.c, which takes any length but -1).
AcksAnswerBytes ==
    \A c \in Clients :
        client[c].pc = "done" /\ Whole(client[c].got) => c = serves /\ server.got > 0

\* When nobody was killed or out of memory, the server read the packet of its
\* client whole, and the first read of the client was not cut inside the header,
\* the client ends with the acknowledgement: the server's end does not cost it
\* (server.c writes before it closes, and leaves nothing unread).
WholeJoinAcknowledged ==
    (serves # None /\ server.got = HeaderLen + MessageLen /\ faults = 0) =>
        LET c == client[serves] IN
        c.pc \in Ended /\ c.got \notin 1 .. HeaderLen - 1 =>
            c.pc = "done" /\ c.value = HeaderLen + MessageLen

\* A client that runs ends, the one that is served and those that wait to be
\* accepted, whatever happens to the process of the server while its host stays
\* up; and the server ends after its first client.
EveryoneEnds ==
    /\ \A c \in Clients : client[c].pc \in {"write", "read"} ~> client[c].pc \in Ended
    /\ serves # None ~> server.pc \in Ended

=============================================================================
