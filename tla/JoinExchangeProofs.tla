------------------------- MODULE JoinExchangeProofs -------------------------
(***************************************************************************)
(* Theorems about JoinExchange, for any clients, any lengths and any       *)
(* number of faults.                                                       *)
(***************************************************************************)
EXTENDS JoinExchange, TLAPS

-----------------------------------------------------------------------------
(***************************************************************************)
(* The inductive invariant.                                                *)
(***************************************************************************)
Packet == HeaderLen + MessageLen
Answer == HeaderLen + AnswerLen

\* What server.c has read, by how far it is.
ServerReads ==
    /\ server.pc \in {"off", "accept", "read"} => server.got = Unread
    /\ server.pc \in {"read", "write", "close"} => serves \in Clients
    /\ server.pc \in {"write", "close"} => server.got >= 0
    /\ Whole(server.got) => server.value = Packet

\* The bytes of a client that are on their way, ready, or read.
Sent(c) ==
    up[c].flight + up[c].ready + IF c = serves /\ server.got > 0 THEN server.got ELSE 0

ClientsSendOnce ==
    \A c \in Clients :
        /\ Sent(c) <= Packet
        /\ client[c].pc \in {"off", "write", "refused"} => Sent(c) = 0

\* Before it writes, the server has said nothing and nobody has read a thing.
BeforeAnswer == server.pc \in {"off", "accept", "read", "write"}

AnswersOnce ==
    \A c \in Clients :
        /\ down[c].flight + down[c].ready <= Answer
        /\ BeforeAnswer => down[c] = Silent /\ client[c].got = Unread
        /\ BeforeAnswer =>
             client[c].pc \in {"off", "write", "read", "crashed", "killed", "refused"}
        /\ server.pc = "off" => client[c].pc \in {"off", "refused"}
        /\ server.pc = "close" => down[c].end = "open"
        /\ client[c].pc = "killed" \/ (BeforeAnswer /\ client[c].pc = "crashed") => faults > 0

\* Only the client that is served is answered, and who left is not.
AnswersServed ==
    \A c \in Clients :
        /\ up[c].end # "open" => client[c].pc \in Ended
        /\ down[c].flight + down[c].ready > 0 => c = serves /\ server.got >= 0
        /\ client[c].got > 0 => c = serves /\ server.got >= 0
        /\ c = serves /\ server.got = 0 => client[c].pc \in Ended \ {"done"}

\* Of a join that was read whole, the acknowledgement is on its way or read.
Undisturbed == serves \in Clients /\ server.got = Packet /\ faults = 0

AnswerComes ==
    Undisturbed =>
        /\ up[serves].ready = 0 /\ up[serves].flight = 0
        /\ down[serves].end # "reset"
        /\ server.pc \in {"write", "close", "done"}
        /\ \/ /\ client[serves].pc = "read"
              /\ server.pc = "write" \/ down[serves].flight + down[serves].ready > 0
           \/ /\ client[serves].got > 0
              /\ client[serves].pc \in Ended
              /\ Whole(client[serves].got) =>
                   client[serves].pc = "done" /\ client[serves].value = Packet

SafeInv ==
    /\ TypeOK /\ ServerReads /\ ClientsSendOnce /\ AnswersOnce
    /\ AnswersServed /\ AnswerComes /\ AckNamesPacket

LEMMA Lengths ==
    /\ HeaderLen \in Nat /\ MessageLen \in Nat /\ AnswerLen \in Nat /\ MaxFaults \in Nat
    /\ HeaderLen > 0 /\ MessageLen > 0 /\ AnswerLen > 0
    /\ Packet \in Nat /\ Packet > HeaderLen /\ Answer \in Nat /\ Answer > HeaderLen
  BY LengthsAssumption DEF Packet, Answer

LEMMA SafeInvInit == Init => SafeInv
<1>. SUFFICES ASSUME Init PROVE SafeInv
  OBVIOUS
<1>. USE DEF Unread
<1>1. TypeOK
  BY Lengths DEF Init, TypeOK, Program, Stream, Ended, Fresh, Silent, Garbage
<1>2. /\ server.got = -2 /\ server.pc = "off"
      /\ \A c \in Clients :
           /\ client[c].pc = "off" /\ client[c].got = -2
           /\ up[c].flight = 0 /\ up[c].ready = 0 /\ up[c].end = "open"
           /\ down[c] = Silent /\ down[c].flight = 0 /\ down[c].ready = 0
  BY DEF Init, Fresh, Silent
<1>3. ServerReads
  BY <1>2, Lengths DEF ServerReads, Whole
<1>4. ASSUME NEW c \in Clients PROVE Sent(c) = 0 /\ Sent(c) <= Packet
  <2>1. Sent(c) = 0
    BY <1>2 DEF Sent
  <2>. QED
    BY <2>1, Lengths
<1>5. ClientsSendOnce
  BY <1>4 DEF ClientsSendOnce
<1>6. ASSUME NEW c \in Clients PROVE down[c].flight + down[c].ready <= Answer
  BY <1>2, Lengths
<1>7. AnswersOnce
  BY <1>2, <1>6 DEF AnswersOnce, BeforeAnswer
<1>8. AnswerComes /\ AckNamesPacket
  BY <1>2, Lengths DEF AnswerComes, Undisturbed, AckNamesPacket
<1>9. AnswersServed
  <2>1. ASSUME NEW c \in Clients
        PROVE  /\ up[c].end = "open" /\ down[c].flight + down[c].ready = 0
               /\ ~(client[c].got > 0) /\ server.got # 0
    BY <1>2
  <2>2. ASSUME NEW c \in Clients PROVE ~(down[c].flight + down[c].ready > 0)
    BY <2>1
  <2>. QED
    BY <2>1, <2>2 DEF AnswersServed
<1>. QED
  BY <1>1, <1>3, <1>5, <1>7, <1>8, <1>9 DEF SafeInv

-----------------------------------------------------------------------------
(***************************************************************************)
(* Streams and reads.                                                      *)
(***************************************************************************)
LEMMA StreamFields ==
    ASSUME NEW st \in Stream
    PROVE  /\ st.flight \in Nat /\ st.ready \in Nat /\ st.end \in {"open", "fin", "reset"}
           /\ st = [flight |-> st.flight, ready |-> st.ready, end |-> st.end]
  BY DEF Stream

LEMMA CloseIs ==
    ASSUME NEW st \in Stream, NEW unread \in BOOLEAN
    PROVE  /\ Close(st, unread) \in Stream
           /\ Close(st, unread).flight = st.flight
           /\ Close(st, unread).ready = st.ready
           /\ st.end # "reset" /\ ~unread => Close(st, unread).end = "fin"
  BY DEF Close, Stream

\* A read returns what is ready, or the end of a stream that has nothing left.
LEMMA ReadReturns ==
    ASSUME NEW st \in Stream, NEW len \in Taken(st)
    PROVE  \/ len = st.ready /\ len > 0
           \/ /\ st.ready = 0 /\ st.flight = 0 /\ st.end # "open"
              /\ len \in {-1, 0}
<1>. USE DEF Stream, Taken, Returned
<1>1. CASE st.ready > 0
  BY <1>1
<1>2. CASE st.ready = 0 /\ st.flight > 0
  BY <1>2
<1>3. CASE st.ready = 0 /\ st.flight = 0 /\ st.end = "open"
  BY <1>3
<1>4. CASE st.ready = 0 /\ st.flight = 0 /\ st.end = "fin"
  BY <1>4
<1>5. CASE st.ready = 0 /\ st.flight = 0 /\ st.end = "reset"
  BY <1>5
<1>. QED
  BY <1>1, <1>2, <1>3, <1>4, <1>5

\* What a program becomes by a read.
LEMMA AfterRead ==
    ASSUME NEW len \in Int, len >= -1, NEW value \in Garbage .. Packet, NEW pc,
           NEW s \in After(len, value, pc)
    PROVE  /\ s.got = len /\ s.value \in {Garbage, value}
           /\ s.pc \in {"error", "crashed", pc}
           /\ s = [pc |-> s.pc, got |-> s.got, value |-> s.value]
           /\ Whole(len) => s.pc = pc /\ s.value = value
           /\ len = -1 => s.pc = "error"
           /\ len # -1 => s.pc \in {"crashed", pc}
           /\ len # -1 /\ ~Whole(len) => len \in 0 .. HeaderLen - 1
<1>. USE DEF Parses, Whole, After
<1>1. CASE len = -1
  BY <1>1, Lengths
<1>2. CASE len # -1 /\ Parses(len)
  BY <1>2, Lengths
<1>3. CASE len # -1 /\ ~Parses(len)
  BY <1>3, Lengths
<1>. QED
  BY <1>1, <1>2, <1>3

\* When the server ends, streams keep their bytes, and the one it serves is not
\* reset unless something is left unread.
LEMMA ServerBecomesIs ==
    ASSUME TypeOK, NEW s, ServerBecomes(s), up' \in [Clients -> Stream]
    PROVE  /\ server' = s
           /\ backlog' \in Seq(Clients)
           /\ down' \in [Clients -> Stream]
           /\ \A c \in Clients :
                /\ down'[c].flight = down[c].flight /\ down'[c].ready = down[c].ready
                /\ c = serves /\ down[c].end # "reset" /\ up'[c].ready = 0 =>
                     down'[c].end # "reset"
           /\ s.pc \notin Ended => down' = down
<1>1. CASE s.pc \notin Ended
  BY <1>1 DEF ServerBecomes, TypeOK
<1>2. CASE s.pc \in Ended
  <2>1. /\ server' = s /\ backlog' = << >>
        /\ down' = [c \in Clients |->
                      IF Connected(c) THEN Close(down[c], c # serves \/ up'[c].ready > 0)
                      ELSE down[c]]
    BY <1>2 DEF ServerBecomes
  <2>2. ASSUME NEW c \in Clients
        PROVE  /\ down'[c] \in Stream
               /\ down'[c].flight = down[c].flight /\ down'[c].ready = down[c].ready
               /\ c = serves /\ down[c].end # "reset" /\ up'[c].ready = 0 =>
                    down'[c].end # "reset"
    <3>1. down[c] \in Stream
      BY DEF TypeOK
    <3>2. CASE Connected(c) /\ (c # serves \/ up'[c].ready > 0)
      <4>1. down'[c] = Close(down[c], TRUE)
        BY <2>1, <3>2 DEF Close
      <4>2. up'[c].ready > 0 => up'[c].ready # 0
        BY DEF Stream
      <4>. QED
        BY <3>1, <3>2, <4>1, <4>2, CloseIs
    <3>3. CASE Connected(c) /\ ~(c # serves \/ up'[c].ready > 0)
      <4>1. down'[c] = Close(down[c], FALSE)
        BY <2>1, <3>3 DEF Close
      <4>. QED
        BY <3>1, <4>1, CloseIs
    <3>4. CASE ~Connected(c)
      BY <2>1, <3>1, <3>4
    <3>. QED
      BY <3>2, <3>3, <3>4
  <2>3. backlog' \in Seq(Clients)
    BY <2>1
  <2>. QED
    BY <1>2, <2>1, <2>2, <2>3
<1>. QED
  BY <1>1, <1>2

-----------------------------------------------------------------------------
(***************************************************************************)
(* The server.                                                             *)
(***************************************************************************)
LEMMA ListenKeeps == ASSUME SafeInv, Listen PROVE SafeInv'
<1>. USE DEF SafeInv
<1>1. /\ server.pc = "off" /\ server'.pc = "accept"
      /\ server'.got = server.got /\ server'.value = server.value
      /\ UNCHANGED <<serves, client, backlog, up, down, faults>>
  BY DEF Listen, TypeOK, Program
<1>2. TypeOK'
  BY <1>1 DEF Listen, TypeOK, Program
<1>3. ServerReads' /\ AnswersServed'
  BY <1>1 DEF ServerReads, AnswersServed
<1>4. \A c \in Clients : Sent(c)' = Sent(c)
  BY <1>1 DEF Sent
<1>5. ClientsSendOnce'
  BY <1>1, <1>4 DEF ClientsSendOnce
<1>6. AnswersOnce' /\ AckNamesPacket'
  BY <1>1 DEF AnswersOnce, BeforeAnswer, AckNamesPacket
<1>7. AnswerComes'
  BY <1>1 DEF AnswerComes, Undisturbed
<1>. QED
  BY <1>2, <1>3, <1>5, <1>6, <1>7

LEMMA AcceptKeeps == ASSUME SafeInv, Accept PROVE SafeInv'
<1>. USE DEF SafeInv
<1>1. /\ server.pc = "accept" /\ server'.pc = "read" /\ server.got = Unread
      /\ server'.got = server.got /\ server'.value = server.value
      /\ UNCHANGED <<client, up, down, faults>>
  BY DEF Accept, TypeOK, Program, ServerReads
<1>2. serves' \in Clients /\ backlog' \in Seq(Clients)
  BY DEF Accept, TypeOK
<1>3. TypeOK'
  BY <1>1, <1>2 DEF Accept, TypeOK, Program
<1>4. ServerReads'
  BY <1>1, <1>2 DEF ServerReads
<1>9. AnswersServed'
  BY <1>1 DEF AnswersServed, AnswersOnce, BeforeAnswer, Silent, Unread
<1>5. \A c \in Clients : Sent(c)' = Sent(c)
  BY <1>1 DEF Sent, Unread
<1>6. ClientsSendOnce'
  BY <1>1, <1>5 DEF ClientsSendOnce
<1>7. AnswersOnce' /\ AckNamesPacket'
  BY <1>1 DEF AnswersOnce, BeforeAnswer, AckNamesPacket
<1>8. AnswerComes'
  BY <1>1, Lengths DEF AnswerComes, Undisturbed, Unread
<1>. QED
  BY <1>3, <1>4, <1>6, <1>7, <1>8, <1>9

LEMMA ServerReadKeeps == ASSUME SafeInv, ServerRead PROVE SafeInv'
<1>. USE DEF SafeInv
<1>0. PICK len \in Taken(up[serves]) :
        /\ up' = [up EXCEPT ![serves].ready = 0]
        /\ \/ /\ faults' = faults
              /\ \E s \in After(len, Packet, "write") : ServerBecomes(s)
           \/ Parses(len) /\ Fault /\ ServerBecomes(Uncopied(len, Packet))
  BY DEF ServerRead, Packet
<1>2. /\ serves \in Clients /\ server.pc = "read" /\ server.got = Unread
      /\ UNCHANGED <<serves, client>>
      /\ up[serves] \in Stream
  BY DEF ServerRead, ServerReads, TypeOK
<1>3. /\ \/ len = up[serves].ready /\ len > 0
         \/ /\ up[serves].ready = 0 /\ up[serves].flight = 0 /\ up[serves].end # "open"
            /\ len \in {-1, 0}
      /\ len \in Int /\ len >= -1
  BY <1>2, ReadReturns, StreamFields
<1>1. PICK s :
        /\ ServerBecomes(s)
        /\ s.got = len /\ s.value \in {Garbage, Packet}
        /\ s.pc \in {"error", "crashed", "write"}
        /\ s = [pc |-> s.pc, got |-> s.got, value |-> s.value]
        /\ Whole(len) => s.value = Packet /\ (s.pc = "write" \/ faults' > 0)
        /\ s.pc = "write" => len >= 0
        /\ faults' \in 0 .. MaxFaults /\ faults' >= faults
  <2>1. ASSUME NEW s \in After(len, Packet, "write"), ServerBecomes(s), faults' = faults
        PROVE  /\ s.got = len /\ s.value \in {Garbage, Packet}
               /\ s.pc \in {"error", "crashed", "write"}
               /\ s = [pc |-> s.pc, got |-> s.got, value |-> s.value]
               /\ Whole(len) => s.value = Packet /\ s.pc = "write"
               /\ s.pc = "write" => len >= 0
               /\ faults' \in 0 .. MaxFaults /\ faults' >= faults
    <3>1. Packet \in Garbage .. Packet
      BY Lengths DEF Garbage
    <3>. QED
      BY <1>3, <2>1, <3>1, AfterRead, Lengths DEF TypeOK
  <2>2. ASSUME Parses(len), Fault
        PROVE  /\ Uncopied(len, Packet) = [pc |-> "crashed", got |-> len, value |-> Packet]
               /\ faults' \in 0 .. MaxFaults /\ faults' >= faults /\ faults' > 0
    BY <2>2, Lengths DEF Uncopied, Fault, TypeOK
  <2>. QED
    BY <1>0, <2>1, <2>2
<1>4. /\ up' = [up EXCEPT ![serves].ready = 0]
      /\ up' \in [Clients -> Stream]
      /\ \A c \in Clients : up'[c].end = up[c].end
  BY <1>0, <1>2 DEF TypeOK, Stream
<1>6. /\ server' = s
      /\ backlog' \in Seq(Clients)
      /\ down' \in [Clients -> Stream]
      /\ \A c \in Clients :
           /\ down'[c].flight = down[c].flight /\ down'[c].ready = down[c].ready
           /\ c = serves /\ down[c].end # "reset" /\ up'[c].ready = 0 =>
                down'[c].end # "reset"
      /\ s.pc \notin Ended => down' = down
  BY <1>1, <1>4, ServerBecomesIs
<1>7. ASSUME NEW c \in Clients
      PROVE  Sent(c)' <= Sent(c) /\ Sent(c)' \in Nat /\ Sent(c) \in Nat
  <2>1. up[c].flight \in Nat /\ up[c].ready \in Nat /\ up'[c].flight = up[c].flight
    BY <1>4 DEF TypeOK, Stream
  <2>2. CASE c = serves
    <3>1. server'.got = len /\ serves' = serves
      BY <1>1, <1>2, <1>6
    <3>2. up'[c].ready = 0
      BY <1>2, <1>4, <2>2 DEF TypeOK, Stream
    <3>3. /\ Sent(c) = up[c].flight + up[c].ready
          /\ Sent(c)' = up[c].flight + IF len > 0 THEN len ELSE 0
      BY <1>2, <2>1, <2>2, <3>1, <3>2 DEF Sent, Unread
    <3>. QED
      BY <1>3, <2>1, <2>2, <3>3
  <2>3. CASE c # serves
    BY <1>2, <1>4, <2>1, <2>3 DEF Sent, TypeOK
  <2>. QED
    BY <2>2, <2>3
<1>8. ClientsSendOnce'
  BY <1>2, <1>7, Lengths DEF ClientsSendOnce
<1>9. len <= Packet
  <2>1. Sent(serves)' <= Packet
    BY <1>2, <1>8 DEF ClientsSendOnce
  <2>2. up'[serves].flight \in Nat /\ up'[serves].ready = 0
    BY <1>2, <1>4 DEF TypeOK, Stream
  <2>3. CASE len > 0
    <3>1. Sent(serves)' = up'[serves].flight + len
      BY <1>1, <1>2, <1>3, <1>6, <2>2, <2>3 DEF Sent
    <3>. QED
      BY <1>3, <2>1, <2>2, <3>1, Lengths
  <2>. QED
    BY <1>3, <2>3, Lengths
<1>10. TypeOK'
  <2>1. s \in Program({"accept", "read", "write", "close"})
    BY <1>1, <1>3, <1>9, Lengths DEF Program, Ended, Packet, Answer, Garbage, Unread
  <2>. QED
    BY <1>1, <1>2, <1>4, <1>6, <2>1 DEF TypeOK
<1>11. ServerReads'
  BY <1>1, <1>2, <1>3, <1>6 DEF ServerReads, Ended
<1>12. AnswersServed'
  <2>. SUFFICES ASSUME NEW c \in Clients
                PROVE  /\ up'[c].end # "open" => client[c].pc \in Ended
                       /\ down'[c].flight + down'[c].ready = 0 /\ client[c].got = Unread
                       /\ c = serves /\ len = 0 => client[c].pc \in Ended \ {"done"}
    BY <1>1, <1>2, <1>6 DEF AnswersServed, Unread
  <2>1. up'[c].end # "open" => client[c].pc \in Ended
    BY <1>4 DEF AnswersServed
  <2>2. down[c] = Silent /\ client[c].got = Unread /\ client[c].pc # "done"
    BY <1>2 DEF AnswersOnce, BeforeAnswer
  <2>3. down'[c].flight + down'[c].ready = 0
    BY <1>6, <2>2 DEF Silent
  <2>4. c = serves /\ len = 0 => up[c].end # "open"
    BY <1>3
  <2>. QED
    BY <2>1, <2>2, <2>3, <2>4 DEF AnswersServed
<1>13. AnswersOnce'
  BY <1>1, <1>2, <1>6 DEF AnswersOnce, BeforeAnswer, Ended, TypeOK
<1>14. AckNamesPacket'
  BY <1>2, <1>6, Lengths DEF AckNamesPacket, AnswersOnce, BeforeAnswer, Whole, Unread
<1>15. AnswerComes'
  <2>. SUFFICES ASSUME len = Packet, faults' = 0
                PROVE  /\ up'[serves].ready = 0 /\ up'[serves].flight = 0
                       /\ down'[serves].end # "reset"
                       /\ s.pc = "write" /\ client[serves].pc = "read"
    BY <1>1, <1>2, <1>6 DEF AnswerComes, Undisturbed
  <2>1. s.pc = "write" /\ down' = down /\ faults = 0
    BY <1>1, <1>6, Lengths DEF Whole, Ended, TypeOK
  <2>2. down'[serves].end = "open"
    BY <1>2, <2>1 DEF AnswersOnce, BeforeAnswer, Silent
  <2>3. up'[serves].ready = 0 /\ up'[serves].flight = up[serves].flight
    BY <1>2, <1>4 DEF TypeOK, Stream
  <2>4. up[serves].flight \in Nat /\ up[serves].ready = Packet
    BY <1>2, <1>3, Lengths DEF Stream
  <2>5. Sent(serves) = up[serves].flight + Packet
    BY <1>2, <2>4, Lengths DEF Sent, Unread
  <2>6. up[serves].flight = 0 /\ client[serves].pc \notin {"off", "write", "refused"}
    BY <1>2, <2>4, <2>5, Lengths DEF ClientsSendOnce
  <2>7. client[serves].pc = "read"
    BY <1>2, <2>1, <2>6, Lengths DEF AnswersOnce, BeforeAnswer
  <2>. QED
    BY <2>1, <2>2, <2>3, <2>6, <2>7
<1>. QED
  BY <1>8, <1>10, <1>11, <1>12, <1>13, <1>14, <1>15

\* What the end of the server keeps, however it comes.
LEMMA ServerEndsKeeps ==
    ASSUME SafeInv, NEW pc \in {"done", "crashed", "killed"}, server.pc # "off",
           ServerBecomes([server EXCEPT !.pc = pc]),
           UNCHANGED <<serves, client, up>>, faults' \in 0 .. MaxFaults, faults' >= faults
    PROVE  /\ TypeOK' /\ ServerReads' /\ ClientsSendOnce' /\ AnswersOnce'
           /\ AnswersServed' /\ AckNamesPacket'
<1>. USE DEF SafeInv
<1>1. /\ server' = [server EXCEPT !.pc = pc]
      /\ backlog' \in Seq(Clients) /\ down' \in [Clients -> Stream]
      /\ \A c \in Clients : down'[c].flight = down[c].flight /\ down'[c].ready = down[c].ready
  BY ServerBecomesIs DEF TypeOK
<1>2. server'.pc = pc /\ server'.got = server.got /\ server'.value = server.value
  BY <1>1 DEF TypeOK, Program
<1>3. TypeOK'
  BY <1>1 DEF TypeOK, Program, Ended
<1>4. ServerReads' /\ AnswersServed'
  BY <1>1, <1>2 DEF ServerReads, AnswersServed
<1>5. \A c \in Clients : Sent(c)' = Sent(c)
  BY <1>2 DEF Sent
<1>6. ClientsSendOnce'
  BY <1>5 DEF ClientsSendOnce
<1>7. faults > 0 => faults' > 0
  BY Lengths DEF TypeOK
<1>8. AnswersOnce'
  BY <1>1, <1>2, <1>7 DEF AnswersOnce, BeforeAnswer
<1>9. AckNamesPacket'
  BY <1>2 DEF AckNamesPacket
<1>. QED
  BY <1>3, <1>4, <1>6, <1>8, <1>9

LEMMA ServerWriteKeeps == ASSUME SafeInv, ServerWrite PROVE SafeInv'
<1>. USE DEF SafeInv
<1>1. CASE Fault /\ ServerBecomes([server EXCEPT !.pc = "crashed"])
  <2>1. /\ server.pc = "write" /\ UNCHANGED <<serves, client, up>>
        /\ faults' \in 0 .. MaxFaults /\ faults' >= faults /\ faults' # 0
    BY <1>1, Lengths DEF ServerWrite, Fault, TypeOK
  <2>2. PICK pc \in {"done", "crashed", "killed"} : pc = "crashed"
    OBVIOUS
  <2>3. ServerBecomes([server EXCEPT !.pc = pc])
    BY <1>1, <2>2
  <2>4. AnswerComes'
    BY <2>1 DEF AnswerComes, Undisturbed
  <2>. QED
    BY <2>1, <2>3, <2>4, ServerEndsKeeps
<1>2. CASE /\ server' = [server EXCEPT !.pc = "close"]
           /\ down' = [down EXCEPT ![serves].flight = @ + Written]
           /\ UNCHANGED <<backlog, faults>>
  <2>1. /\ server.pc = "write" /\ server'.pc = "close" /\ serves \in Clients
        /\ server'.got = server.got /\ server'.value = server.value
        /\ UNCHANGED <<serves, client, backlog, up, faults>>
    BY <1>2 DEF ServerWrite, TypeOK, Program, ServerReads
  <2>2. /\ down' = [down EXCEPT ![serves].flight = @ + Answer]
        /\ down[serves] = Silent
    BY <1>2, <2>1 DEF Written, Answer, AnswersOnce, BeforeAnswer
  <2>3. /\ down'[serves].flight = Answer /\ down'[serves].ready = 0
        /\ \A c \in Clients \ {serves} : down'[c] = down[c]
        /\ \A c \in Clients : down'[c].end = down[c].end
    BY <2>1, <2>2, Lengths DEF TypeOK, Stream, Silent
  <2>4. down' \in [Clients -> Stream]
    <3>1. down'[serves] = [flight |-> Answer, ready |-> 0, end |-> "open"]
      BY <2>1, <2>2, Lengths DEF TypeOK, Silent
    <3>2. down'[serves] \in Stream
      BY <3>1, Lengths DEF Stream
    <3>. QED
      BY <2>2, <2>3, <3>2 DEF TypeOK
  <2>5. TypeOK'
    BY <1>2, <2>1, <2>4 DEF TypeOK, Program
  <2>6. ServerReads'
    BY <2>1 DEF ServerReads
  <2>7. \A c \in Clients : Sent(c)' = Sent(c)
    BY <2>1 DEF Sent
  <2>8. ClientsSendOnce'
    BY <2>1, <2>7 DEF ClientsSendOnce
  <2>9. AnswersOnce'
    <3>. SUFFICES ASSUME NEW c \in Clients
                  PROVE  /\ down'[c].flight + down'[c].ready <= Answer
                         /\ down'[c].end = "open"
                         /\ client[c].pc = "killed" => faults > 0
      BY <2>1 DEF AnswersOnce, BeforeAnswer
    <3>1. down'[c].flight + down'[c].ready <= Answer
      BY <2>1, <2>3, Lengths DEF AnswersOnce
    <3>. QED
      BY <2>1, <2>3, <3>1 DEF AnswersOnce, BeforeAnswer, Silent
  <2>10. AnswersServed'
    BY <2>1, <2>3 DEF AnswersServed, ServerReads
  <2>11. AckNamesPacket'
    BY <2>1 DEF AckNamesPacket
  <2>12. AnswerComes'
    BY <2>1, <2>2, <2>3, Lengths DEF AnswerComes, Undisturbed, Silent
  <2>. QED
    BY <2>5, <2>6, <2>8, <2>9, <2>10, <2>11, <2>12
<1>. QED
  BY <1>1, <1>2 DEF ServerWrite

LEMMA ServerCloseKeeps == ASSUME SafeInv, ServerClose PROVE SafeInv'
<1>. USE DEF SafeInv
<1>1. PICK pc \in {"done", "crashed"} :
        /\ ServerBecomes([server EXCEPT !.pc = pc])
        /\ Parses(server.got) => pc = "done"
  BY DEF ServerClose
<1>2. /\ server.pc = "close" /\ serves \in Clients
      /\ UNCHANGED <<serves, client, up, faults>>
  BY DEF ServerClose, ServerReads
<1>4. /\ TypeOK' /\ ServerReads' /\ ClientsSendOnce' /\ AnswersOnce'
      /\ AnswersServed' /\ AckNamesPacket'
  <2>1. pc \in {"done", "crashed", "killed"}
    OBVIOUS
  <2>2. faults' \in 0 .. MaxFaults /\ faults' >= faults
    BY <1>2, Lengths DEF TypeOK
  <2>3. UNCHANGED <<serves, client, up>>
    BY <1>2
  <2>. QED
    BY <1>1, <1>2, <2>1, <2>2, <2>3, ServerEndsKeeps
<1>5. AnswerComes'
  <2>1. up' \in [Clients -> Stream]
    BY <1>2 DEF TypeOK
  <2>2. /\ server' = [server EXCEPT !.pc = pc]
        /\ \A c \in Clients :
             /\ down'[c].flight = down[c].flight /\ down'[c].ready = down[c].ready
             /\ c = serves /\ down[c].end # "reset" /\ up'[c].ready = 0 =>
                  down'[c].end # "reset"
    BY <1>1, <2>1, ServerBecomesIs
  <2>3. server'.pc = pc /\ server'.got = server.got
    BY <2>2 DEF TypeOK, Program
  <2>. SUFFICES ASSUME Undisturbed
                PROVE  /\ pc = "done"
                       /\ down'[serves].end # "reset"
    BY <1>2, <2>2, <2>3 DEF AnswerComes, Undisturbed
  <2>4. pc = "done"
    BY <1>1, Lengths DEF Undisturbed, Parses
  <2>5. down'[serves].end # "reset"
    BY <1>2, <2>2 DEF AnswerComes
  <2>. QED
    BY <2>4, <2>5
<1>. QED
  BY <1>4, <1>5

LEMMA KillServerKeeps == ASSUME SafeInv, KillServer PROVE SafeInv'
<1>. USE DEF SafeInv
<1>1. /\ ServerBecomes([server EXCEPT !.pc = "killed"])
      /\ UNCHANGED <<serves, client, up>> /\ faults' = faults + 1
      /\ server.pc # "off"
  BY DEF KillServer, Fault, Listening
<1>2. faults' \in 0 .. MaxFaults /\ faults' >= faults /\ faults' # 0
  BY <1>1, Lengths DEF KillServer, Fault, TypeOK
<1>3. /\ TypeOK' /\ ServerReads' /\ ClientsSendOnce' /\ AnswersOnce'
      /\ AnswersServed' /\ AckNamesPacket'
  <2>1. PICK pc \in {"done", "crashed", "killed"} : pc = "killed"
    OBVIOUS
  <2>2. ServerBecomes([server EXCEPT !.pc = pc])
    BY <1>1, <2>1
  <2>. QED
    BY <1>1, <1>2, <2>2, ServerEndsKeeps
<1>4. AnswerComes'
  BY <1>2 DEF AnswerComes, Undisturbed
<1>. QED
  BY <1>3, <1>4

LEMMA ServerKeeps == ASSUME SafeInv, Server PROVE SafeInv'
  BY AcceptKeeps, ServerReadKeeps, ServerWriteKeeps, ServerCloseKeeps DEF Server

-----------------------------------------------------------------------------
(***************************************************************************)
(* A client.                                                               *)
(***************************************************************************)
LEMMA ConnectKeeps ==
    ASSUME SafeInv, NEW c \in Clients, Connect(c) PROVE SafeInv'
<1>. USE DEF SafeInv
<1>1. /\ client[c].pc = "off"
      /\ UNCHANGED <<server, serves, up, down, faults>>
      /\ backlog' \in Seq(Clients)
  BY DEF Connect, TypeOK
<1>2. PICK pc \in {"write", "refused"} :
        /\ client' = [client EXCEPT ![c].pc = pc]
        /\ server.pc = "off" => pc = "refused"
  BY DEF Connect, Listening
<1>3. /\ client'[c].pc = pc /\ client'[c].got = client[c].got
      /\ \A d \in Clients \ {c} : client'[d] = client[d]
  BY <1>2 DEF TypeOK, Program
<1>4. TypeOK'
  BY <1>1, <1>2 DEF TypeOK, Program, Ended
<1>5. ServerReads'
  BY <1>1 DEF ServerReads
<1>6. \A d \in Clients : Sent(d)' = Sent(d)
  BY <1>1 DEF Sent
<1>7. ClientsSendOnce'
  BY <1>1, <1>3, <1>6 DEF ClientsSendOnce
<1>8. AnswersOnce'
  BY <1>1, <1>2, <1>3 DEF AnswersOnce, BeforeAnswer
<1>9. AckNamesPacket' /\ AnswersServed'
  BY <1>1, <1>2, <1>3 DEF AckNamesPacket, AnswersServed, Ended
<1>10. AnswerComes'
  BY <1>1, <1>3 DEF AnswerComes, Undisturbed, Ended
<1>. QED
  BY <1>4, <1>5, <1>7, <1>8, <1>9, <1>10

\* What a client that is killed, or crashes before it reads, leaves.
LEMMA ClientStopsKeeps ==
    ASSUME SafeInv, NEW c \in Clients, NEW pc \in {"crashed", "killed"},
           client[c].pc \in {"write", "read"}, Fault,
           ClientEnds(c, [client[c] EXCEPT !.pc = pc]),
           UNCHANGED <<server, serves, backlog, down>>
    PROVE  SafeInv'
<1>. USE DEF SafeInv
<1>1. /\ up[c] \in Stream
      /\ client' = [client EXCEPT ![c].pc = pc]
      /\ faults' \in 0 .. MaxFaults /\ faults' > 0
  BY Lengths DEF ClientEnds, Fault, TypeOK, Program
<1>2. /\ client'[c].pc = pc /\ client'[c].got = client[c].got
      /\ \A d \in Clients \ {c} : client'[d] = client[d]
  BY <1>1 DEF TypeOK, Program
<1>3. /\ up' \in [Clients -> Stream]
      /\ \A d \in Clients : up'[d].flight = up[d].flight /\ up'[d].ready = up[d].ready
  <2>1. PICK unread \in BOOLEAN : up' = [up EXCEPT ![c] = Close(@, unread)]
    <3>1. CASE down'[c].ready > 0
      <4>1. up' = [up EXCEPT ![c] = Close(@, TRUE)]
        BY <3>1 DEF ClientEnds, Close
      <4>. QED
        BY <4>1
    <3>2. CASE ~(down'[c].ready > 0)
      <4>1. up' = [up EXCEPT ![c] = Close(@, FALSE)]
        BY <3>2 DEF ClientEnds, Close
      <4>. QED
        BY <4>1
    <3>. QED
      BY <3>1, <3>2
  <2>2. /\ Close(up[c], unread) \in Stream
        /\ Close(up[c], unread).flight = up[c].flight
        /\ Close(up[c], unread).ready = up[c].ready
    BY <1>1, CloseIs
  <2>. QED
    BY <2>1, <2>2 DEF TypeOK
<1>11. \A d \in Clients \ {c} : up'[d] = up[d]
  BY DEF ClientEnds, TypeOK
<1>4. TypeOK'
  BY <1>1, <1>3 DEF TypeOK, Program, Ended
<1>5. ServerReads'
  BY <1>1 DEF ServerReads
<1>6. \A d \in Clients : Sent(d)' = Sent(d)
  BY <1>1, <1>3 DEF Sent
<1>7. ClientsSendOnce'
  BY <1>1, <1>2, <1>6 DEF ClientsSendOnce
<1>8. AnswersOnce'
  BY <1>1, <1>2 DEF AnswersOnce, BeforeAnswer
<1>9. AckNamesPacket'
  BY <1>1, <1>2 DEF AckNamesPacket
<1>12. AnswersServed'
  BY <1>1, <1>2, <1>11 DEF AnswersServed, Ended
<1>10. AnswerComes'
  BY <1>1 DEF AnswerComes, Undisturbed
<1>. QED
  BY <1>4, <1>5, <1>7, <1>8, <1>9, <1>10, <1>12

\* ClientWrite, when there is memory for the header.
Writes(c) ==
    /\ client[c].pc = "write"
    /\ client' = [client EXCEPT ![c].pc = "read"]
    /\ UNCHANGED <<server, serves, backlog, down, faults>>
    /\ up' = [up EXCEPT ![c].flight = @ + HeaderLen + MessageLen] \/ up' = up

LEMMA ClientWritesKeeps ==
    ASSUME SafeInv, NEW c \in Clients, Writes(c) PROVE SafeInv'
<1>. USE DEF SafeInv
<1>1. /\ client[c].pc = "write"
      /\ client' = [client EXCEPT ![c].pc = "read"]
      /\ UNCHANGED <<server, serves, backlog, down, faults>>
      /\ up' = [up EXCEPT ![c].flight = @ + HeaderLen + MessageLen] \/ up' = up
  BY DEF Writes
<1>2. /\ client'[c].pc = "read" /\ client'[c].got = client[c].got
      /\ \A d \in Clients \ {c} : client'[d] = client[d]
  BY <1>1 DEF TypeOK, Program
<1>3. /\ up' \in [Clients -> Stream]
      /\ up'[c].flight \in {up[c].flight, up[c].flight + Packet}
      /\ up'[c].ready = up[c].ready
      /\ \A d \in Clients \ {c} : up'[d] = up[d]
  <2>1. CASE up' = up
    BY <2>1 DEF TypeOK
  <2>2. CASE up' = [up EXCEPT ![c].flight = @ + HeaderLen + MessageLen]
    <3>1. up[c] \in Stream /\ up[c].flight \in Nat
      BY DEF TypeOK, Stream
    <3>2. up[c].flight + HeaderLen + MessageLen = up[c].flight + Packet
      BY <3>1, Lengths DEF Packet
    <3>3. up' = [up EXCEPT ![c] = [up[c] EXCEPT !.flight = up[c].flight + Packet]]
      BY <2>2, <3>2
    <3>4. [up[c] EXCEPT !.flight = up[c].flight + Packet] \in Stream
      BY <3>1, Lengths DEF Stream
    <3>. QED
      BY <3>1, <3>3, <3>4 DEF TypeOK, Stream
  <2>. QED
    BY <1>1, <2>1, <2>2
<1>4. TypeOK'
  BY <1>1, <1>3 DEF TypeOK, Program
<1>5. ServerReads'
  BY <1>1 DEF ServerReads
<1>6. /\ Sent(c) = 0 /\ Sent(c)' <= Packet
      /\ \A d \in Clients \ {c} : Sent(d)' = Sent(d)
  <2>1. Sent(c) = 0
    BY <1>1 DEF ClientsSendOnce
  <2>2. up[c].flight \in Nat /\ up[c].ready \in Nat /\ server.got \in Int
    BY Lengths DEF TypeOK, Stream, Program, Unread
  <2>3. Sent(c)' <= Packet
    BY <1>1, <1>3, <2>1, <2>2, Lengths DEF Sent
  <2>4. \A d \in Clients \ {c} : Sent(d)' = Sent(d)
    BY <1>1, <1>3 DEF Sent
  <2>. QED
    BY <2>1, <2>3, <2>4
<1>7. ClientsSendOnce'
  BY <1>2, <1>6 DEF ClientsSendOnce
<1>8. AnswersOnce'
  BY <1>1, <1>2 DEF AnswersOnce, BeforeAnswer
<1>9. AckNamesPacket'
  BY <1>1, <1>2 DEF AckNamesPacket
<1>11. up'[c].end = up[c].end
  <2>1. up[c] \in Stream
    BY DEF TypeOK
  <2>2. CASE up' = [up EXCEPT ![c].flight = @ + HeaderLen + MessageLen]
    BY <2>1, <2>2 DEF TypeOK, Stream
  <2>. QED
    BY <1>1, <2>2
<1>12. AnswersServed'
  BY <1>1, <1>2, <1>3, <1>11 DEF AnswersServed, Ended
<1>10. AnswerComes'
  BY <1>1, <1>2, <1>3 DEF AnswerComes, Undisturbed, Ended
<1>. QED
  BY <1>4, <1>5, <1>7, <1>8, <1>9, <1>10, <1>12

LEMMA ClientWriteKeeps ==
    ASSUME SafeInv, NEW c \in Clients, ClientWrite(c) PROVE SafeInv'
<1>1. /\ client[c].pc = "write" /\ UNCHANGED <<server, serves, backlog, down>>
      /\ \/ /\ client' = [client EXCEPT ![c].pc = "read"] /\ faults' = faults
            /\ up' = [up EXCEPT ![c].flight = @ + HeaderLen + MessageLen] \/ up' = up
         \/ Fault /\ ClientEnds(c, [client[c] EXCEPT !.pc = "crashed"])
  BY DEF ClientWrite
<1>2. CASE Fault /\ ClientEnds(c, [client[c] EXCEPT !.pc = "crashed"])
  <2>1. PICK pc \in {"crashed", "killed"} : pc = "crashed"
    OBVIOUS
  <2>2. ClientEnds(c, [client[c] EXCEPT !.pc = pc])
    BY <1>2, <2>1
  <2>. QED
    BY <1>1, <1>2, <2>2, ClientStopsKeeps
<1>. QED
  BY <1>1, <1>2, ClientWritesKeeps DEF Writes

LEMMA ClientReadKeeps ==
    ASSUME SafeInv, NEW c \in Clients, ClientRead(c) PROVE SafeInv'
<1>. USE DEF SafeInv
<1>0. PICK len \in Taken(down[c]) :
        /\ down' = [down EXCEPT ![c].ready = 0]
        /\ \/ /\ faults' = faults
              /\ \E end \in After(len, server.value, "done") : ClientEnds(c, end)
           \/ Parses(len) /\ Fault /\ ClientEnds(c, Uncopied(len, server.value))
  BY DEF ClientRead, Acknowledged
<1>2. /\ client[c].pc = "read" /\ down[c] \in Stream /\ up[c] \in Stream
      /\ UNCHANGED <<server, serves, backlog>>
  BY DEF ClientRead, TypeOK
<1>3. /\ \/ len = down[c].ready /\ len > 0
         \/ down[c].ready = 0 /\ down[c].flight = 0 /\ down[c].end # "open" /\ len \in {-1, 0}
      /\ len \in Int /\ len >= -1
  BY <1>2, ReadReturns, StreamFields
<1>4. ~BeforeAnswer /\ server.pc # "off"
  BY <1>2, <1>3 DEF AnswersOnce, BeforeAnswer, Silent
<1>5. len <= Answer
  BY <1>2, <1>3, Lengths DEF AnswersOnce, Stream
<1>1. PICK end :
        /\ ClientEnds(c, end)
        /\ end.got = len /\ end.value \in {Garbage, server.value}
        /\ end.pc \in {"error", "crashed", "done"}
        /\ end = [pc |-> end.pc, got |-> end.got, value |-> end.value]
        /\ Whole(len) => end.value = server.value /\ (end.pc = "done" \/ faults' > 0)
        /\ faults' \in 0 .. MaxFaults /\ faults' >= faults
  <2>1. ASSUME NEW end \in After(len, server.value, "done"), ClientEnds(c, end), faults' = faults
        PROVE  /\ end.got = len /\ end.value \in {Garbage, server.value}
               /\ end.pc \in {"error", "crashed", "done"}
               /\ end = [pc |-> end.pc, got |-> end.got, value |-> end.value]
               /\ Whole(len) => end.value = server.value /\ end.pc = "done"
               /\ faults' \in 0 .. MaxFaults /\ faults' >= faults
    <3>1. server.value \in Garbage .. Packet
      BY DEF TypeOK, Program, Packet
    <3>. QED
      BY <1>3, <2>1, <3>1, AfterRead, Lengths DEF TypeOK
  <2>2. ASSUME Parses(len), Fault
        PROVE  /\ Uncopied(len, server.value)
                    = [pc |-> "crashed", got |-> len, value |-> server.value]
               /\ faults' \in 0 .. MaxFaults /\ faults' >= faults /\ faults' > 0
    BY <2>2, Lengths DEF Uncopied, Fault, TypeOK
  <2>. QED
    BY <1>0, <2>1, <2>2
<1>7. /\ client' = [client EXCEPT ![c] = end]
      /\ client'[c] = end
      /\ \A d \in Clients \ {c} : client'[d] = client[d]
  BY <1>1 DEF ClientEnds, TypeOK
<1>8. /\ down' \in [Clients -> Stream]
      /\ down'[c].ready = 0 /\ down'[c].flight = down[c].flight
      /\ down'[c].end = down[c].end
      /\ \A d \in Clients \ {c} : down'[d] = down[d]
  BY <1>0, <1>2 DEF TypeOK, Stream
<1>9. /\ up' \in [Clients -> Stream]
      /\ \A d \in Clients : up'[d].flight = up[d].flight /\ up'[d].ready = up[d].ready
  <2>1. up' = [up EXCEPT ![c] = Close(@, FALSE)]
    BY <1>1, <1>8 DEF ClientEnds, Close
  <2>2. /\ Close(up[c], FALSE) \in Stream
        /\ Close(up[c], FALSE).flight = up[c].flight
        /\ Close(up[c], FALSE).ready = up[c].ready
    BY <1>2, CloseIs
  <2>. QED
    BY <2>1, <2>2 DEF TypeOK
<1>18. \A d \in Clients \ {c} : up'[d] = up[d]
  BY <1>1 DEF ClientEnds, TypeOK
<1>10. TypeOK'
  <2>1. end \in Program({"write", "read"})
    <3>1. end.got \in Unread .. HeaderLen + MessageLen + AnswerLen
      BY <1>1, <1>3, <1>5, Lengths DEF Answer, Unread
    <3>2. end.value \in Garbage .. HeaderLen + MessageLen
      <4>1. server.value \in Garbage .. HeaderLen + MessageLen
        BY DEF TypeOK, Program
      <4>2. Garbage \in Garbage .. HeaderLen + MessageLen
        BY Lengths DEF Garbage
      <4>. QED
        BY <1>1, <4>1, <4>2
    <3>. QED
      BY <1>1, <3>1, <3>2 DEF Program, Ended
  <2>. QED
    BY <1>1, <1>2, <1>7, <1>8, <1>9, <2>1 DEF TypeOK
<1>11. ServerReads'
  BY <1>2 DEF ServerReads
<1>12. \A d \in Clients : Sent(d)' = Sent(d)
  BY <1>2, <1>9 DEF Sent
<1>13. ClientsSendOnce'
  BY <1>1, <1>2, <1>7, <1>12 DEF ClientsSendOnce
<1>14. AnswersOnce'
  <2>. SUFFICES ASSUME NEW d \in Clients
                PROVE  /\ down'[d].flight + down'[d].ready <= Answer
                       /\ server.pc = "close" => down'[d].end = "open"
                       /\ client'[d].pc = "killed" => faults' > 0
    BY <1>2, <1>4 DEF AnswersOnce, BeforeAnswer
  <2>1. down'[d].flight + down'[d].ready <= Answer
    <3>1. down[c].flight <= Answer
      BY <1>2, Lengths DEF AnswersOnce, Stream
    <3>. QED
      BY <1>2, <1>8, <3>1, Lengths DEF AnswersOnce, Stream
  <2>2. server.pc = "close" => down'[d].end = "open"
    BY <1>8 DEF AnswersOnce
  <2>3. client'[d].pc = "killed" => faults' > 0
    BY <1>1, <1>7, Lengths DEF AnswersOnce, TypeOK
  <2>. QED
    BY <2>1, <2>2, <2>3
<1>15. AckNamesPacket'
  <2>1. Whole(server.got) => server.value = HeaderLen + MessageLen
    BY DEF ServerReads, Packet
  <2>. QED
    BY <1>1, <1>2, <1>7, <2>1 DEF AckNamesPacket
<1>16. AnswersServed'
  <2>1. ASSUME NEW d \in Clients
        PROVE  /\ up'[d].end # "open" => client'[d].pc \in Ended
               /\ d = serves /\ server.got = 0 => client'[d].pc \in Ended \ {"done"}
    BY <1>1, <1>2, <1>7, <1>18 DEF AnswersServed, Ended
  <2>2. ASSUME NEW d \in Clients
        PROVE  /\ down'[d].flight + down'[d].ready > 0 => d = serves /\ server.got >= 0
               /\ client'[d].got > 0 => d = serves /\ server.got >= 0
    <3>1. CASE d = c
      BY <1>1, <1>2, <1>3, <1>7, <1>8, <3>1 DEF AnswersServed, Stream
    <3>2. CASE d # c
      BY <1>7, <1>8, <3>2 DEF AnswersServed
    <3>. QED
      BY <3>1, <3>2
  <2>. QED
    BY <1>2, <2>1, <2>2 DEF AnswersServed
<1>17. AnswerComes'
  <2>. SUFFICES ASSUME Undisturbed, faults' = 0
                PROVE  /\ up'[serves].ready = 0 /\ up'[serves].flight = 0
                       /\ down'[serves].end # "reset"
                       /\ server.pc \in {"write", "close", "done"}
                       /\ \/ /\ client'[serves].pc = "read"
                             /\ down'[serves].flight + down'[serves].ready > 0
                          \/ /\ client'[serves].got > 0
                             /\ client'[serves].pc \in Ended
                             /\ Whole(client'[serves].got) =>
                                  /\ client'[serves].pc = "done"
                                  /\ client'[serves].value = Packet
    BY <1>1, <1>2, Lengths DEF AnswerComes, Undisturbed, TypeOK
  <2>1. /\ up'[serves].ready = 0 /\ up'[serves].flight = 0
        /\ down'[serves].end # "reset"
        /\ server.pc \in {"write", "close", "done"}
    BY <1>8, <1>9 DEF AnswerComes, Undisturbed
  <2>2. CASE serves # c
    BY <1>4, <1>7, <1>8, <2>1, <2>2 DEF AnswerComes, Undisturbed, BeforeAnswer
  <2>3. CASE serves = c
    <3>1. down[c].flight + down[c].ready > 0
      BY <1>2, <1>4, <2>3 DEF AnswerComes, BeforeAnswer, Ended
    <3>2. len > 0
      BY <1>3, <3>1
    <3>3. server.value = Packet
      BY Lengths DEF Undisturbed, ServerReads, Whole
    <3>. QED
      BY <1>1, <1>7, <2>1, <2>3, <3>2, <3>3 DEF Ended
  <2>. QED
    BY <2>2, <2>3
<1>. QED
  BY <1>10, <1>11, <1>13, <1>14, <1>15, <1>16, <1>17

LEMMA KillClientKeeps ==
    ASSUME SafeInv, NEW c \in Clients, KillClient(c) PROVE SafeInv'
<1>1. PICK pc \in {"crashed", "killed"} : pc = "killed"
  OBVIOUS
<1>2. ClientEnds(c, [client[c] EXCEPT !.pc = pc])
  BY <1>1 DEF KillClient
<1>. QED
  BY <1>2, ClientStopsKeeps DEF KillClient

LEMMA ClientKeeps == ASSUME SafeInv, NEW c \in Clients, Client(c) PROVE SafeInv'
  BY ClientWriteKeeps, ClientReadKeeps DEF Client

-----------------------------------------------------------------------------
(***************************************************************************)
(* Delivery.                                                               *)
(***************************************************************************)
LEMMA ArrivedIs ==
    ASSUME NEW st \in Stream, NEW n \in 1 .. st.flight
    PROVE  /\ Arrived(st, n) \in Stream
           /\ Arrived(st, n).flight + Arrived(st, n).ready = st.flight + st.ready
           /\ Arrived(st, n).ready > 0
           /\ Arrived(st, n).end = st.end
  BY DEF Arrived, Stream

LEMMA DeliverUpKeeps ==
    ASSUME SafeInv, NEW c \in Clients, DeliverUp(c) PROVE SafeInv'
<1>. USE DEF SafeInv
<1>1. PICK n \in 1 .. up[c].flight :
        /\ up' = [up EXCEPT ![c] = Arrived(@, n)]
        /\ down' = [down EXCEPT ![c] = IF Listening THEN @ ELSE Close(@, TRUE)]
        /\ UNCHANGED <<server, serves, client, backlog, faults>>
  BY DEF DeliverUp
<1>2. up[c] \in Stream /\ down[c] \in Stream
  BY DEF TypeOK
<1>3. /\ up'[c] = Arrived(up[c], n) /\ up'[c] \in Stream
      /\ up'[c].flight + up'[c].ready = up[c].flight + up[c].ready
      /\ \A d \in Clients \ {c} : up'[d] = up[d]
      /\ up' \in [Clients -> Stream]
  BY <1>1, <1>2, ArrivedIs DEF TypeOK
<1>4. /\ down'[c] \in Stream
      /\ down'[c].flight = down[c].flight /\ down'[c].ready = down[c].ready
      /\ Listening => down'[c] = down[c]
      /\ \A d \in Clients \ {c} : down'[d] = down[d]
      /\ down' \in [Clients -> Stream]
  BY <1>1, <1>2, CloseIs DEF TypeOK
<1>5. \A d \in Clients : Sent(d)' = Sent(d)
  BY <1>1, <1>2, <1>3 DEF Sent
<1>6. up[c].flight > 0 /\ up[c].flight \in Nat /\ up[c].ready \in Nat
  BY <1>1, <1>2 DEF Stream
<1>7. Sent(c) # 0
  <2>1. server.got \in Int
    BY Lengths DEF TypeOK, Program, Unread
  <2>. QED
    BY <1>6, <2>1 DEF Sent
<1>8. client[c].pc \notin {"off", "write", "refused"} /\ server.pc # "off"
  BY <1>7 DEF ClientsSendOnce, AnswersOnce
<1>9. TypeOK'
  BY <1>1, <1>3, <1>4 DEF TypeOK
<1>10. ServerReads' /\ AckNamesPacket'
  BY <1>1 DEF ServerReads, AckNamesPacket
<1>14. up'[c].end = up[c].end
  BY <1>2, <1>3, ArrivedIs
<1>15. AnswersServed'
  BY <1>1, <1>3, <1>4, <1>14 DEF AnswersServed
<1>11. ClientsSendOnce'
  BY <1>1, <1>5 DEF ClientsSendOnce
<1>12. AnswersOnce'
  <2>1. BeforeAnswer \/ server.pc = "close" => down' = down
    BY <1>1, <1>4, <1>8 DEF BeforeAnswer, Listening, Ended, TypeOK
  <2>. QED
    BY <1>1, <1>4, <2>1 DEF AnswersOnce, BeforeAnswer
<1>13. AnswerComes'
  <2>. SUFFICES ASSUME Undisturbed PROVE AnswerComes'
    BY <1>1 DEF AnswerComes, Undisturbed
  <2>1. serves # c
    BY <1>6 DEF AnswerComes
  <2>. QED
    BY <1>1, <1>3, <1>4, <2>1 DEF AnswerComes, Undisturbed
<1>. QED
  BY <1>9, <1>10, <1>11, <1>12, <1>13, <1>15

LEMMA DeliverDownKeeps ==
    ASSUME SafeInv, NEW c \in Clients, DeliverDown(c) PROVE SafeInv'
<1>. USE DEF SafeInv
<1>1. PICK n \in 1 .. down[c].flight :
        /\ \/ down' = [down EXCEPT ![c] = Arrived(@, n)]
           \/ down[c].end = "reset" /\ down' = [down EXCEPT ![c].flight = 0]
        /\ UNCHANGED <<server, serves, client, backlog, up, faults>>
  BY DEF DeliverDown
<1>2. down[c] \in Stream /\ down[c].flight > 0 /\ down[c].flight \in Nat /\ down[c].ready \in Nat
  BY <1>1 DEF TypeOK, Stream
<1>3. ~BeforeAnswer
  BY <1>2 DEF AnswersOnce, Silent
<1>4. /\ down'[c] \in Stream
      /\ down'[c].flight + down'[c].ready <= down[c].flight + down[c].ready
      /\ down[c].end # "reset" => down'[c].flight + down'[c].ready > 0
      /\ down'[c].end = down[c].end
      /\ \A d \in Clients \ {c} : down'[d] = down[d]
      /\ down' \in [Clients -> Stream]
  <2>1. CASE down' = [down EXCEPT ![c] = Arrived(@, n)]
    <3>1. down'[c] = Arrived(down[c], n)
      BY <2>1 DEF TypeOK
    <3>2. /\ Arrived(down[c], n) \in Stream
          /\ Arrived(down[c], n).flight + Arrived(down[c], n).ready
               = down[c].flight + down[c].ready
          /\ Arrived(down[c], n).end = down[c].end
      BY <1>2, ArrivedIs
    <3>3. down[c].flight + down[c].ready > 0
      BY <1>2
    <3>. QED
      BY <1>2, <2>1, <3>1, <3>2, <3>3 DEF TypeOK
  <2>2. CASE down[c].end = "reset" /\ down' = [down EXCEPT ![c].flight = 0]
    <3>1. down'[c] = [flight |-> 0, ready |-> down[c].ready, end |-> down[c].end]
      BY <1>2, <2>2 DEF TypeOK, Stream
    <3>2. down'[c] \in Stream
      BY <1>2, <3>1 DEF Stream
    <3>3. down'[c].flight + down'[c].ready <= down[c].flight + down[c].ready
      BY <1>2, <3>1
    <3>4. \A d \in Clients \ {c} : down'[d] = down[d]
      BY <2>2 DEF TypeOK
    <3>. QED
      BY <2>2, <3>1, <3>2, <3>3, <3>4 DEF TypeOK
  <2>. QED
    BY <1>1, <2>1, <2>2
<1>5. TypeOK'
  BY <1>1, <1>4 DEF TypeOK
<1>6. ServerReads' /\ AckNamesPacket'
  BY <1>1 DEF ServerReads, AckNamesPacket
<1>11. AnswersServed'
  BY <1>1, <1>2, <1>4 DEF AnswersServed
<1>7. \A d \in Clients : Sent(d)' = Sent(d)
  BY <1>1 DEF Sent
<1>8. ClientsSendOnce'
  BY <1>1, <1>7 DEF ClientsSendOnce
<1>9. AnswersOnce'
  <2>1. down'[c].flight + down'[c].ready <= Answer
    <3>1. down[c].flight + down[c].ready <= Answer
      BY DEF AnswersOnce
    <3>2. down'[c].flight \in Nat /\ down'[c].ready \in Nat
      BY <1>4 DEF Stream
    <3>. QED
      BY <1>2, <1>4, <3>1, <3>2, Lengths
  <2>. QED
    BY <1>1, <1>3, <1>4, <2>1 DEF AnswersOnce, BeforeAnswer
<1>10. AnswerComes'
  BY <1>1, <1>3, <1>4 DEF AnswerComes, Undisturbed, BeforeAnswer
<1>. QED
  BY <1>5, <1>6, <1>8, <1>9, <1>10, <1>11

-----------------------------------------------------------------------------
(***************************************************************************)
(* The theorems.                                                           *)
(***************************************************************************)
LEMMA StutterKeeps == ASSUME SafeInv, UNCHANGED vars PROVE SafeInv'
<1>. USE DEF SafeInv, vars
<1>1. TypeOK' /\ ServerReads' /\ AckNamesPacket' /\ AnswersServed'
  BY DEF TypeOK, ServerReads, AckNamesPacket, AnswersServed
<1>2. \A d \in Clients : Sent(d)' = Sent(d)
  BY DEF Sent
<1>3. ClientsSendOnce' /\ AnswersOnce' /\ AnswerComes'
  BY <1>2 DEF ClientsSendOnce, AnswersOnce, AnswerComes, BeforeAnswer, Undisturbed
<1>. QED
  BY <1>1, <1>3

LEMMA StepKeeps == SafeInv /\ [Next]_vars => SafeInv'
<1>. SUFFICES ASSUME SafeInv, [Next]_vars PROVE SafeInv'
  OBVIOUS
<1>1. CASE Listen \/ Server \/ KillServer
  BY <1>1, ListenKeeps, ServerKeeps, KillServerKeeps
<1>2. ASSUME NEW c \in Clients, Connect(c) \/ Client(c) \/ KillClient(c)
      PROVE  SafeInv'
  BY <1>2, ConnectKeeps, ClientKeeps, KillClientKeeps
<1>3. ASSUME NEW c \in Clients, DeliverUp(c) \/ DeliverDown(c)
      PROVE  SafeInv'
  BY <1>3, DeliverUpKeeps, DeliverDownKeeps
<1>4. CASE UNCHANGED vars
  BY <1>4, StutterKeeps
<1>. QED
  BY <1>1, <1>2, <1>3, <1>4 DEF Next

\* The inductive invariant of the two programs and their connections.
THEOREM SafeInvariant == Spec => []SafeInv
  BY SafeInvInit, StepKeeps, PTL DEF Spec

\* Programs and connections stay within their types, for any lengths.
THEOREM TypeCorrect == Spec => []TypeOK
<1>1. SafeInv => TypeOK
  BY DEF SafeInv
<1>. QED
  BY <1>1, SafeInvariant, PTL

\* However its packet was cut, a client that reads a whole acknowledgement of
\* a header read whole is told the length it sent (resp->ack).
THEOREM AcksNameTheirPacket == Spec => []AckNamesPacket
<1>1. SafeInv => AckNamesPacket
  BY DEF SafeInv
<1>. QED
  BY <1>1, SafeInvariant, PTL

\* Whatever is lost, cut or killed, no client is acknowledged for nothing: the
\* one that reads an acknowledgement is served, and some of its bytes were read
\* (server.c, which goes on after a read of nothing).
THEOREM AcksAreAboutBytes == Spec => []AcksAnswerBytes
<1>1. ASSUME SafeInv PROVE AcksAnswerBytes
  <2>. SUFFICES ASSUME NEW c \in Clients, client[c].pc = "done", Whole(client[c].got)
                PROVE  c = serves /\ server.got > 0
    BY DEF AcksAnswerBytes
  <2>1. client[c].got > 0
    BY <1>1, Lengths DEF SafeInv, TypeOK, Program, Whole, Unread
  <2>2. c = serves /\ server.got >= 0 /\ server.got # 0
    BY <1>1, <2>1 DEF SafeInv, AnswersServed
  <2>3. server.got \in Int
    BY <1>1, Lengths DEF SafeInv, TypeOK, Program, Unread
  <2>. QED
    BY <2>2, <2>3
<1>. QED
  BY <1>1, SafeInvariant, PTL

\* A join that the server read whole is acknowledged, if nobody was killed or out
\* of memory: its end is not reset before the answer is read (server.c).
THEOREM WholeJoinsAcknowledged == Spec => []WholeJoinAcknowledged
<1>1. SafeInv => WholeJoinAcknowledged
  <2>. SUFFICES ASSUME SafeInv, serves # None, server.got = Packet, faults = 0,
                       client[serves].pc \in Ended,
                       client[serves].got \notin 1 .. HeaderLen - 1
                PROVE  client[serves].pc = "done" /\ client[serves].value = Packet
    BY DEF WholeJoinAcknowledged, Packet
  <2>1. serves \in Clients /\ Undisturbed
    BY DEF SafeInv, TypeOK, Undisturbed
  <2>2. client[serves].got > 0 /\ client[serves].got \in Int
    BY <2>1, Lengths DEF SafeInv, AnswerComes, Ended, TypeOK, Program, Unread
  <2>3. Whole(client[serves].got)
    BY <2>2, Lengths DEF Whole
  <2>. QED
    BY <2>1, <2>3 DEF SafeInv, AnswerComes, Ended
<1>. QED
  BY <1>1, SafeInvariant, PTL

=============================================================================
