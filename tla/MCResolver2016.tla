-------------------------- MODULE MCResolver2016 --------------------------
(***************************************************************************)
(* Small instances of Resolver2016: a server of each program, on the same  *)
(* tables; that of resolver_per.py has two threads.                        *)
(***************************************************************************)
EXTENDS Resolver2016, TLC

CONSTANTS
    per, plain,      \* a process of resolver_per.py, one of resolver.py
    per1, per2, one  \* two threads of the first, one of the second

Both  == {per, plain}
OfPer == {per}
Plain == {plain}
None  == {}

AllThreads == {per1, per2, one}
OneThread  == {one}
Processor  == [t \in AllThreads |-> IF t = one THEN plain ELSE per]
Alone      == [t \in OneThread |-> plain]

Symmetry == Permutations({per1, per2})

AJoin  == [op |-> "Join", interfaces |-> TRUE, neighbors |-> TRUE, ok |-> TRUE]
ALeave == [op |-> "Leave", device |-> 1, ok |-> TRUE]
AnUpdate(services) ==
    [op |-> "Update", device |-> 1, ok |-> TRUE, services |-> services]
ARequest == [op |-> "Request", device |-> 1, ok |-> TRUE]
A(kind, attributes) == [kind |-> kind, attributes |-> attributes]

\* Joins of a device that can be reached and of one that cannot, the leave of the
\* first device, its updates that need no column, one, or two more, with services
\* of every kind, and requests.
AllMix ==
    { AJoin,
      [AJoin EXCEPT !.interfaces = FALSE],
      ALeave,
      AnUpdate(<<A("Web", 1), A("Web", 3)>>),
      AnUpdate(<<A("Web", 1), A("unknown", 2)>>),
      AnUpdate(<<A("ImageTransfer", 1)>>),
      ARequest }

\* One device with one service, and requests for it.
RequestsMix == { AJoin, AnUpdate(<<A("Web", 1)>>), ARequest }

\* The part of their behaviours where nothing fails and no more is stored.
OneService ==
    /\ faults = 0
    /\ Cardinality(db.rows["Device"]) <= 1 /\ Cardinality(db.rows["Service"]) <= 1

\* Of some texts, just one is last.
ASSUME TextsAreOrdered ==
    \A ids \in SUBSET {1, 2, 9, 10, 11, 20, 99, 100, 102, 119} \ {{}} :
        Cardinality(LastTexts(ids)) = 1

=============================================================================
