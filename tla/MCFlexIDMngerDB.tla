-------------------------- MODULE MCFlexIDMngerDB --------------------------
(***************************************************************************)
(* Small instances of FlexIDMngerDB.  "a" is a temporary ID; "0a" and "4a" *)
(* are the first two IDs its joins can be given, so that devices come back *)
(* with the IDs they got.                                                  *)
(***************************************************************************)
EXTENDS FlexIDMngerDB

MCDevices == {"a", "0a", "4a"}
MCHashes  == {"h"}

Join(d, codes, neighbors) ==
    [op |-> "join", device |-> d, codes |-> codes, codesOk |-> TRUE,
     neighbors |-> neighbors, neighborsOk |-> TRUE, fits |-> TRUE]

Item(cache, avoid) ==
    [hash |-> "h", cache |-> cache, segment |-> FALSE, collisionAvoid |-> avoid]

Register(d, items) ==
    [op |-> "register", device |-> d, items |-> items, itemsOk |-> TRUE,
     fits |-> TRUE]

SensorQuery(d) ==
    [op |-> "query", device |-> d, sensor |-> TRUE, requirementsOk |-> TRUE]

\* Joins of one name that go every way a join can go, what else a member
\* sends, and what a broken message does to the thread.
JoinMix ==
    { Join("a", 1, <<>>),
      Join("a", 1, <<"4a">>),
      Join("a", 2, <<>>),
      Join("a", 0, <<>>),
      [Join("a", 1, <<"4a">>) EXCEPT !.fits = FALSE],
      [Join("a", 1, <<>>) EXCEPT !.neighborsOk = FALSE],
      [Join("a", 1, <<>>) EXCEPT !.codesOk = FALSE],
      Join(NoDevice, 1, <<>>),
      [Register("0a", <<>>) EXCEPT !.itemsOk = FALSE],
      SensorQuery("0a"),
      [SensorQuery("0a") EXCEPT !.sensor = FALSE],
      [SensorQuery("0a") EXCEPT !.requirementsOk = FALSE],
      [op |-> "leave", device |-> "0a"],
      [op |-> "update", device |-> "0a"],
      [op |-> "garbage"] }

\* Two devices that join and register, with and without collision avoidance.
RegisterMix ==
    { Join("a", 1, <<>>),
      Register("0a", <<Item(FALSE, TRUE)>>),
      Register("4a", <<Item(FALSE, FALSE)>>),
      Register("0a", <<Item(FALSE, TRUE), Item(TRUE, TRUE)>>),
      [Register("4a", <<Item(FALSE, TRUE), Item(TRUE, FALSE)>>)
         EXCEPT !.fits = FALSE] }

\* The same client joins again and again.
SameNameMix == { Join("a", 1, <<>>) }

\* A device that joins and leaves.
LeaveMix == { Join("a", 1, <<>>), [op |-> "leave", device |-> "0a"] }

=============================================================================
