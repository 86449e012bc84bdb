--------------------------- MODULE MCFlexIDMnger ---------------------------
(***************************************************************************)
(* Small instances of FlexIDMnger.  "a" is a temporary ID; "a0" and "a4"   *)
(* are the first two IDs its joins can be given.                           *)
(***************************************************************************)
EXTENDS FlexIDMnger

MCDevices    == {"a", "a0", "a4"}
MCHashes     == {"h"}
MCAttributes == {"x", "y"}

Join(d, codes, neighbors) ==
    [op |-> "join", device |-> d, codes |-> codes, codesOk |-> TRUE,
     neighbors |-> neighbors, neighborsOk |-> TRUE]

OneItem(cache, avoid, attributes) ==
    [hash |-> "h", cache |-> cache, segment |-> FALSE, collisionAvoid |-> avoid,
     attributes |-> attributes]

Register(d, items) ==
    [op |-> "register", device |-> d, items |-> items, itemsOk |-> TRUE]

Deregister(d, id) ==
    [op |-> "update", device |-> d, id |-> id, deregister |-> TRUE,
     attributes |-> <<>>, attributesOk |-> TRUE]

\* Two devices that join, register, deregister and leave.
RegisterMix ==
    { Join("a", 1, <<>>),
      Join("a", 1, <<"a4">>),
      Register("a0", <<OneItem(FALSE, TRUE, <<>>)>>),
      Register("a4", <<OneItem(FALSE, TRUE, <<>>)>>),
      Register("a0", <<OneItem(FALSE, TRUE, <<>>), OneItem(TRUE, FALSE, <<>>)>>),
      Deregister("a0", "h0"),
      [op |-> "leave", device |-> "a0"] }

\* Everything once, with what a broken message does to the thread.
AllMix ==
    { Join("a", 1, <<>>),
      Join("a", 2, <<>>),
      [Join("a", 1, <<>>) EXCEPT !.neighborsOk = FALSE],
      [Join("a", 1, <<>>) EXCEPT !.codesOk = FALSE],
      Join(NoDevice, 1, <<>>),
      Register("a0", <<OneItem(FALSE, TRUE, <<"x">>)>>),
      [Register("a0", <<>>) EXCEPT !.itemsOk = FALSE],
      Deregister("a0", "h0"),
      [Deregister("a0", "h0") EXCEPT !.deregister = FALSE, !.attributes = <<"y">>],
      [Deregister("a0", "h0") EXCEPT !.deregister = FALSE, !.attributesOk = FALSE],
      [op |-> "query", device |-> "a0", requirementsOk |-> TRUE],
      [op |-> "query", device |-> "a0", requirementsOk |-> FALSE],
      [op |-> "leave", device |-> "a0"],
      [op |-> "garbage"] }

\* A registration of two items with different attributes, as the sample of
\* client/publisher.py.
SampleMix ==
    { Join("a", 1, <<>>),
      Register("a0", <<OneItem(TRUE, FALSE, <<"x", "x">>),
                       OneItem(FALSE, TRUE, <<"y">>)>>) }

=============================================================================
