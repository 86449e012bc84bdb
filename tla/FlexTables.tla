----------------------------- MODULE FlexTables -----------------------------
(***************************************************************************)
(* The tables of resolver/2017/database_schema_versatile.sql that the      *)
(* FlexID managers use: rows reduced to their keys, and what MySQL checks  *)
(* and does on one statement.                                              *)
(***************************************************************************)
EXTENDS Naturals, Sequences

DeviceRow(d)          == [table |-> "Device",       id |-> d, device |-> d]
RegisterListRow(p, d) == [table |-> "RegisterList", id |-> p, device |-> d]

\* Mistake: the two columns of Neighbor the wrong way round.
NeighborRow_ColumnsSwapped(n, d) == [table |-> "Neighbor", id |-> d, device |-> n]

NeighborRow(n, d) == [table |-> "Neighbor", id |-> n, device |-> d]

\* Mistake: RegisterList without a primary key.
SameKey_NoListKey(q, r) ==
    q.table = r.table /\ q.id = r.id /\ q.table # "RegisterList"

\* Primary keys: deviceId, neighborId, and (providingId, deviceId).
SameKey(q, r) ==
    /\ q.table = r.table
    /\ q.id = r.id
    /\ q.table = "RegisterList" => q.device = r.device

\* The key checks of one INSERT into the tables T: primary and foreign.
Accepts(T, row) ==
    /\ \A r \in T : ~SameKey(r, row)
    /\ row.table # "Device" => DeviceRow(row.device) \in T

FirstRows(rows, k) == {rows[i] : i \in 1 .. k}

\* The first k of rows can be inserted into T one after the other.
Executed(T, rows, k) ==
    \A i \in 1 .. k : Accepts(T \cup FirstRows(rows, i - 1), rows[i])

\* DELETE FROM table WHERE id: rows of a deleted device go with it (ON DELETE
\* CASCADE).
Deleted(T, table, id) ==
    {r \in T : /\ ~(r.table = table /\ r.id = id)
               /\ ~(table = "Device" /\ r.device = id)}

=============================================================================
