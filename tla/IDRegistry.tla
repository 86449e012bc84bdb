----------------------------- MODULE IDRegistry -----------------------------
(***************************************************************************)
(* What a FlexID manager promises the devices of a network, without any    *)
(* cache, database or message: an ID it hands out becomes a member once,   *)
(* and a registration adds provisions under IDs nobody provides yet,       *)
(* wherever the registering device asked for that, until a device leaves   *)
(* or an object is deregistered.                                           *)
(***************************************************************************)
EXTENDS Naturals

CONSTANTS
    DeviceIDs,     \* the IDs a device can be given
    ProvidingIDs   \* the IDs a content or service can be given

\* nr: which registration it was; exclusive: the device asked for an ID that
\* nobody provides.
Provisions == [nr : Nat, id : ProvidingIDs, device : DeviceIDs, exclusive : BOOLEAN]

VARIABLES
    members,   \* the IDs handed out to devices that joined
    provided   \* what they registered

SameProvision(p, q) == p.id = q.id /\ p.device = q.device

Init == members = {} /\ provided = {}

\* A join succeeds.
Admit(id) ==
    /\ id \notin members
    /\ members' = members \cup {id}
    /\ UNCHANGED provided

\* A registration by one device succeeds.
Provide(device) ==
    LET added == provided' \ provided IN
    /\ provided \subseteq provided'
    /\ added \subseteq Provisions
    /\ \A p, q \in added : p.nr = q.nr
    /\ \A p \in added : p.device = device
    /\ \A p \in added, q \in provided : p.nr # q.nr /\ ~SameProvision(p, q)
    /\ \A p \in added : p.exclusive =>
         \A q \in provided' \ {p} : p.id # q.id
    /\ UNCHANGED members

\* A device asks to leave: its ID, and what it provides, are free again.
Dismiss(device) ==
    /\ members' = members \ {device}
    /\ provided' = {p \in provided : p.device # device}

\* An object is deregistered.
Withdraw(id) ==
    /\ provided' = {p \in provided : p.id # id}
    /\ UNCHANGED members

Next ==
    \/ \E device \in DeviceIDs : Admit(device) \/ Provide(device) \/ Dismiss(device)
    \/ \E id \in ProvidingIDs : Withdraw(id)

Spec == Init /\ [][Next]_<<members, provided>>
=============================================================================
