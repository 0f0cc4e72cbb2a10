---------------------------- MODULE StorageGuard -----------------------------
(***************************************************************************)
(* services/storage/guard.py compute_protected and agent/handlers/         *)
(* storage.py _resolve_spec, over every small device tree.                 *)
(*                                                                         *)
(* An inventory is lsblk's forest: node n hangs below parent[n] (0: it is  *)
(* a whole disk), and children are listed by increasing number.  Only      *)
(* whole disks have serials; two may report the same one (USB bridges do). *)
(***************************************************************************)
EXTENDS Naturals, FiniteSetsExt

CONSTANTS
    NumNodes,   \* bound: devices in the tree
    Kinds,      \* what a node is: "plain", "mounted", "swap" or "raid"
    Serials,    \* serials of disks
    NoSerial    \* a device without one

ASSUME NumNodesAssumption == NumNodes \in Nat
ASSUME KindsAssumption == Kinds \subseteq {"plain", "mounted", "swap", "raid"}
ASSUME NoSerialAssumption == NoSerial \notin Serials

Nodes == 1..NumNodes

VARIABLES
    parent, kind, serial,   \* the lsblk tree
    pvs,                    \* the nodes that are PVs of the volume group
    hasLv,                  \* the volume group has a logical volume
    reason,                 \* node.protected_reason; "" if not protected
    resolved                \* _resolve_spec's node for each serial; 0: refused

guardVars == <<parent, kind, serial, pvs, hasLv, reason, resolved>>
inventory == <<parent, kind, serial, pvs, hasLv>>

Forests == {f \in [Nodes -> {0} \cup Nodes] : \A n \in Nodes : f[n] < n}

GuardInit ==
    /\ parent \in Forests
    /\ kind \in [Nodes -> Kinds]
    /\ serial \in {s \in [Nodes -> Serials \cup {NoSerial}] :
                     \A n \in Nodes : parent[n] # 0 => s[n] = NoSerial}
    /\ pvs \in SUBSET Nodes
    /\ hasLv \in BOOLEAN
    /\ reason = <<>>
    /\ resolved = <<>>

Children(n) == {c \in Nodes : parent[c] = n}
IsDisk(n) == parent[n] = 0

\* protected_pv_paths: the PVs of the volume groups that have LVs.
ProtectedPvs == IF hasLv THEN pvs ELSE {}

\* _own_reason: the first condition that holds.
OwnReason(n) ==
    CASE kind[n] = "mounted" -> "mounted"
      [] kind[n] = "swap" -> "active swap"
      [] n \in ProtectedPvs -> "physical volume"
      [] kind[n] = "raid" -> "RAID member"
      [] OTHER -> ""

\* Fault: the last protected child's reason wins.
FirstReason_last(walk, n) ==
    LET found == {c \in Children(n) : walk[c] # ""} IN
    IF found = {} THEN "" ELSE walk[Max(found)]
\* The loop over the children keeps the first reason it finds.
FirstReason(walk, n) ==
    LET found == {c \in Children(n) : walk[c] # ""} IN
    IF found = {} THEN "" ELSE walk[Min(found)]

\* _walk: a node has its own reason, or that of its first protected child.
Walk ==
    LET walk[n \in Nodes] ==
          IF OwnReason(n) # "" THEN OwnReason(n) ELSE FirstReason(walk, n)
    IN walk

compute_protected ==
    /\ reason = <<>>
    /\ reason' = Walk
    /\ UNCHANGED <<inventory, resolved>>

\* The serials compute_protected returns.
ProtectedSerials ==
    {serial[n] : n \in {d \in Nodes : IsDisk(d) /\ reason[d] # ""}} \ {NoSerial}

\* by_serial: a dict, so the last node with a serial is the one it names.
BySerial(s) ==
    LET named == {n \in Nodes : serial[n] = s} IN
    IF named = {} THEN 0 ELSE Max(named)

\* Fault: only the node the serial resolves to is looked at.
Refused_ownNode(s) == reason[BySerial(s)] # ""
\* The serial is one of those compute_protected returned.
Refused(s) == s \in ProtectedSerials

\* Missing and protected disks raise; the others give their path.  (The
\* check on the size is in Storage.)
resolve_spec ==
    /\ reason # <<>> /\ resolved = <<>>
    /\ resolved' = [s \in Serials |->
                      IF BySerial(s) = 0 \/ Refused(s) THEN 0 ELSE BySerial(s)]
    /\ UNCHANGED <<inventory, reason>>

GuardNext == compute_protected \/ resolve_spec

GuardSpec == GuardInit /\ [][GuardNext]_guardVars

-----------------------------------------------------------------------------
(* Properties.                                                              *)

\* m and everything it hangs below.
Above ==
    LET above[m \in Nodes] == {m} \cup (IF IsDisk(m) THEN {} ELSE above[parent[m]])
    IN above

\* n and everything below it.
Below(n) == {m \in Nodes : n \in Above[m]}

\* lsblk's order: a node comes before what is below it, and what is below one
\* child before what is below a later one.
Before(m, u) ==
    \/ u \in Below(m)
    \/ \E b \in Above[m], c \in Above[u] : parent[b] = parent[c] /\ b < c

InUse(n) == kind[n] # "plain" \/ n \in ProtectedPvs
Users(n) == {m \in Nodes : InUse(m) /\ m \in Below(n)}

\* guard.py: "any device transitively hosting a mounted FS, swap, ..., an
\* active md member, or a PV in a VG with active LVs" is protected, and
\* nothing else is.  The reason shown is that of the first such device in
\* lsblk's order, "its own condition, or the first protected descendant's".
ProtectedIffHostsUse ==
    reason # <<>> =>
        \A n \in Nodes :
            LET users == Users(n) IN
            /\ reason[n] # "" <=> users # {}
            /\ users # {} => \E m \in users : /\ reason[n] = OwnReason(m)
                                             /\ \A u \in users : Before(m, u)

\* What _resolve_spec hands to wipefs hosts nothing in use, and neither does
\* any other disk that reports its serial: which of two such disks the path
\* means is not known.
ResolvedIsUnused ==
    resolved # <<>> =>
        \A s \in Serials : resolved[s] # 0 =>
            \A n \in Nodes : serial[n] = s => Users(n) = {}
==============================================================================
