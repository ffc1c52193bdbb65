----------------------------- MODULE LeaseBook -----------------------------
(***************************************************************************)
(* What the durable terminal ledger promises its callers: the leases of    *)
(* one subscription, kept as if every operation were one step.  A lease is *)
(* granted under the allowance, upgraded in place, given back by whoever   *)
(* asks for it, and reaped only once its holder process is dead.           *)
(***************************************************************************)
EXTENDS Naturals, FiniteSets

CONSTANTS
    Lease,            \* leases, with fields id, node, session and holder
    Holder,           \* the processes leases are held for
    Allowance         \* terminals the subscription grants

VARIABLES
    held,             \* the leases on the books
    gone              \* the holders that have died

bookVars == <<held, gone>>

Init == held = {} /\ gone = {}

HolderDies(h) == h \notin gone /\ gone' = gone \cup {h} /\ UNCHANGED held

\* Some leases of dead holders go; a new one comes, if one is left.
Grant(l, reaped) ==
    /\ reaped \subseteq {d \in held : d.holder \in gone}
    /\ Cardinality(held \ reaped) < Allowance
    /\ held' = (held \ reaped) \cup {l}
    /\ UNCHANGED gone

\* The same lease, from now on under a session of its own.
Upgrade(l, l2, reaped) ==
    /\ reaped \subseteq {d \in held : d.holder \in gone}
    /\ <<l2.id, l2.node, l2.holder>> = <<l.id, l.node, l.holder>>
    /\ held' = (held \ (reaped \cup {l})) \cup {l2}
    /\ UNCHANGED gone

\* Leases go: those a caller gives back, and those of dead holders.
Drop(given, reaped) ==
    /\ \/ given = {}
       \/ \E g \in held : \/ given = {l \in held : l.id = g.id}
                          \/ given = {l \in held : l.node = g.node}
                          \/ given = {l \in held : l.session = g.session}
    /\ reaped \subseteq {d \in held : d.holder \in gone}
    /\ held' = held \ (given \cup reaped)
    /\ UNCHANGED gone

Next == \/ \E h \in Holder : HolderDies(h)
        \/ \E l \in Lease, reaped \in SUBSET held : Grant(l, reaped)
        \/ \E l \in held, l2 \in Lease, reaped \in SUBSET held : Upgrade(l, l2, reaped)
        \/ \E given, reaped \in SUBSET held : Drop(given, reaped)

Spec == Init /\ [][Next]_bookVars
============================================================================
