---------------------------- MODULE LeaseLedger ----------------------------
(***************************************************************************)
(* node_runtime/supervisor/terminal_lease.py: the file-backed count of the *)
(* terminals of one subscription, kept by processes that come and go.      *)
(*                                                                         *)
(* Every operation is a read-modify-write of the ledger file under a lock  *)
(* file.  A process creates the lock file exclusively and then writes its  *)
(* pid into it; it keeps the file open until it is done.  One that finds   *)
(* the file there reads the owner's pid and removes the file when that     *)
(* process is gone.  What it removes is whatever file has that name by     *)
(* then, if the system lets it: Windows denies it for a file that some     *)
(* process has open, POSIX does not.  A pid is not used twice.             *)
(***************************************************************************)
EXTENDS Naturals, FiniteSets

CONSTANTS
    Proc,             \* the processes that operate on the ledger
    Holder,           \* the processes leases are held for
    Node, Session,    \* node ids; ConPTY session keys
    NoSession,        \* the empty session id of a sessionless lease
    Allowance,        \* the allowance every caller passes for this subscription
    MaxAcquire,       \* bound: calls of acquire()
    OpenIsUndeletable,\* an open file cannot be unlinked (Windows)
    SlowWriter        \* a live process may take stale_lock_s to write its pid

ASSUME LedgerAssumption == /\ "nobody" \notin Proc
                           /\ Allowance \in Nat
                           /\ MaxAcquire \in Nat
                           /\ NoSession \notin Session
                           /\ OpenIsUndeletable \in BOOLEAN
                           /\ SlowWriter \in BOOLEAN

SessionId == Session \cup {NoSession}
LeaseId == 1..MaxAcquire
Lease == [id : LeaseId, node : Node, session : SessionId, holder : Holder]

\* The calls: acquire, which comes with the lease it would add, and the four
\* that drop leases.
AcquireCall == [call : {"acquire"}, lease : Lease]
DropCall == [call : {"release"}, of : LeaseId] \cup [call : {"release_node"}, of : Node]
              \cup [call : {"release_session"}, of : Session] \cup [call : {"reap"}]
NoCall == [call |-> "none"]

VARIABLES
    ledger,           \* the leases in the ledger file
    lock,             \* the lock file: who created it, and is the pid written
    pc, call,         \* where each process is, and in which call
    read,             \* read[p]: what p has read from the ledger file
    acquires,         \* calls of acquire() so far
    gone,             \* the holders that have died
    promised          \* history: leases acquire() returned, nobody released

vars == <<ledger, lock, pc, call, read, acquires, gone, promised>>

NoLock == [by |-> "nobody", written |-> FALSE]
LockFile == [by : Proc, written : BOOLEAN]

\* "wants": in the lock loop; "breaks": about to unlink a lock it has judged
\* stale; "created": the lock file has no pid yet; "locked", "read": inside;
\* "closed": its own file closed and not yet unlinked.
PC == {"idle", "wants", "breaks", "created", "locked", "read", "closed", "dead"}
Inside == {"locked", "read"}

Init == /\ ledger = {}
        /\ lock = NoLock
        /\ pc = [p \in Proc |-> "idle"]
        /\ call = [p \in Proc |-> NoCall]
        /\ read = [p \in Proc |-> {}]
        /\ acquires = 0
        /\ gone = {}
        /\ promised = {}

Goes(p, to) == pc' = [pc EXCEPT ![p] = to]

\* A call, with the checks of its arguments that come before the lock.
Begins(p) ==
    /\ pc[p] = "idle"
    /\ Goes(p, "wants")
    /\ \/ /\ acquires < MaxAcquire
          /\ acquires' = acquires + 1
          /\ \E l \in Lease : /\ l.id = acquires + 1
                              /\ l.holder \notin gone
                              /\ call' = [call EXCEPT ![p] = [call |-> "acquire", lease |-> l]]
       \/ /\ \E c \in DropCall : call' = [call EXCEPT ![p] = c]
          /\ UNCHANGED acquires
    /\ UNCHANGED <<ledger, lock, read, gone, promised>>

----------------------------------------------------------------------------
(* The lock file.                                                          *)

Creates(p) ==
    /\ pc[p] = "wants"
    /\ lock = NoLock
    /\ lock' = [by |-> p, written |-> FALSE]
    /\ Goes(p, "created")
    /\ UNCHANGED <<ledger, call, read, acquires, gone, promised>>

WritesPid(p) ==
    /\ pc[p] = "created"
    /\ lock' = IF lock.by = p THEN [by |-> p, written |-> TRUE] ELSE lock
    /\ Goes(p, "locked")
    /\ UNCHANGED <<ledger, call, read, acquires, gone, promised>>

OwnerIsDead == lock # NoLock /\ lock.written /\ pc[lock.by] = "dead"

\* Mutant of JudgesStale: only a lock without a pid is ever broken.
JudgesStaleByAge(p) ==
    /\ pc[p] = "wants"
    /\ lock # NoLock /\ ~lock.written
    /\ Goes(p, "breaks")
    /\ UNCHANGED <<ledger, lock, call, read, acquires, gone, promised>>

\* The file names a dead owner, or it names none and (by the time it is asked)
\* is old enough: the process goes on to unlink it.
JudgesStale(p) ==
    /\ pc[p] = "wants"
    /\ \/ OwnerIsDead
       \/ ~lock.written /\ SlowWriter
       \/ ~lock.written /\ lock # NoLock /\ pc[lock.by] = "dead"
    /\ Goes(p, "breaks")
    /\ UNCHANGED <<ledger, lock, call, read, acquires, gone, promised>>

\* Mutant of HasItOpen: the file is closed as soon as the pid is in it.
HasItOpenToWrite(p) == lock.by = p /\ pc[p] = "created"

\* The process whose open handle protects the file.
HasItOpen(p) == lock.by = p /\ pc[p] \in {"created", "locked", "read"}

Deletable == \A p \in Proc : OpenIsUndeletable => ~HasItOpen(p)

\* unlink, of the file that has the name now.
Breaks(p) ==
    /\ pc[p] = "breaks"
    /\ lock' = IF Deletable THEN NoLock ELSE lock
    /\ Goes(p, "wants")
    /\ UNCHANGED <<ledger, call, read, acquires, gone, promised>>

\* LeaseLedgerLocked, once the timeout is over and the lock is not one to break.
GivesUp(p) ==
    /\ pc[p] = "wants"
    /\ lock # NoLock
    /\ ~OwnerIsDead
    /\ Goes(p, "idle")
    /\ call' = [call EXCEPT ![p] = NoCall]
    /\ UNCHANGED <<ledger, lock, read, acquires, gone, promised>>

\* __exit__ after the close: unlink, whatever file has the name now; a denial
\* that lasts is raised, and leaves the file.
Unlinks(p) ==
    /\ pc[p] = "closed"
    /\ lock' \in (IF Deletable THEN {NoLock} ELSE {})
                   \cup (IF OpenIsUndeletable THEN {lock} ELSE {})
    /\ Goes(p, "idle")
    /\ UNCHANGED <<ledger, call, read, acquires, gone, promised>>

----------------------------------------------------------------------------
(* Inside the lock: the file is read, and what was read is written back     *)
(* changed.                                                                 *)

Reads(p) ==
    /\ pc[p] = "locked"
    /\ read' = [read EXCEPT ![p] = ledger]
    /\ Goes(p, "read")
    /\ UNCHANGED <<ledger, lock, call, acquires, gone, promised>>

Live(leases) == {l \in leases : l.holder \notin gone}

\* The end of a call: the lock's file is closed, and what was read is dropped.
Closes(p) == /\ Goes(p, "closed")
             /\ call' = [call EXCEPT ![p] = NoCall]
             /\ read' = [read EXCEPT ![p] = {}]
             /\ UNCHANGED <<lock, acquires, gone>>

Acquiring(p) == pc[p] = "read" /\ call[p].call = "acquire"

\* The live leases of the same node and session, and the sessionless lease of
\* the same node and holder that a session key upgrades.
Same(p) == {l \in Live(read[p]) : /\ l.node = call[p].lease.node
                                  /\ l.session = call[p].lease.session}
Upgradable(p) == {l \in Live(read[p]) : /\ call[p].lease.session # NoSession
                                        /\ l.node = call[p].lease.node
                                        /\ l.session = NoSession
                                        /\ l.holder = call[p].lease.holder}

AcquireFinds(p) ==
    /\ Acquiring(p)
    /\ Same(p) # {}
    /\ ledger' = Live(read[p])
    /\ UNCHANGED promised
    /\ Closes(p)

\* Mutant of AcquireUpgrades: the session's lease comes beside the old one.
AcquireUpgradesBeside(p) ==
    /\ Acquiring(p)
    /\ Same(p) = {} /\ Upgradable(p) # {}
    /\ ledger' = Live(read[p]) \cup {call[p].lease}
    /\ promised' = promised \cup {call[p].lease}
    /\ Closes(p)

AcquireUpgrades(p) ==
    /\ Acquiring(p)
    /\ Same(p) = {}
    /\ \E l \in Upgradable(p) :
          LET upgraded == [id |-> l.id, node |-> l.node, holder |-> l.holder,
                           session |-> call[p].lease.session]
          IN  /\ ledger' = (Live(read[p]) \ {l}) \cup {upgraded}
              /\ promised' = (promised \ {l}) \cup {upgraded}
    /\ Closes(p)

\* Mutant of OneIsLeft: the count may reach one more than the allowance.
OneMoreIsLeft(p) == Cardinality(Live(read[p])) <= Allowance

OneIsLeft(p) == Cardinality(Live(read[p])) < Allowance

AcquireAdds(p) ==
    /\ Acquiring(p)
    /\ Same(p) = {} /\ Upgradable(p) = {}
    /\ OneIsLeft(p)
    /\ ledger' = Live(read[p]) \cup {call[p].lease}
    /\ promised' = promised \cup {call[p].lease}
    /\ Closes(p)

\* SubscriptionLimitExceeded: nothing is written, not even a reap.
AcquireRefused(p) ==
    /\ Acquiring(p)
    /\ Same(p) = {} /\ Upgradable(p) = {}
    /\ ~OneIsLeft(p)
    /\ UNCHANGED <<ledger, promised>>
    /\ Closes(p)

\* Which leases a call gives back.
Matches(c, l) ==
    \/ c.call = "release" /\ l.id = c.of
    \/ c.call = "release_node" /\ l.node = c.of
    \/ c.call = "release_session" /\ l.session = c.of

\* The three releases and reap(): the matches and the dead holders' leases go.
Drops(p) ==
    /\ pc[p] = "read"
    /\ call[p].call # "acquire"
    /\ ledger' = Live({l \in read[p] : ~Matches(call[p], l)})
    /\ promised' = {l \in promised : ~Matches(call[p], l)}
    /\ Closes(p)

----------------------------------------------------------------------------
\* A process exits or is killed anywhere; its files are closed.
Dies(p) ==
    /\ pc[p] # "dead"
    /\ Goes(p, "dead")
    /\ call' = [call EXCEPT ![p] = NoCall]
    /\ read' = [read EXCEPT ![p] = {}]
    /\ UNCHANGED <<ledger, lock, acquires, gone, promised>>

HolderDies(h) ==
    /\ h \notin gone
    /\ gone' = gone \cup {h}
    /\ UNCHANGED <<ledger, lock, pc, call, read, acquires, promised>>

Steps(p) == \/ Creates(p) \/ WritesPid(p) \/ JudgesStale(p) \/ Breaks(p) \/ GivesUp(p)
            \/ Unlinks(p) \/ Reads(p) \/ Drops(p)
            \/ AcquireFinds(p) \/ AcquireUpgrades(p) \/ AcquireAdds(p) \/ AcquireRefused(p)

Next == \/ \E p \in Proc : Begins(p) \/ Steps(p) \/ Dies(p)
        \/ \E h \in Holder : HolderDies(h)

Spec == Init /\ [][Next]_vars

----------------------------------------------------------------------------
\* Type invariant of the two files and the processes.
TypeOK ==
    /\ ledger \subseteq Lease
    /\ lock \in LockFile \cup {NoLock}
    /\ pc \in [Proc -> PC]
    /\ call \in [Proc -> AcquireCall \cup DropCall \cup {NoCall}]
    /\ read \in [Proc -> SUBSET Lease]
    /\ acquires \in 0..MaxAcquire
    /\ gone \subseteq Holder
    /\ promised \subseteq Lease

\* No update of the ledger is lost, whoever crashes or breaks a lock: the file
\* holds what acquire() has written and nobody has given back, up to the leases
\* of dead holders ("two writers ... silently lose an acquire").
NoLostUpdate == Live(ledger) = Live(promised)

\* However the processes interleave, no more terminals of live holders are
\* promised than the subscription grants (I-X3, durable count).
WithinAllowance == Cardinality(Live(promised)) <= Allowance

\* Every operation takes effect in one step: LeaseBook.
Book == INSTANCE LeaseBook WITH held <- ledger
ImplementsLeaseBook == Book!Spec

----------------------------------------------------------------------------
(* A process in a call goes on with it; callers keep calling; a lock file   *)
(* without a pid grows old enough for some call in the end.                 *)

Fairness == /\ \A p \in Proc : WF_vars(Begins(p) \/ Steps(p))
            /\ SF_vars(\E p \in Proc : JudgesStale(p))

FairSpec == Spec /\ Fairness

\* A lock left behind by a dead process is broken, by some call, as long as
\* calls are made: the ledger is never wedged for good.
DeadOwnersLockGoes ==
    (lock # NoLock /\ pc[lock.by] = "dead")
      ~> (lock = NoLock \/ pc[lock.by] # "dead" \/ \A p \in Proc : pc[p] = "dead")
============================================================================
