------------------------- MODULE LeaseLedgerProofs -------------------------
(***************************************************************************)
(* Where an open file cannot be unlinked, the lock file excludes: whoever  *)
(* is inside created the lock file that is there, so nobody else is, so    *)
(* what it has read is what the ledger still holds when it writes.  For    *)
(* any number of processes, holders, leases and crashes.                   *)
(***************************************************************************)
EXTENDS LeaseLedger, FiniteSetTheorems, TLAPS

Opens == {"created", "locked", "read"}

\* The lock file is that of the process which has it open.
LockExcludes == \A p \in Proc : pc[p] \in Opens => lock.by = p

\* What has been read inside is still what the file holds.
ReadIsFresh == \A p \in Proc : pc[p] = "read" => read[p] = ledger


Books == /\ IsFiniteSet(promised)
         /\ NoLostUpdate
         /\ WithinAllowance

IInv == TypeOK /\ LockExcludes /\ ReadIsFresh /\ Books

LEMMA InitHolds == Init => IInv
<1> SUFFICES ASSUME Init PROVE IInv  OBVIOUS
<1> USE LedgerAssumption
<1>1. TypeOK  BY DEF Init, TypeOK, PC
<1>2. LockExcludes /\ ReadIsFresh  BY DEF Init, LockExcludes, ReadIsFresh, Opens
<1>3. Books
  <2>1. Live({}) = {}  BY DEF Live
  <2> QED  BY <2>1, FS_EmptySet DEF Init, Books, NoLostUpdate, WithinAllowance
<1> QED  BY <1>1, <1>2, <1>3 DEF IInv

\* A step that leaves the leases alone leaves the books in order.
LEMMA BooksKept ==
    Books /\ UNCHANGED <<ledger, promised, gone>> => Books'
BY DEF Books, NoLostUpdate, WithinAllowance, Live

\* Fewer live leases are promised when leases are given back or holders die.
LEMMA FewerLive ==
    ASSUME NEW A, NEW B \in SUBSET A, IsFiniteSet(A), Cardinality(A) <= Allowance
    PROVE  Cardinality(B) <= Allowance
<1>1. Cardinality(B) <= Cardinality(A) /\ IsFiniteSet(B)  BY FS_Subset
<1>2. Cardinality(A) \in Nat /\ Cardinality(B) \in Nat  BY <1>1, FS_CardinalityType
<1> QED  BY <1>1, <1>2, LedgerAssumption

LEMMA LiveIsFinite == ASSUME NEW A, IsFiniteSet(A) PROVE IsFiniteSet(Live(A))
<1>1. Live(A) \subseteq A  BY DEF Live
<1> QED  BY <1>1, FS_Subset

----------------------------------------------------------------------------
(* Types.                                                                  *)

LEMMA StepTypes == TypeOK /\ [Next]_vars => TypeOK'
<1> SUFFICES ASSUME TypeOK, [Next]_vars PROVE TypeOK'  OBVIOUS
<1> USE LedgerAssumption
<1>1. ASSUME NEW p \in Proc, Begins(p) PROVE TypeOK'
  <2>1. pc' \in [Proc -> PC]  BY <1>1 DEF Begins, Goes, TypeOK, PC
  <2>2. CASE acquires < MaxAcquire /\ acquires' = acquires + 1
             /\ \E l \in Lease : call' = [call EXCEPT ![p] = [call |-> "acquire", lease |-> l]]
    <3>1. acquires' \in 0..MaxAcquire  BY <2>2 DEF TypeOK
    <3>2. PICK l \in Lease : call' = [call EXCEPT ![p] = [call |-> "acquire", lease |-> l]]
          BY <2>2
    <3>3. [call |-> "acquire", lease |-> l] \in AcquireCall  BY DEF AcquireCall
    <3>4. call' \in [Proc -> AcquireCall \cup DropCall \cup {NoCall}]
          BY <3>2, <3>3 DEF TypeOK
    <3> QED  BY <1>1, <2>1, <3>1, <3>4 DEF Begins, TypeOK
  <2>3. CASE UNCHANGED acquires /\ \E c \in DropCall : call' = [call EXCEPT ![p] = c]
    BY <1>1, <2>1, <2>3 DEF Begins, TypeOK
  <2> QED  BY <1>1, <2>2, <2>3 DEF Begins
<1>2. ASSUME NEW p \in Proc, Creates(p) PROVE TypeOK'
  BY <1>2 DEF Creates, Goes, TypeOK, PC, LockFile
<1>3. ASSUME NEW p \in Proc, WritesPid(p) PROVE TypeOK'
  BY <1>3 DEF WritesPid, Goes, TypeOK, PC, LockFile
<1>4. ASSUME NEW p \in Proc, JudgesStale(p) PROVE TypeOK'
  BY <1>4 DEF JudgesStale, Goes, TypeOK, PC
<1>5. ASSUME NEW p \in Proc, Breaks(p) PROVE TypeOK'
  BY <1>5 DEF Breaks, Goes, TypeOK, PC
<1>6. ASSUME NEW p \in Proc, GivesUp(p) PROVE TypeOK'
  BY <1>6 DEF GivesUp, Goes, TypeOK, PC
<1>7. ASSUME NEW p \in Proc, Unlinks(p) PROVE TypeOK'
  BY <1>7 DEF Unlinks, Goes, TypeOK, PC
<1>8. ASSUME NEW p \in Proc, Reads(p) PROVE TypeOK'
  BY <1>8 DEF Reads, Goes, TypeOK, PC
<1>9. ASSUME NEW p \in Proc, Dies(p) PROVE TypeOK'
  BY <1>9 DEF Dies, Goes, TypeOK, PC
<1>10. ASSUME NEW h \in Holder, HolderDies(h) PROVE TypeOK'
  BY <1>10 DEF HolderDies, TypeOK
<1>11. ASSUME NEW p \in Proc, Closes(p), ledger' \subseteq Lease, promised' \subseteq Lease
       PROVE  TypeOK'
  BY <1>11 DEF Closes, Goes, TypeOK, PC
<1>12. \A p \in Proc : Live(read[p]) \subseteq Lease  BY DEF TypeOK, Live
<1>13. ASSUME NEW p \in Proc, Acquiring(p) PROVE call[p].lease \in Lease
  <2>1. call[p] \in AcquireCall \cup DropCall \cup {NoCall} /\ call[p].call = "acquire"
        BY <1>13 DEF TypeOK, Acquiring
  <2> QED  BY <2>1 DEF AcquireCall, DropCall, NoCall
<1>14. ASSUME NEW p \in Proc, AcquireFinds(p) PROVE TypeOK'
  BY <1>11, <1>12, <1>14 DEF AcquireFinds, TypeOK
<1>15. ASSUME NEW p \in Proc, AcquireUpgrades(p) PROVE TypeOK'
  <2>1. PICK l \in Upgradable(p) :
          LET upgraded == [id |-> l.id, node |-> l.node, holder |-> l.holder,
                           session |-> call[p].lease.session]
          IN  /\ ledger' = (Live(read[p]) \ {l}) \cup {upgraded}
              /\ promised' = (promised \ {l}) \cup {upgraded}
        BY <1>15 DEF AcquireUpgrades
  <2>2. l \in Lease /\ call[p].lease \in Lease
        BY <1>12, <1>13, <1>15 DEF Upgradable, AcquireUpgrades
  <2>3. [id |-> l.id, node |-> l.node, holder |-> l.holder,
         session |-> call[p].lease.session] \in Lease
        BY <2>2 DEF Lease
  <2> QED  BY <1>11, <1>12, <1>15, <2>1, <2>3 DEF AcquireUpgrades, TypeOK
<1>16. ASSUME NEW p \in Proc, AcquireAdds(p) PROVE TypeOK'
  BY <1>11, <1>12, <1>13, <1>16 DEF AcquireAdds, TypeOK
<1>17. ASSUME NEW p \in Proc, AcquireRefused(p) PROVE TypeOK'
  BY <1>11, <1>17 DEF AcquireRefused, TypeOK
<1>18. ASSUME NEW p \in Proc, Drops(p) PROVE TypeOK'
  BY <1>11, <1>18 DEF Drops, TypeOK, Live
<1>19. CASE UNCHANGED vars  BY <1>19 DEF vars, TypeOK
<1> QED
  BY <1>1, <1>2, <1>3, <1>4, <1>5, <1>6, <1>7, <1>8, <1>9, <1>10, <1>14, <1>15, <1>16,
     <1>17, <1>18, <1>19 DEF Next, Steps

----------------------------------------------------------------------------
(* Exclusion.                                                              *)

LEMMA StepExcludes ==
    ASSUME OpenIsUndeletable, TypeOK, LockExcludes, [Next]_vars
    PROVE  LockExcludes'
<1> USE LedgerAssumption
<1>1. ASSUME NEW p \in Proc, Creates(p) PROVE LockExcludes'
  BY <1>1 DEF Creates, Goes, TypeOK, LockExcludes, Opens, NoLock
<1>2. ASSUME NEW p \in Proc, WritesPid(p) PROVE LockExcludes'
  BY <1>2 DEF WritesPid, Goes, TypeOK, LockExcludes, Opens
<1>3. ASSUME NEW p \in Proc, Breaks(p) \/ Unlinks(p) PROVE LockExcludes'
  <2>1. \A q \in Proc : pc[q] \in Opens => ~Deletable
        BY DEF LockExcludes, Opens, Deletable, HasItOpen
  <2>2. \A q \in Proc : pc'[q] \in Opens => pc[q] \in Opens /\ lock' = lock
        BY <1>3, <2>1 DEF Breaks, Unlinks, Goes, TypeOK, Opens
  <2> QED  BY <2>2 DEF LockExcludes
<1>4. ASSUME NEW p \in Proc, Reads(p) PROVE LockExcludes'
  BY <1>4 DEF Reads, Goes, TypeOK, LockExcludes, Opens
<1>5. ASSUME UNCHANGED lock, \A q \in Proc : pc'[q] \in Opens => pc[q] \in Opens
      PROVE  LockExcludes'
  BY <1>5 DEF LockExcludes
<1>6. ASSUME NEW p \in Proc, Begins(p) \/ JudgesStale(p) \/ GivesUp(p) \/ Dies(p) \/ Closes(p)
      PROVE  LockExcludes'
  BY <1>5, <1>6 DEF Begins, JudgesStale, GivesUp, Dies, Closes, Goes, TypeOK, Opens
<1>7. ASSUME NEW h \in Holder, HolderDies(h) PROVE LockExcludes'
  BY <1>5, <1>7 DEF HolderDies
<1>8. CASE UNCHANGED vars  BY <1>5, <1>8 DEF vars
<1> QED
  BY <1>1, <1>2, <1>3, <1>4, <1>6, <1>7, <1>8
  DEF Next, Steps, Drops, AcquireFinds, AcquireUpgrades, AcquireAdds, AcquireRefused

\* Two processes are never inside together.
LEMMA Alone ==
    ASSUME LockExcludes, NEW p \in Proc, NEW q \in Proc, pc[p] \in Opens, pc[q] \in Opens
    PROVE  p = q
BY DEF LockExcludes

LEMMA StepReadsFresh ==
    ASSUME TypeOK, LockExcludes, ReadIsFresh, [Next]_vars
    PROVE  ReadIsFresh'
<1>1. ASSUME NEW p \in Proc, pc[p] = "read", Closes(p) PROVE ReadIsFresh'
  <2>1. \A q \in Proc : pc'[q] # "read"
        BY <1>1, Alone DEF Closes, Goes, TypeOK, Opens
  <2> QED  BY <2>1 DEF ReadIsFresh
<1>2. ASSUME NEW p \in Proc, Reads(p) PROVE ReadIsFresh'
  BY <1>2 DEF Reads, Goes, TypeOK, ReadIsFresh
<1>3. ASSUME UNCHANGED ledger,
             \A q \in Proc : pc'[q] = "read" => pc[q] = "read" /\ read'[q] = read[q]
      PROVE  ReadIsFresh'
  BY <1>3 DEF ReadIsFresh
<1>4. ASSUME NEW p \in Proc,
             \/ Begins(p) \/ Creates(p) \/ WritesPid(p) \/ JudgesStale(p) \/ Breaks(p)
             \/ GivesUp(p) \/ Unlinks(p) \/ Dies(p)
      PROVE  ReadIsFresh'
  BY <1>3, <1>4 DEF Begins, Creates, WritesPid, JudgesStale, Breaks, GivesUp, Unlinks, Dies,
                    Goes, TypeOK
<1>5. ASSUME NEW h \in Holder, HolderDies(h) PROVE ReadIsFresh'
  BY <1>3, <1>5 DEF HolderDies
<1>6. CASE UNCHANGED vars  BY <1>3, <1>6 DEF vars
<1> QED
  BY <1>1, <1>2, <1>4, <1>5, <1>6
  DEF Next, Steps, Drops, AcquireFinds, AcquireUpgrades, AcquireAdds, AcquireRefused,
      Acquiring

----------------------------------------------------------------------------
(* The books.                                                              *)

LEMMA StepKeepsBooks ==
    ASSUME TypeOK, ReadIsFresh, Books, [Next]_vars
    PROVE  Books'
<1> DEFINE L == Live(ledger)
<1> USE LedgerAssumption
<1>0. /\ IsFiniteSet(promised) /\ IsFiniteSet(L) /\ L = Live(promised)
      /\ Cardinality(L) <= Allowance
  BY LiveIsFinite DEF Books, NoLostUpdate, WithinAllowance
<1>1. ASSUME NEW h \in Holder, HolderDies(h) PROVE Books'
  <2>1. Live(ledger)' = Live(promised)'
        BY <1>0, <1>1 DEF HolderDies, Live
  <2>2. Live(promised)' \in SUBSET L
        BY <1>0, <1>1 DEF HolderDies, Live
  <2>3. Cardinality(Live(promised)') <= Allowance  BY <1>0, <2>2, FewerLive
  <2> QED  BY <1>0, <1>1, <2>1, <2>3 DEF HolderDies, Books, NoLostUpdate, WithinAllowance
<1>2. ASSUME NEW p \in Proc, AcquireFinds(p) PROVE Books'
  <2>1. ledger' = L /\ UNCHANGED <<promised, gone>>
        BY <1>2 DEF AcquireFinds, Acquiring, Closes, ReadIsFresh
  <2>2. Live(ledger)' = L /\ Live(promised)' = L  BY <1>0, <2>1 DEF Live
  <2> QED  BY <1>0, <2>1, <2>2 DEF Books, NoLostUpdate, WithinAllowance
<1>3. ASSUME NEW p \in Proc, AcquireUpgrades(p) PROVE Books'
  <2>1. read[p] = ledger /\ UNCHANGED gone
        BY <1>3 DEF AcquireUpgrades, Acquiring, Closes, ReadIsFresh
  <2>2. PICK l \in Upgradable(p) :
          LET upgraded == [id |-> l.id, node |-> l.node, holder |-> l.holder,
                           session |-> call[p].lease.session]
          IN  /\ ledger' = (Live(read[p]) \ {l}) \cup {upgraded}
              /\ promised' = (promised \ {l}) \cup {upgraded}
        BY <1>3 DEF AcquireUpgrades
  <2> DEFINE u == [id |-> l.id, node |-> l.node, holder |-> l.holder,
                   session |-> call[p].lease.session]
  <2>3. l \in L /\ l.holder \notin gone /\ u.holder = l.holder
        BY <2>1 DEF Upgradable, Live
  <2>4. Live(ledger)' = (L \ {l}) \cup {u}
        BY <2>1, <2>2, <2>3 DEF Live
  <2>5. Live(promised)' = (Live(promised) \ {l}) \cup {u}
        BY <2>1, <2>2, <2>3 DEF Live
  <2>6. Cardinality((L \ {l}) \cup {u}) <= Allowance
    <3>1. IsFiniteSet(L \ {l}) /\ Cardinality(L \ {l}) = Cardinality(L) - 1
          BY <1>0, <2>3, FS_RemoveElement
    <3>2. Cardinality((L \ {l}) \cup {u}) \in {Cardinality(L) - 1, Cardinality(L)}
      <4>1. CASE u \in L \ {l}
        <5>1. (L \ {l}) \cup {u} = L \ {l}  BY <4>1
        <5> QED  BY <3>1, <5>1
      <4>2. CASE u \notin L \ {l}
        <5>1. Cardinality((L \ {l}) \cup {u}) = Cardinality(L \ {l}) + 1
              BY <3>1, <4>2, FS_AddElement
        <5>2. Cardinality(L) \in Nat  BY <1>0, FS_CardinalityType
        <5> QED  BY <3>1, <5>1, <5>2
      <4> QED  BY <4>1, <4>2
    <3>3. Cardinality(L) \in Nat  BY <1>0, FS_CardinalityType
    <3> QED  BY <1>0, <3>2, <3>3
  <2>7. IsFiniteSet(promised')
    <3>1. IsFiniteSet(promised \ {l})  BY <1>0, FS_RemoveElement
    <3> QED  BY <2>2, <3>1, FS_AddElement
  <2> QED  BY <1>0, <2>4, <2>5, <2>6, <2>7 DEF Books, NoLostUpdate, WithinAllowance
<1>4. ASSUME NEW p \in Proc, AcquireAdds(p) PROVE Books'
  <2> DEFINE l == call[p].lease
  <2>1. /\ read[p] = ledger /\ UNCHANGED gone
        /\ ledger' = L \cup {l} /\ promised' = promised \cup {l}
        /\ Cardinality(L) < Allowance
        BY <1>4 DEF AcquireAdds, Acquiring, Closes, ReadIsFresh, OneIsLeft
  <2>2. Live(ledger)' = Live(promised)'  BY <1>0, <2>1 DEF Live
  <2>3. Live(ledger)' \in SUBSET (L \cup {l})  BY <2>1 DEF Live
  <2>4. IsFiniteSet(L \cup {l}) /\ Cardinality(L \cup {l}) <= Allowance
    <3>1. /\ IsFiniteSet(L \cup {l})
          /\ Cardinality(L \cup {l}) \in {Cardinality(L), Cardinality(L) + 1}
          BY <1>0, FS_AddElement
    <3>2. Cardinality(L) \in Nat  BY <1>0, FS_CardinalityType
    <3> QED  BY <2>1, <3>1, <3>2
  <2>5. Cardinality(Live(ledger)') <= Allowance  BY <2>3, <2>4, FewerLive
  <2>6. IsFiniteSet(promised')  BY <1>0, <2>1, FS_AddElement
  <2> QED  BY <2>2, <2>5, <2>6 DEF Books, NoLostUpdate, WithinAllowance
<1>5. ASSUME NEW p \in Proc, Drops(p) PROVE Books'
  <2>1. /\ UNCHANGED gone
        /\ ledger' = Live({l \in ledger : ~Matches(call[p], l)})
        /\ promised' = {l \in promised : ~Matches(call[p], l)}
        BY <1>5 DEF Drops, Closes, ReadIsFresh
  <2>2. Live(ledger)' = {l \in L : ~Matches(call[p], l)}  BY <2>1 DEF Live
  <2>3. Live(promised)' = {l \in Live(promised) : ~Matches(call[p], l)}  BY <2>1 DEF Live
  <2>4. Live(promised)' \in SUBSET L  BY <1>0, <2>3
  <2>5. Cardinality(Live(promised)') <= Allowance  BY <1>0, <2>4, FewerLive
  <2>6. IsFiniteSet(promised')  BY <1>0, <2>1, FS_Subset
  <2> QED  BY <1>0, <2>2, <2>3, <2>5, <2>6 DEF Books, NoLostUpdate, WithinAllowance
<1>6. ASSUME NEW p \in Proc,
             \/ Begins(p) \/ Creates(p) \/ WritesPid(p) \/ JudgesStale(p) \/ Breaks(p)
             \/ GivesUp(p) \/ Unlinks(p) \/ Reads(p) \/ Dies(p) \/ AcquireRefused(p)
      PROVE  Books'
  <2>1. UNCHANGED <<ledger, promised, gone>>
        BY <1>6 DEF Begins, Creates, WritesPid, JudgesStale, Breaks, GivesUp, Unlinks, Reads,
                    Dies, AcquireRefused, Closes
  <2> QED  BY <2>1, BooksKept
<1>7. CASE UNCHANGED vars  BY <1>7, BooksKept DEF vars
<1> QED
  BY <1>1, <1>2, <1>3, <1>4, <1>5, <1>6, <1>7 DEF Next, Steps

----------------------------------------------------------------------------
LEMMA Inductive == OpenIsUndeletable /\ IInv /\ [Next]_vars => IInv'
BY StepTypes, StepExcludes, StepReadsFresh, StepKeepsBooks DEF IInv

\* The whole inductive invariant holds of every behaviour on a system that
\* refuses to unlink open files.
THEOREM Invariant == ASSUME OpenIsUndeletable PROVE Spec => []IInv
<1>1. Init => IInv  BY InitHolds
<1>2. IInv /\ [Next]_vars => IInv'  BY Inductive
<1> QED  BY <1>1, <1>2, PTL DEF Spec

\* The two files and the processes keep their types, on any system.
THEOREM TypeCorrect == Spec => []TypeOK
<1>1. Init => TypeOK  BY InitHolds DEF IInv
<1> QED  BY <1>1, StepTypes, PTL DEF Spec

\* No update of the ledger is ever lost (terminal_lease.py's reason for the
\* owner-pid rule of its lock), for any number of processes and crashes.
THEOREM UpdatesAreKept == ASSUME OpenIsUndeletable PROVE Spec => []NoLostUpdate
<1>1. IInv => NoLostUpdate  BY DEF IInv, Books
<1> QED  BY <1>1, Invariant, PTL

\* The durable count never exceeds the allowance (I-X3).
THEOREM CountWithinAllowance == ASSUME OpenIsUndeletable PROVE Spec => []WithinAllowance
<1>1. IInv => WithinAllowance  BY DEF IInv, Books
<1> QED  BY <1>1, Invariant, PTL

----------------------------------------------------------------------------
(* The ledger implements LeaseBook: the write of a call is the step of the  *)
(* book, and everything else about a call is invisible there.               *)

Dead == {l \in ledger : l.holder \in gone}

\* The book counts as the ledger does: two instances of one definition.
LEMMA SameCount == \A S : Book!Cardinality(S) = Cardinality(S)
BY Zenon DEF Cardinality, Book!Cardinality, IsFiniteSet, Book!IsFiniteSet

LEMMA StepRefines ==
    ASSUME TypeOK, ReadIsFresh, [Next]_vars
    PROVE  [Book!Next]_(Book!bookVars)
<1>0. Live(ledger) = ledger \ Dead /\ Dead \in SUBSET ledger  BY DEF Live, Dead
<1>1. ASSUME NEW h \in Holder, HolderDies(h) PROVE Book!Next
  BY <1>1 DEF HolderDies, Book!Next, Book!HolderDies
<1>2. ASSUME NEW p \in Proc, AcquireFinds(p) PROVE Book!Next
  <2>1. ledger' = ledger \ Dead /\ UNCHANGED gone
        BY <1>0, <1>2 DEF AcquireFinds, Acquiring, Closes, ReadIsFresh
  <2>2. Book!Drop({}, Dead)  BY <2>1 DEF Book!Drop, Dead
  <2> QED  BY <1>0, <2>2 DEF Book!Next
<1>3. ASSUME NEW p \in Proc, AcquireUpgrades(p) PROVE Book!Next
  <2>1. read[p] = ledger /\ UNCHANGED gone /\ call[p].lease \in Lease
    <3>1. call[p] \in AcquireCall \cup DropCall \cup {NoCall} /\ call[p].call = "acquire"
          BY <1>3 DEF TypeOK, AcquireUpgrades, Acquiring
    <3>2. call[p].lease \in Lease  BY <3>1 DEF AcquireCall, DropCall, NoCall
    <3> QED  BY <1>3, <3>2 DEF AcquireUpgrades, Acquiring, Closes, ReadIsFresh
  <2>2. PICK l \in Upgradable(p) :
          LET upgraded == [id |-> l.id, node |-> l.node, holder |-> l.holder,
                           session |-> call[p].lease.session]
          IN  ledger' = (Live(read[p]) \ {l}) \cup {upgraded}
        BY <1>3 DEF AcquireUpgrades
  <2> DEFINE u == [id |-> l.id, node |-> l.node, holder |-> l.holder,
                   session |-> call[p].lease.session]
  <2>3. l \in ledger  BY <2>1 DEF Upgradable, Live
  <2>4. u \in Lease
    <3>1. l \in Lease  BY <2>3 DEF TypeOK
    <3> QED  BY <2>1, <3>1 DEF Lease
  <2>5. ledger' = (ledger \ (Dead \cup {l})) \cup {u}  BY <1>0, <2>1, <2>2
  <2>6. <<u.id, u.node, u.holder>> = <<l.id, l.node, l.holder>>  OBVIOUS
  <2>7. Book!Upgrade(l, u, Dead)
    <3> HIDE DEF u
    <3> QED  BY <2>1, <2>5, <2>6 DEF Book!Upgrade, Dead
  <2> QED  BY <1>0, <2>3, <2>4, <2>7 DEF Book!Next
<1>4. ASSUME NEW p \in Proc, AcquireAdds(p) PROVE Book!Next
  <2>1. call[p] \in AcquireCall \cup DropCall \cup {NoCall} /\ call[p].call = "acquire"
        BY <1>4 DEF TypeOK, AcquireAdds, Acquiring
  <2>2. call[p].lease \in Lease  BY <2>1 DEF AcquireCall, DropCall, NoCall
  <2>3. /\ Cardinality(ledger \ Dead) < Allowance
        /\ ledger' = (ledger \ Dead) \cup {call[p].lease}
        /\ UNCHANGED gone
        BY <1>0, <1>4 DEF AcquireAdds, Acquiring, Closes, ReadIsFresh, OneIsLeft
  <2>4. Book!Grant(call[p].lease, Dead)  BY <2>3, SameCount DEF Book!Grant, Dead
  <2> QED  BY <1>0, <2>2, <2>4 DEF Book!Next
<1>5. ASSUME NEW p \in Proc, Drops(p) PROVE Book!Next
  <2> DEFINE given == {l \in ledger : Matches(call[p], l)}
  <2>1. ledger' = ledger \ (given \cup Dead) /\ UNCHANGED gone
        BY <1>5 DEF Drops, Closes, ReadIsFresh, Live, Dead
  <2>2. \/ given = {}
        \/ \E g \in ledger : \/ given = {l \in ledger : l.id = g.id}
                             \/ given = {l \in ledger : l.node = g.node}
                             \/ given = {l \in ledger : l.session = g.session}
    <3>1. CASE call[p].call = "release"  BY <3>1 DEF Matches
    <3>2. CASE call[p].call = "release_node"  BY <3>2 DEF Matches
    <3>3. CASE call[p].call = "release_session"  BY <3>3 DEF Matches
    <3>4. CASE call[p].call \notin {"release", "release_node", "release_session"}
      BY <3>4 DEF Matches
    <3> QED  BY <3>1, <3>2, <3>3, <3>4
  <2>3. Book!Drop(given, Dead)  BY <2>1, <2>2 DEF Book!Drop, Dead
  <2>4. given \in SUBSET ledger  OBVIOUS
  <2> QED  BY <1>0, <2>3, <2>4 DEF Book!Next
<1>6. ASSUME NEW p \in Proc,
             \/ Begins(p) \/ Creates(p) \/ WritesPid(p) \/ JudgesStale(p) \/ Breaks(p)
             \/ GivesUp(p) \/ Unlinks(p) \/ Reads(p) \/ Dies(p) \/ AcquireRefused(p)
      PROVE  UNCHANGED Book!bookVars
  BY <1>6 DEF Begins, Creates, WritesPid, JudgesStale, Breaks, GivesUp, Unlinks, Reads, Dies,
              AcquireRefused, Closes, Book!bookVars
<1>7. CASE UNCHANGED vars  BY <1>7 DEF vars, Book!bookVars
<1> QED
  BY <1>1, <1>2, <1>3, <1>4, <1>5, <1>6, <1>7 DEF Next, Steps

\* Every operation on the ledger takes effect in one step: the cross-process,
\* crash-prone read-modify-writes implement the book their callers count on.
THEOREM LedgerImplementsBook == ASSUME OpenIsUndeletable PROVE Spec => ImplementsLeaseBook
<1>1. Init => Book!Init  BY DEF Init, Book!Init
<1>2. IInv /\ [Next]_vars => [Book!Next]_(Book!bookVars)  BY StepRefines DEF IInv
<1> QED  BY <1>1, <1>2, Invariant, PTL DEF Spec, Book!Spec, ImplementsLeaseBook
============================================================================
