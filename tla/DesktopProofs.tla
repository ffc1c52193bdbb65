---------------------------- MODULE DesktopProofs ----------------------------
(***************************************************************************)
(* Theorems about two parts of the desktop shell: the governed worker      *)
(* panes, for any panes, launches and allowance, and the voice turns, for  *)
(* any utterances and any queue of the vendor's CLI.                       *)
(***************************************************************************)
EXTENDS WorkerPanes, VoiceTurns, FiniteSetTheorems, TLAPS

(***************************************************************************)
(* The worker panes: types.                                                *)
(***************************************************************************)

RecordType == [state : RecordState, session : Session \cup {NoSession},
               process : Session \cup {NoSession}, prebirth : BOOLEAN]
EntryType == [state : SessionState \cup {NoEntry}, process : Session \cup {NoSession}]
ReleaseType == [pane : Pane, session : Session, prebirth : BOOLEAN, by : Pass \cup {Direct}]
FoundType == [pane : Pane, session : Session, prebirth : BOOLEAN]

\* Whatever holds something has a session key: a record that is held, the
\* record of a pane with a process, of a launch that awaits its ticket, of a
\* release that awaits its answer, and of one that a retry pass has before it.
HasSession ==
    /\ \A p \in Pane : record[p].state \in HELD => record[p].session # NoSession
    /\ \A p \in Pane : pty[p] # NoSession => record[p].session # NoSession
    /\ \A s \in Session, p \in Pane : <<s, p>> \in asking => record[p].session # NoSession
    /\ \A r \in releasing : record[r.pane].session # NoSession
    /\ \A k \in Pass : \A e \in todo[k] : record[e.pane].session # NoSession
Typed == TypeOK /\ HasSession

\* Session keys are the positive numbers up to the bound.
LEMMA SessionsAreNumbers ==
    /\ NoSession \notin Session
    /\ \A s \in Session : s \in Nat /\ s > 0
    /\ launches \in 0..MaxLaunch /\ launches < MaxLaunch => launches + 1 \in Session
BY PanesAssumption DEF Session, NoSession

\* set() and the patch of a born session keep the type of the records.
LEMMA PatchTyped ==
    ASSUME record \in [Pane -> RecordType], NEW p \in Pane
    PROVE  /\ \A st \in RecordState, b \in BOOLEAN : Patch(p, st, b) \in [Pane -> RecordType]
           /\ \A st \in RecordState, s \in Session : PatchBorn(p, st, s) \in [Pane -> RecordType]
<1>1. record[p] \in RecordType
  OBVIOUS
<1>2. \A st \in RecordState, b \in BOOLEAN :
        [state |-> st, session |-> record[p].session,
         process |-> record[p].process, prebirth |-> b] \in RecordType
  BY <1>1 DEF RecordType
<1>3. \A st \in RecordState, s \in Session :
        [state |-> st, session |-> record[p].session,
         process |-> s, prebirth |-> record[p].prebirth] \in RecordType
  BY <1>1 DEF RecordType
<1> QED
  BY <1>2, <1>3 DEF Patch, PatchBorn

\* Killing sessions keeps the types.
LEMMA KilledTyped ==
    ASSUME record \in [Pane -> RecordType], registry \in [Pane -> EntryType], NEW P \in SUBSET Pane
    PROVE  /\ KilledEntries(P) \in [Pane -> EntryType]
           /\ KilledRecords(P) \in [Pane -> RecordType]
<1>1. ASSUME NEW p \in Pane
      PROVE  [state |-> "ENDED", process |-> registry[p].process] \in EntryType
  <2>1. registry[p] \in EntryType
    OBVIOUS
  <2> QED
    BY <2>1 DEF EntryType, SessionState
<1>2. ASSUME NEW p \in Pane
      PROVE  [state |-> "terminating", session |-> record[p].session,
              process |-> record[p].process, prebirth |-> record[p].prebirth] \in RecordType
  <2>1. record[p] \in RecordType
    OBVIOUS
  <2> QED
    BY <2>1 DEF RecordType, RecordState, HELD
<1> QED
  BY <1>1, <1>2 DEF KilledEntries, KilledRecords

\* What a patch leaves of the record of any pane.
LEMMA PatchLeaves ==
    ASSUME record \in [Pane -> RecordType], NEW p \in Pane, NEW q \in Pane, NEW st, NEW b
    PROVE  /\ Patch(p, st, b)[q].session = record[q].session
           /\ Patch(p, st, b)[q].process = record[q].process
           /\ Patch(p, st, b)[q].state = IF q = p THEN st ELSE record[q].state
           /\ Patch(p, st, b)[q].prebirth = IF q = p THEN b ELSE record[q].prebirth
BY DEF Patch

\* What the patch of a born session leaves of the record of any pane.
LEMMA PatchBornLeaves ==
    ASSUME record \in [Pane -> RecordType], NEW p \in Pane, NEW q \in Pane, NEW st, NEW s
    PROVE  /\ PatchBorn(p, st, s)[q].session = record[q].session
           /\ PatchBorn(p, st, s)[q].prebirth = record[q].prebirth
           /\ PatchBorn(p, st, s)[q].state = IF q = p THEN st ELSE record[q].state
           /\ PatchBorn(p, st, s)[q].process = IF q = p THEN s ELSE record[q].process
BY DEF PatchBorn

\* What killing leaves of the record of any pane.
LEMMA KilledLeaves ==
    ASSUME record \in [Pane -> RecordType], NEW P \in SUBSET Pane, NEW q \in Pane
    PROVE  /\ KilledRecords(P)[q].session = record[q].session
           /\ KilledRecords(P)[q].process = record[q].process
           /\ KilledRecords(P)[q].prebirth = record[q].prebirth
           /\ \/ KilledRecords(P)[q].state = record[q].state
              \/ /\ record[q].state \in {"running", "terminating"}
                 /\ KilledRecords(P)[q].state = "terminating"
BY DEF KilledRecords

\* Nothing is held at the start.
LEMMA InitTyped == Init => Typed
<1> SUFFICES ASSUME Init PROVE Typed
  OBVIOUS
<1>1. /\ emptyRecord \in RecordType
      /\ [state |-> NoEntry, process |-> NoSession] \in EntryType
  BY DEF emptyRecord, RecordType, RecordState, EntryType
<1>2. TypeOK
  <2>1. 0 \in 0..MaxLaunch
    BY PanesAssumption
  <2>2. record \in [Pane -> RecordType] /\ registry \in [Pane -> EntryType]
    BY <1>1 DEF Init
  <2> QED
    BY <2>1, <2>2 DEF Init, TypeOK, RecordType, EntryType, NoSession
<1>3. emptyRecord.state \notin HELD
  BY DEF emptyRecord, HELD
<1>4. \A p \in Pane : record[p] = emptyRecord /\ pty[p] = NoSession
  BY DEF Init
<1>5. HasSession
  BY <1>3, <1>4 DEF HasSession, Init
<1> QED
  BY <1>2, <1>5 DEF Typed

\* A launch that is given up starts the release of its session key.
LEMMA GiveUpTyped ==
    ASSUME Typed, NEW p \in Pane, NEW s \in Session, <<s, p>> \in asking,
           GiveUpLaunch(s, p), ledger' \in SUBSET Session
    PROVE  Typed'
<1>1. Release(p, s, TRUE, Direct) \in ReleaseType
  BY DEF Release, ReleaseType
<1>2. record[p].session # NoSession /\ Release(p, s, TRUE, Direct).pane = p
  BY DEF Typed, HasSession, Release
<1>3. TypeOK'
  BY <1>1 DEF Typed, TypeOK, GiveUpLaunch, ReleaseType
<1>4. HasSession'
  BY <1>2 DEF Typed, HasSession, GiveUpLaunch
<1> QED
  BY <1>3, <1>4 DEF Typed

\* A retry pass starts a release that it found.
LEMMA BeginsTyped ==
    ASSUME Typed, NEW k \in Pass, NEW e \in FoundType, record[e.pane].session # NoSession,
           Begins(k, e)
    PROVE  /\ record' \in [Pane -> RecordType]
           /\ releasing' \subseteq ReleaseType
           /\ \A q \in Pane : record'[q].session = record[q].session
           /\ \A q \in Pane : q = e.pane \/ record'[q].state = record[q].state
           /\ \A r \in releasing' : r.pane \in Pane /\ record[r.pane].session # NoSession
<1>t. record \in [Pane -> RecordType] /\ e.pane \in Pane
  BY DEF Typed, TypeOK, RecordType, FoundType
<1>1. record[e.pane].prebirth \in BOOLEAN
  BY <1>t DEF RecordType
<1>2. record' \in {record, Patch(e.pane, "release_pending", record[e.pane].prebirth)}
  BY DEF Begins
<1>3. record' \in [Pane -> RecordType]
  BY <1>t, <1>1, <1>2, PatchTyped DEF RecordState, HELD
<1>4. Release(e.pane, e.session, e.prebirth, k) \in ReleaseType
  BY DEF Release, ReleaseType, FoundType
<1>5. releasing' = releasing \cup {Release(e.pane, e.session, e.prebirth, k)}
  BY DEF Begins
<1>6. releasing' \subseteq ReleaseType
  BY <1>4, <1>5 DEF Typed, TypeOK, ReleaseType
<1>7. \A q \in Pane : record'[q].session = record[q].session
  BY <1>t, <1>2, PatchLeaves
<1>8. \A q \in Pane : q = e.pane \/ record'[q].state = record[q].state
  BY <1>t, <1>2, PatchLeaves
<1>9. Release(e.pane, e.session, e.prebirth, k).pane = e.pane
  BY DEF Release
<1>10. \A r \in releasing : r.pane \in Pane /\ record[r.pane].session # NoSession
  BY DEF Typed, TypeOK, HasSession
<1> QED
  BY <1>t, <1>3, <1>5, <1>6, <1>7, <1>8, <1>9, <1>10

\* A retry pass starts one release and has some of the others before it.
LEMMA PassTyped ==
    ASSUME Typed, NEW k \in Pass, NEW e \in FoundType, NEW rest \in SUBSET FoundType,
           \A f \in {e} \cup rest : record[f.pane].session # NoSession,
           Begins(k, e), todo' = [todo EXCEPT ![k] = rest], retryArmed' \in BOOLEAN,
           UNCHANGED <<registry, pty, ledger, asking, granted, launches, supervised, crossed>>
    PROVE  Typed'
<1>1. /\ record' \in [Pane -> RecordType] /\ releasing' \subseteq ReleaseType
      /\ \A q \in Pane : record'[q].session = record[q].session
      /\ \A q \in Pane : q = e.pane \/ record'[q].state = record[q].state
      /\ \A r \in releasing' : r.pane \in Pane /\ record[r.pane].session # NoSession
  BY BeginsTyped
<1>2. todo \in [Pass -> SUBSET FoundType]
  BY DEF Typed, TypeOK, FoundType
<1>3. todo' \in [Pass -> SUBSET FoundType]
  BY <1>2
<1>4. TypeOK'
  BY <1>1, <1>3 DEF Typed, TypeOK, RecordType, ReleaseType, FoundType
<1>5. \A j \in Pass : todo'[j] = IF j = k THEN rest ELSE todo[j]
  BY <1>2
<1>6. \A j \in Pass : \A f \in todo'[j] : f.pane \in Pane /\ record[f.pane].session # NoSession
  <2>1. \A j \in Pass : \A f \in todo[j] : f.pane \in Pane /\ record[f.pane].session # NoSession
    BY <1>2 DEF Typed, HasSession, FoundType
  <2>2. \A f \in rest : f.pane \in Pane /\ record[f.pane].session # NoSession
    BY DEF FoundType
  <2> QED
    BY <1>5, <2>1, <2>2
<1>7. e.pane \in Pane /\ record[e.pane].session # NoSession
  BY DEF FoundType
<1>8. HasSession'
  BY <1>1, <1>6, <1>7 DEF Typed, HasSession
<1> QED
  BY <1>4, <1>8 DEF Typed

\* Every step keeps the types and the keys.
LEMMA NextTyped == Typed /\ [Next]_vars => Typed'
<1> SUFFICES ASSUME Typed, [Next]_vars PROVE Typed'
  OBVIOUS
<1>t. /\ record \in [Pane -> RecordType] /\ registry \in [Pane -> EntryType]
      /\ pty \in [Pane -> Session \cup {NoSession}]
  BY DEF Typed, TypeOK, RecordType, EntryType
<1>e. /\ \A r \in releasing : r.pane \in Pane
      /\ \A k \in Pass : \A e \in todo[k] : e.pane \in Pane
  BY DEF Typed, TypeOK
<1>1. ASSUME NEW p \in Pane, LaunchRefused(p) PROVE Typed'
  <2>1. record[p].prebirth \in BOOLEAN
    BY <1>t DEF RecordType
  <2>2. record' \in [Pane -> RecordType]
    BY <1>1, <1>t, <2>1, PatchTyped DEF LaunchRefused, RecordState
  <2>3. TypeOK'
    BY <1>1, <2>2 DEF Typed, TypeOK, LaunchRefused, RecordType
  <2>4. \A q \in Pane : record'[q].session = record[q].session
    BY <1>1, <1>t, PatchLeaves DEF LaunchRefused
  <2>5. \A q \in Pane : record'[q].state \in {record[q].state, "ended"}
    BY <1>1, <1>t, PatchLeaves DEF LaunchRefused
  <2>7. HasSession'
    BY <1>1, <1>e, <2>4, <2>5 DEF Typed, HasSession, LaunchRefused, HELD
  <2> QED
    BY <2>3, <2>7 DEF Typed
<1>2. ASSUME NEW p \in Pane, LaunchAsks(p) PROVE Typed'
  <2>1. launches + 1 \in Session /\ launches' \in 0..MaxLaunch
    BY <1>2, PanesAssumption DEF LaunchAsks, Typed, TypeOK, Session
  <2>2. [state |-> "launching", session |-> launches + 1,
         process |-> NoSession, prebirth |-> FALSE] \in RecordType
    BY <2>1 DEF RecordType, RecordState, HELD
  <2>3. [state |-> NoEntry, process |-> NoSession] \in EntryType
    BY DEF EntryType
  <2>4. record' \in [Pane -> RecordType] /\ registry' \in [Pane -> EntryType]
    BY <1>2, <1>t, <2>2, <2>3 DEF LaunchAsks
  <2>c. crossed' \subseteq Session
    BY <1>2, <2>1 DEF Typed, TypeOK, LaunchAsks, UnderWay
  <2>5. TypeOK'
    BY <1>2, <2>1, <2>c, <2>4 DEF Typed, TypeOK, LaunchAsks, RecordType, EntryType
  <2>6. \A q \in Pane : record'[q] = IF q = p
           THEN [state |-> "launching", session |-> launches + 1,
                 process |-> NoSession, prebirth |-> FALSE] ELSE record[q]
    BY <1>2, <1>t DEF LaunchAsks
  <2>7. \A q \in Pane : record'[q].session = IF q = p THEN launches + 1 ELSE record[q].session
    BY <2>6
  <2>8. HasSession'
    BY <1>2, <1>e, <2>1, <2>6, <2>7, SessionsAreNumbers DEF Typed, HasSession, LaunchAsks
  <2> QED
    BY <2>5, <2>8 DEF Typed
<1>3. ASSUME NEW p \in Pane, Kill(p) PROVE Typed'
  <2>1. KilledEntries({p}) \in [Pane -> EntryType] /\ KilledRecords({p}) \in [Pane -> RecordType]
    BY <1>t, KilledTyped
  <2>2. TypeOK'
    BY <1>3, <2>1 DEF Typed, TypeOK, Kill, RecordType, EntryType
  <2>3. HasSession'
    BY <1>3, <1>t, <1>e, KilledLeaves DEF Typed, HasSession, Kill, HELD
  <2> QED
    BY <2>2, <2>3 DEF Typed
<1>4. ASSUME NEW p \in Pane, ProcessExits(p) PROVE Typed'
  <2>1. pty[p] \in Session /\ record[p].session # NoSession /\ record[p].prebirth \in BOOLEAN
    BY <1>4, <1>t DEF ProcessExits, Typed, HasSession, RecordType
  <2>2. record[p].session \in Session
    BY <1>t, <2>1 DEF RecordType
  <2>3. [state |-> "ENDED", process |-> pty[p]] \in EntryType
    BY <2>1 DEF EntryType, SessionState
  <2>4. registry' \in [Pane -> EntryType] /\ pty' \in [Pane -> Session \cup {NoSession}]
    BY <1>4, <1>t, <2>3 DEF ProcessExits
  <2>5. \/ record' = record /\ releasing' = releasing
        \/ /\ record' = Patch(p, "release_pending", record[p].prebirth)
           /\ releasing' = releasing \cup {Release(p, record[p].session, FALSE, Direct)}
    BY <1>4 DEF ProcessExits
  <2>p. record' \in {record, Patch(p, "release_pending", record[p].prebirth)}
    BY <2>5
  <2>6. record' \in [Pane -> RecordType]
    BY <1>t, <2>1, <2>p, PatchTyped DEF RecordState, HELD
  <2>7. releasing' \subseteq ReleaseType
    <3>1. Release(p, record[p].session, FALSE, Direct) \in ReleaseType
      BY <2>2 DEF Release, ReleaseType
    <3> QED
      BY <2>5, <3>1 DEF Typed, TypeOK, ReleaseType
  <2>8. TypeOK'
    BY <1>4, <2>4, <2>6, <2>7 DEF Typed, TypeOK, ProcessExits, RecordType, EntryType, ReleaseType
  <2>9. \A q \in Pane : record'[q].session = record[q].session
    BY <1>t, <2>p, PatchLeaves
  <2>10. \A q \in Pane : q = p \/ record'[q].state = record[q].state
    BY <1>t, <2>p, PatchLeaves
  <2>11. \A q \in Pane : pty'[q] # NoSession => pty[q] # NoSession
    BY <1>4, <1>t DEF ProcessExits
  <2>12. \A r \in releasing' : r \in releasing \/ r.pane = p
    BY <2>5 DEF Release
  <2>14. HasSession'
    BY <1>4, <1>e, <2>1, <2>9, <2>10, <2>11, <2>12 DEF Typed, HasSession, ProcessExits
  <2> QED
    BY <2>8, <2>14 DEF Typed
<1>5. ASSUME NEW p \in Pane, NEW s \in Session, EmitterAcquires(s, p) PROVE Typed'
  BY <1>5 DEF Typed, TypeOK, HasSession, EmitterAcquires
<1>6. ASSUME NEW p \in Pane, NEW s \in Session,
             TicketUndelivered(s, p) \/ TicketRefused(s, p) \/ SpawnFailsBeforeBirth(s, p)
      PROVE  Typed'
  <2>1. <<s, p>> \in asking /\ GiveUpLaunch(s, p) /\ ledger' \in {ledger, ledger \ {s}}
    BY <1>6 DEF TicketUndelivered, TicketRefused, SpawnFailsBeforeBirth
  <2>2. ledger' \in SUBSET Session
    BY <2>1 DEF Typed, TypeOK
  <2> QED
    BY <2>1, <2>2, GiveUpTyped
<1>7. ASSUME NEW p \in Pane, NEW s \in Session, SpawnRuns(s, p) \/ SpawnRolledBack(s, p)
      PROVE  Typed'
  <2>1. PICK st \in {"running", "terminating"} : record' = PatchBorn(p, st, s)
    BY <1>7 DEF SpawnRuns, SpawnRolledBack
  <2>2. /\ <<s, p>> \in asking /\ pty' = [pty EXCEPT ![p] = s]
        /\ asking' = asking \ {<<s, p>>} /\ granted' = granted \ {s}
        /\ UNCHANGED <<ledger, releasing, todo, retryArmed, launches, supervised, crossed>>
    BY <1>7 DEF SpawnRuns, SpawnRolledBack, CanBeBorn
  <2>3. PICK kind \in {"RUNNING", "ENDED"} :
          registry' = [registry EXCEPT ![p] = [state |-> kind, process |-> s]]
    BY <1>7 DEF SpawnRuns, SpawnRolledBack
  <2>4. [state |-> kind, process |-> s] \in EntryType
    BY DEF EntryType, SessionState
  <2>5. registry' \in [Pane -> EntryType]
    BY <1>t, <2>3, <2>4
  <2>6. record' \in [Pane -> RecordType]
    BY <1>t, <2>1, PatchTyped DEF RecordState, HELD
  <2>7. TypeOK'
    BY <2>2, <2>5, <2>6 DEF Typed, TypeOK, RecordType, EntryType
  <2>8. \A q \in Pane : record'[q].session = record[q].session
    BY <1>t, <2>1, PatchBornLeaves
  <2>9. record[p].session # NoSession
    BY <2>2 DEF Typed, HasSession
  <2>10. \A q \in Pane : q = p \/ (record'[q].state = record[q].state /\ pty'[q] = pty[q])
    BY <1>t, <2>1, <2>2, PatchBornLeaves
  <2>11. HasSession'
    BY <1>e, <2>2, <2>8, <2>9, <2>10 DEF Typed, HasSession
  <2> QED
    BY <2>7, <2>11 DEF Typed
<1>8. ASSUME NEW r \in releasing, ReleaseSucceeds(r) \/ ReleaseFails(r) PROVE Typed'
  <2>1. r.pane \in Pane /\ record[r.pane].session # NoSession /\ r.prebirth \in BOOLEAN
    BY DEF Typed, TypeOK, HasSession
  <2>2. record[r.pane].prebirth \in BOOLEAN
    BY <1>t, <2>1 DEF RecordType
  <2>3. PICK st \in {"ended", "release_failed"}, b \in BOOLEAN : record' = Patch(r.pane, st, b)
    BY <1>8, <2>1, <2>2 DEF ReleaseSucceeds, ReleaseFails
  <2>4. record' \in [Pane -> RecordType]
    BY <1>t, <2>1, <2>3, PatchTyped DEF RecordState, HELD
  <2>5. /\ ledger' \subseteq ledger /\ releasing' \subseteq releasing
        /\ retryArmed' \in {TRUE, retryArmed}
        /\ UNCHANGED <<registry, pty, asking, granted, todo, launches, supervised, crossed>>
    BY <1>8 DEF ReleaseSucceeds, ReleaseFails
  <2>6. TypeOK'
    BY <2>4, <2>5 DEF Typed, TypeOK, RecordType
  <2>7. \A q \in Pane : record'[q].session = record[q].session
    BY <1>t, <2>1, <2>3, PatchLeaves
  <2>8. \A q \in Pane : q = r.pane \/ record'[q].state = record[q].state
    BY <1>t, <2>1, <2>3, PatchLeaves
  <2>10. HasSession'
    BY <1>e, <2>1, <2>5, <2>7, <2>8 DEF Typed, HasSession
  <2> QED
    BY <2>6, <2>10 DEF Typed
<1>9. ASSUME NEW k \in Pass, Retry(k) PROVE Typed'
  <2> DEFINE failed == {p \in Pane : record[p].state = "release_failed"}
             found == {[pane |-> p, session |-> record[p].session,
                        prebirth |-> record[p].prebirth] : p \in failed}
  <2>1. /\ retryArmed' = FALSE
        /\ \/ UNCHANGED <<record, releasing, todo>>
           \/ \E e \in found : Begins(k, e) /\ todo' = [todo EXCEPT ![k] = found \ {e}]
        /\ UNCHANGED <<registry, pty, ledger, asking, granted, launches, supervised, crossed>>
    BY <1>9 DEF Retry, RetryOver
  <2>2. \A p \in failed : /\ p \in Pane /\ record[p].session \in Session
                          /\ record[p].session # NoSession /\ record[p].prebirth \in BOOLEAN
    <3> SUFFICES ASSUME NEW p \in Pane, record[p].state = "release_failed"
                 PROVE  /\ record[p].session \in Session /\ record[p].session # NoSession
                        /\ record[p].prebirth \in BOOLEAN
      OBVIOUS
    <3>1. record[p].session # NoSession
      BY DEF Typed, HasSession, HELD
    <3> QED
      BY <1>t, <3>1 DEF RecordType
  <2>3. found \subseteq FoundType /\ \A f \in found : record[f.pane].session # NoSession
    BY <2>2 DEF FoundType
  <2> HIDE DEF found, failed
  <2>4. CASE UNCHANGED <<record, releasing, todo>>
    BY <2>1, <2>4 DEF Typed, TypeOK, HasSession
  <2>5. ASSUME NEW e \in found, Begins(k, e), todo' = [todo EXCEPT ![k] = found \ {e}]
        PROVE  Typed'
    <3>1. /\ e \in FoundType /\ found \ {e} \in SUBSET FoundType
          /\ \A f \in {e} \cup (found \ {e}) : record[f.pane].session # NoSession
      BY <2>3
    <3> QED
      BY <2>1, <2>5, <3>1, PassTyped
  <2> QED
    BY <2>1, <2>4, <2>5
<1>13. ASSUME NEW k \in Pass, PassGoesOn(k) PROVE Typed'
  <2>1. PICK e \in todo[k] : Begins(k, e) /\ todo' = [todo EXCEPT ![k] = todo[k] \ {e}]
    BY <1>13 DEF PassGoesOn
  <2>2. /\ todo[k] \subseteq FoundType
        /\ \A f \in todo[k] : record[f.pane].session # NoSession
    BY DEF Typed, TypeOK, HasSession, FoundType
  <2>3. /\ retryArmed' \in BOOLEAN
        /\ UNCHANGED <<registry, pty, ledger, asking, granted, launches, supervised, crossed>>
    BY <1>13 DEF PassGoesOn, Typed, TypeOK
  <2>4. /\ e \in FoundType /\ todo[k] \ {e} \in SUBSET FoundType
        /\ \A f \in {e} \cup (todo[k] \ {e}) : record[f.pane].session # NoSession
    BY <2>2
  <2> QED
    BY <2>1, <2>3, <2>4, PassTyped
<1>10. CASE SupervisionLost
  <2> DEFINE running == {p \in Pane : hasLiveSession(p)}
  <2>1. /\ registry' = KilledEntries(running) /\ record' = KilledRecords(running)
        /\ supervised' = FALSE
        /\ UNCHANGED <<pty, ledger, asking, granted, releasing, todo, retryArmed, launches,
                       crossed>>
    BY <1>10 DEF SupervisionLost
  <2>2. running \in SUBSET Pane
    OBVIOUS
  <2> HIDE DEF running
  <2>3. /\ KilledEntries(running) \in [Pane -> EntryType]
        /\ KilledRecords(running) \in [Pane -> RecordType]
    BY <1>t, <2>2, KilledTyped
  <2>4. TypeOK'
    BY <2>1, <2>3 DEF Typed, TypeOK, RecordType, EntryType
  <2>5. HasSession'
    BY <2>1, <2>2, <1>t, <1>e, KilledLeaves DEF Typed, HasSession, HELD
  <2> QED
    BY <2>4, <2>5 DEF Typed
<1>11. CASE SupervisionReady
  BY <1>11 DEF Typed, TypeOK, HasSession, SupervisionReady
<1>12. CASE UNCHANGED vars
  BY <1>12 DEF Typed, TypeOK, HasSession, vars
<1> QED
  BY <1>1, <1>2, <1>3, <1>4, <1>5, <1>6, <1>7, <1>8, <1>9, <1>10, <1>11, <1>12, <1>13 DEF Next

\* Types and keys, in every state.
LEMMA AlwaysTyped == Spec => []Typed
BY InitTyped, NextTyped, PTL DEF Spec

\* The panes' records, entries, processes and releases keep their types, for
\* any panes, launches, passes and allowance: no release is ever started without a
\* session key.
THEOREM PanesTypeCorrect == Spec => []TypeOK
BY AlwaysTyped, PTL DEF Typed

(***************************************************************************)
(* The worker panes: records, processes, releases and the ledger agree, of *)
(* every session whose launch did not cross another's.                     *)
(***************************************************************************)

InHand == {"running", "terminating"}

\* What pane p has under way for session s is of its record's session, or both
\* sessions crossed.
Own(p, s) == s = record[p].session \/ (s \in crossed /\ record[p].session \in crossed)

\* A release of s is awaited in pane p, or before a retry pass.
Owed(s, p) == \/ \E r \in releasing : r.pane = p /\ r.session = s
              \/ \E k \in Pass : \E e \in todo[k] : e.pane = p /\ e.session = s

\* A launch that awaits its ticket is the one its pane's record is of.
AskingKeeps == \A s \in Session, p \in Pane : <<s, p>> \in asking =>
    /\ Own(p, s)
    /\ s \notin crossed => record[p].state = "launching"

\* A release, awaited or to be made, is of its pane's record, whose process is
\* over and whose launch has its answer.
OwedKeeps == \A s \in Session, p \in Pane : Owed(s, p) =>
    /\ Own(p, s)
    /\ s \notin crossed => record[p].state \notin InHand /\ <<s, p>> \notin asking

\* A process ConPTY has is of its pane's record, which is in hand.
ProcessKeeps == \A p \in Pane : pty[p] # NoSession =>
    /\ Own(p, pty[p])
    /\ pty[p] \notin crossed => record[p].state \in InHand

\* A record in hand names the process ConPTY has, under a counted session key.
RecordsKeep == \A p \in Pane : record[p].session \notin crossed /\ record[p].state \in InHand =>
    /\ pty[p] = record[p].session /\ record[p].process = record[p].session
    /\ record[p].session \in ledger

\* Session keys are used once.
KeysAreDistinct ==
    /\ \A p, q \in Pane : record[p].session = record[q].session
                            => p = q \/ record[p].session = NoSession
    /\ \A p \in Pane : record[p].session <= launches
    /\ \A s \in crossed : s <= launches

\* A terminal granted to a launch is counted while the launch can be born.
GrantedKeeps == \A s \in granted \ crossed :
    s \in ledger /\ \E p \in Pane : <<s, p>> \in asking

PanesKeep == /\ AskingKeeps /\ OwedKeeps /\ ProcessKeeps /\ RecordsKeep
             /\ KeysAreDistinct /\ GrantedKeeps /\ HeldAccountsForLedger
PanesInv == Typed /\ PanesKeep

\* At the start nothing is held, asked or released.
LEMMA InitPanes == Init => PanesInv
<1> SUFFICES ASSUME Init PROVE PanesInv
  OBVIOUS
<1>1. Typed
  BY InitTyped
<1>2. \A p \in Pane : record[p] = emptyRecord /\ pty[p] = NoSession
  BY DEF Init
<1>3. /\ emptyRecord.state = "unstarted" /\ emptyRecord.session = NoSession /\ NoSession = 0
  BY DEF emptyRecord, NoSession
<1>4. \A k \in Pass : todo[k] = {}
  BY DEF Init
<1>5. PanesKeep
  BY <1>2, <1>3, <1>4 DEF Init, PanesKeep, AskingKeeps, OwedKeeps, Owed, ProcessKeeps, RecordsKeep,
     KeysAreDistinct, GrantedKeeps, HeldAccountsForLedger, InHand
<1> QED
  BY <1>1, <1>5 DEF PanesInv

\* What the types say, in the form the steps below use it.
LEMMA PanesTypes ==
    ASSUME Typed
    PROVE  /\ record \in [Pane -> RecordType]
           /\ pty \in [Pane -> Session \cup {NoSession}]
           /\ ledger \subseteq Session /\ granted \subseteq Session /\ crossed \subseteq Session
           /\ asking \subseteq Session \X Pane
           /\ \A r \in releasing : r.pane \in Pane /\ r.session \in Session
           /\ todo \in [Pass -> SUBSET FoundType]
           /\ \A p \in Pane : /\ record[p].session \in Session \cup {NoSession}
                             /\ record[p].session \in Nat
           /\ launches \in Nat
<1>1. record \in [Pane -> RecordType]
  BY DEF Typed, TypeOK, RecordType
<1>2. \A p \in Pane : record[p] \in RecordType
  BY <1>1
<1>3. \A p \in Pane : record[p].session \in Session \cup {NoSession}
  BY <1>2 DEF RecordType
<1>4. \A p \in Pane : record[p].session \in Nat
  BY <1>3, PanesAssumption DEF Session, NoSession
<1> QED
  BY <1>1, <1>3, <1>4, PanesAssumption DEF Typed, TypeOK, FoundType

\* Whatever is under way belongs to a session key.
LEMMA KeysUnderWay ==
    ASSUME Typed
    PROVE  /\ \A s, p : <<s, p>> \in asking => s \in Session /\ p \in Pane
           /\ \A s, p : Owed(s, p) => s \in Session /\ p \in Pane
           /\ \A p \in Pane, s \in Session :
                 <<s, p>> \in asking \/ Owed(s, p) => record[p].session # NoSession
           /\ \A p \in Pane : \A s : Own(p, s) /\ s \notin crossed => s = record[p].session
<1>1. \A k \in Pass : \A e \in todo[k] : e.pane \in Pane /\ e.session \in Session
  BY PanesTypes DEF FoundType
<1> QED
  BY <1>1, PanesTypes DEF Owed, Own, Typed, HasSession

\* No two panes have a launch or a release of one session key.
LEMMA KeyIsOfOnePane ==
    ASSUME PanesInv, NEW p \in Pane, NEW q \in Pane, record[p].session \in Session,
           record[q].session = record[p].session
    PROVE  p = q
BY SessionsAreNumbers DEF PanesInv, PanesKeep, KeysAreDistinct

\* A step that only marks records, and moves none into or out of hand or into a
\* launch, and owes nothing it did not owe.
LEMMA MarkingKeeps ==
    ASSUME PanesInv,
           UNCHANGED <<pty, ledger, asking, granted, launches, crossed>>,
           \A s \in Session, p \in Pane : Owed(s, p)' => Owed(s, p),
           \A q \in Pane : /\ record'[q].session = record[q].session
                           /\ record'[q].process = record[q].process
                           /\ \/ record'[q].state = record[q].state
                              \/ record[q].state \in InHand /\ record'[q].state \in InHand
                              \/ record[q].state \notin HELD /\ record'[q].state = "ended"
    PROVE  PanesKeep'
<1>1. \A p \in Pane : \A s : Own(p, s)' <=> Own(p, s)
  BY DEF Own
<1>2. \A q \in Pane : record'[q].state \in InHand <=> record[q].state \in InHand
  BY DEF InHand, HELD
<1>3. \A q \in Pane : record[q].state = "launching" => record'[q].state = "launching"
  BY DEF InHand, HELD
<1>4. AskingKeeps'
  BY <1>1, <1>3 DEF PanesInv, PanesKeep, AskingKeeps
<1>5. OwedKeeps'
  BY <1>1, <1>2 DEF PanesInv, PanesKeep, OwedKeeps
<1>6. ProcessKeeps' /\ RecordsKeep'
  BY <1>1, <1>2 DEF PanesInv, PanesKeep, ProcessKeeps, RecordsKeep
<1>7. KeysAreDistinct' /\ GrantedKeeps'
  BY DEF PanesInv, PanesKeep, KeysAreDistinct, GrantedKeeps
<1>8. HeldAccountsForLedger'
  BY DEF PanesInv, PanesKeep, HeldAccountsForLedger, isHeld, InHand, HELD
<1> QED
  BY <1>4, <1>5, <1>6, <1>7, <1>8 DEF PanesKeep

\* A refused click and a kill mark records only.
LEMMA ClickAndKillKeep ==
    ASSUME PanesInv, (\E p \in Pane : LaunchRefused(p) \/ Kill(p)) \/ SupervisionLost
    PROVE  PanesKeep'
<1>t. record \in [Pane -> RecordType] /\ HasSession
  BY PanesTypes DEF PanesInv, Typed
<1>o. ASSUME UNCHANGED <<releasing, todo>>
      PROVE  \A s \in Session, p \in Pane : Owed(s, p)' => Owed(s, p)
  BY <1>o DEF Owed
<1>1. ASSUME NEW p \in Pane, LaunchRefused(p) PROVE PanesKeep'
  <2>0. UNCHANGED <<pty, ledger, asking, granted, releasing, todo, launches, crossed>>
    BY <1>1 DEF LaunchRefused
  <2>1. CASE isHeld(p)
    BY <1>1, <1>o, <2>0, <2>1, MarkingKeeps DEF LaunchRefused
  <2>2. CASE ~isHeld(p)
    <3>1. record[p].state \notin HELD
      BY <2>2, <1>t DEF isHeld, HasSession
    <3>2. record' = Patch(p, "ended", record[p].prebirth)
      BY <1>1, <2>2 DEF LaunchRefused
    <3> QED
      BY <1>o, <2>0, <1>t, <3>1, <3>2, PatchLeaves, MarkingKeeps
  <2> QED
    BY <2>1, <2>2
<1>2. ASSUME NEW P \in SUBSET Pane, record' = KilledRecords(P),
             UNCHANGED <<pty, ledger, asking, granted, releasing, todo, launches, crossed>>
      PROVE  PanesKeep'
  BY <1>o, <1>t, <1>2, KilledLeaves, MarkingKeeps DEF InHand
<1>3. ASSUME NEW p \in Pane, Kill(p) PROVE PanesKeep'
  BY <1>2, <1>3 DEF Kill
<1>4. CASE SupervisionLost
  <2> DEFINE running == {p \in Pane : hasLiveSession(p)}
  <2>1. running \in SUBSET Pane
    OBVIOUS
  <2>2. /\ record' = KilledRecords(running)
        /\ UNCHANGED <<pty, ledger, asking, granted, releasing, todo, launches, crossed>>
    BY <1>4 DEF SupervisionLost
  <2> QED
    BY <1>2, <2>1, <2>2
<1> QED
  BY <1>1, <1>3, <1>4

\* A launch takes a session key that nobody has had, and all that its pane has
\* under way has crossed it.
LEMMA LaunchKeeps ==
    ASSUME PanesInv, NEW p \in Pane, LaunchAsks(p)
    PROVE  PanesKeep'
<1> DEFINE s == launches + 1
<1>t. /\ record \in [Pane -> RecordType] /\ launches \in Nat /\ s \in Session
      /\ \A q \in Pane : record[q].session \in Nat /\ record[q].session <= launches
      /\ \A t \in crossed : t \in Nat /\ t <= launches
  <2>1. s \in Session
    BY SessionsAreNumbers DEF LaunchAsks, PanesInv, Typed, TypeOK
  <2> QED
    BY <2>1, PanesTypes, SessionsAreNumbers DEF PanesInv, PanesKeep, KeysAreDistinct
<1>2. \A q \in Pane : q # p => record'[q] = record[q]
  BY <1>t DEF LaunchAsks
<1>3. record'[p].state = "launching" /\ record'[p].session = s
  BY <1>t DEF LaunchAsks
<1>4. /\ asking' = asking \cup {<<s, p>>} /\ pty[p] = NoSession /\ launches' = s
      /\ UNCHANGED <<pty, ledger, granted, releasing, todo>>
      /\ crossed' = IF UnderWay(p) = {} THEN crossed ELSE crossed \cup UnderWay(p) \cup {s}
  BY DEF LaunchAsks
<1>5. \A q \in Pane : record[q].session # s
  BY <1>t
<1>6. \A t \in Session : <<t, p>> \in asking \/ Owed(t, p) => t \in UnderWay(p)
  BY DEF UnderWay, Owed
<1>7. isHeld(p) => record[p].session \in UnderWay(p)
  BY PanesTypes DEF UnderWay, isHeld, PanesInv
<1>8. crossed \subseteq crossed' /\ UnderWay(p) \subseteq crossed'
      /\ (UnderWay(p) # {} => s \in crossed')
  BY <1>4
<1>9. \A t \in Session, q \in Pane : Owed(t, q)' <=> Owed(t, q)
  BY <1>4 DEF Owed
<1>10. \A q \in Pane : \A t : q # p /\ Own(q, t) => Own(q, t)'
  BY <1>2, <1>8 DEF Own
<1>11. AskingKeeps'
  <2> SUFFICES ASSUME NEW t \in Session, NEW q \in Pane, <<t, q>> \in asking'
               PROVE  Own(q, t)' /\ (t \notin crossed' => record'[q].state = "launching")
    BY DEF AskingKeeps
  <2>1. CASE q # p
    <3>1. <<t, q>> \in asking
      BY <1>4, <2>1
    <3> QED
      BY <1>2, <1>8, <1>10, <2>1, <3>1 DEF PanesInv, PanesKeep, AskingKeeps
  <2>2. CASE q = p /\ t # s
    <3>1. <<t, p>> \in asking
      BY <1>4, <2>2
    <3>2. t \in crossed' /\ s \in crossed'
      BY <1>6, <1>8, <3>1
    <3> QED
      BY <1>3, <2>2, <3>2 DEF Own
  <2>3. CASE q = p /\ t = s
    BY <1>3, <2>3 DEF Own
  <2> QED
    BY <2>1, <2>2, <2>3
<1>12. OwedKeeps'
  <2> SUFFICES ASSUME NEW t \in Session, NEW q \in Pane, Owed(t, q)
               PROVE  /\ Own(q, t)'
                      /\ t \notin crossed' => record'[q].state \notin InHand /\ <<t, q>> \notin asking'
    BY <1>9 DEF OwedKeeps
  <2>1. CASE q # p
    <3>1. <<t, q>> \in asking' => <<t, q>> \in asking
      BY <1>4, <2>1
    <3> QED
      BY <1>2, <1>8, <1>10, <2>1, <3>1 DEF PanesInv, PanesKeep, OwedKeeps
  <2>2. CASE q = p
    <3>1. t \in crossed' /\ s \in crossed'
      BY <1>6, <1>8, <2>2
    <3> QED
      BY <1>3, <2>2, <3>1 DEF Own
  <2> QED
    BY <2>1, <2>2
<1>13. ProcessKeeps'
  BY <1>2, <1>4, <1>8, <1>10 DEF PanesInv, PanesKeep, ProcessKeeps
<1>14. RecordsKeep'
  BY <1>2, <1>3, <1>4, <1>8 DEF PanesInv, PanesKeep, RecordsKeep, InHand
<1>15. KeysAreDistinct'
  <2>1. \A q \in Pane : record'[q].session <= s
    BY <1>t, <1>2, <1>3
  <2>2. \A q \in Pane : q # p => record'[q].session # s
    BY <1>2, <1>5
  <2>3. \A t \in UnderWay(p) : t = record[p].session \/ t \in crossed
    <3> SUFFICES ASSUME NEW t \in UnderWay(p) PROVE t = record[p].session \/ t \in crossed
      OBVIOUS
    <3>1. \/ <<t, p>> \in asking \/ Owed(t, p)
          \/ record[p].session = t
      BY DEF UnderWay, Owed
    <3>2. t \in Session
      BY DEF UnderWay
    <3> QED
      BY <3>1, <3>2 DEF PanesInv, PanesKeep, AskingKeeps, OwedKeeps, Own
  <2>4. \A t \in crossed' : t <= s
    BY <1>t, <1>4, <2>3
  <2> QED
    BY <1>2, <1>3, <1>4, <2>1, <2>2, <2>4 DEF PanesInv, PanesKeep, KeysAreDistinct
<1>16. GrantedKeeps'
  BY <1>4, <1>8 DEF PanesInv, PanesKeep, GrantedKeeps
<1>17. HeldAccountsForLedger'
  <2> SUFFICES ASSUME NEW t \in ledger, t \notin crossed'
               PROVE  \E q \in Pane : isHeld(q)' /\ record'[q].session = t
    BY <1>4 DEF HeldAccountsForLedger
  <2>1. PICK q \in Pane : isHeld(q) /\ record[q].session = t
    BY <1>8 DEF PanesInv, PanesKeep, HeldAccountsForLedger
  <2>2. q # p
    BY <1>7, <1>8, <2>1
  <2> QED
    BY <1>2, <2>1, <2>2 DEF isHeld
<1> QED
  BY <1>11, <1>12, <1>13, <1>14, <1>15, <1>16, <1>17 DEF PanesKeep

\* The emitter's terminal is counted for a launch that awaits it.
LEMMA AcquireKeeps ==
    ASSUME PanesInv, NEW p \in Pane, NEW s \in Session, EmitterAcquires(s, p)
    PROVE  PanesKeep'
<1>1. s \notin crossed => isHeld(p) /\ record[p].session = s
  BY DEF EmitterAcquires, PanesInv, Typed, HasSession, PanesKeep, AskingKeeps, Own, isHeld, HELD
<1>2. /\ ledger' = ledger \cup {s} /\ granted' = granted \cup {s} /\ <<s, p>> \in asking
      /\ UNCHANGED <<record, pty, asking, releasing, todo, launches, crossed>>
  BY DEF EmitterAcquires
<1>3. AskingKeeps' /\ OwedKeeps' /\ ProcessKeeps' /\ RecordsKeep' /\ KeysAreDistinct'
  BY <1>2 DEF PanesInv, PanesKeep, AskingKeeps, OwedKeeps, Owed, Own, ProcessKeeps, RecordsKeep,
     KeysAreDistinct
<1>4. GrantedKeeps'
  BY <1>2 DEF PanesInv, PanesKeep, GrantedKeeps
<1>5. HeldAccountsForLedger'
  BY <1>1, <1>2 DEF PanesInv, PanesKeep, HeldAccountsForLedger, isHeld
<1> QED
  BY <1>3, <1>4, <1>5 DEF PanesKeep

\* A launch that is given up leaves its record launching, under its release.
LEMMA GiveUpKeeps ==
    ASSUME PanesInv, NEW p \in Pane, NEW s \in Session, <<s, p>> \in asking,
           GiveUpLaunch(s, p), ledger' \in {ledger, ledger \ {s}}
    PROVE  PanesKeep'
<1>1. Own(p, s) /\ (s \notin crossed => record[p].state = "launching" /\ record[p].session = s)
  BY DEF PanesInv, PanesKeep, AskingKeeps, Own
<1>2. /\ asking' = asking \ {<<s, p>>} /\ granted' = granted \ {s}
      /\ releasing' = releasing \cup {Release(p, s, TRUE, Direct)}
      /\ UNCHANGED <<record, pty, todo, launches, crossed>>
  BY DEF GiveUpLaunch
<1>3. s \notin crossed => \A q \in Pane : record[q].session = s => q = p
  BY <1>1, KeyIsOfOnePane
<1>4. \A t \in ledger : t # s => t \in ledger'
  OBVIOUS
<1>5. \A t \in Session, q \in Pane : Owed(t, q)' => Owed(t, q) \/ (t = s /\ q = p)
  BY <1>2 DEF Owed, Release
<1>6. AskingKeeps' /\ ProcessKeeps' /\ KeysAreDistinct'
  BY <1>2 DEF PanesInv, PanesKeep, AskingKeeps, ProcessKeeps, Own, KeysAreDistinct
<1>7. OwedKeeps'
  <2> SUFFICES ASSUME NEW t \in Session, NEW q \in Pane, Owed(t, q) \/ (t = s /\ q = p)
               PROVE  /\ Own(q, t)'
                      /\ t \notin crossed => record[q].state \notin InHand /\ <<t, q>> \notin asking'
    BY <1>2, <1>5 DEF OwedKeeps
  <2>1. Own(q, t)' <=> Own(q, t)
    BY <1>2 DEF Own
  <2>2. CASE Owed(t, q)
    BY <1>2, <2>1, <2>2 DEF PanesInv, PanesKeep, OwedKeeps
  <2>3. CASE t = s /\ q = p
    BY <1>1, <1>2, <2>1, <2>3 DEF InHand
  <2> QED
    BY <2>2, <2>3
<1>8. RecordsKeep'
  <2> SUFFICES ASSUME NEW q \in Pane, record[q].session \notin crossed, record[q].state \in InHand
               PROVE  /\ pty[q] = record[q].session /\ record[q].process = record[q].session
                      /\ record[q].session \in ledger'
    BY <1>2 DEF RecordsKeep
  <2>1. record[q].session # s
    BY <1>1, <1>3 DEF InHand
  <2> QED
    BY <1>4, <2>1 DEF PanesInv, PanesKeep, RecordsKeep
<1>9. GrantedKeeps'
  BY <1>2, <1>4 DEF PanesInv, PanesKeep, GrantedKeeps
<1>10. HeldAccountsForLedger'
  BY <1>2 DEF PanesInv, PanesKeep, HeldAccountsForLedger, isHeld
<1> QED
  BY <1>6, <1>7, <1>8, <1>9, <1>10 DEF PanesKeep

\* A process is born under the session key its launch was counted for.
LEMMA BirthKeeps ==
    ASSUME PanesInv, NEW p \in Pane, NEW s \in Session, SpawnRuns(s, p) \/ SpawnRolledBack(s, p)
    PROVE  PanesKeep'
<1>t. record \in [Pane -> RecordType] /\ pty \in [Pane -> Session \cup {NoSession}]
  BY PanesTypes DEF PanesInv
<1>1. PICK st \in InHand : record' = PatchBorn(p, st, s)
  BY DEF SpawnRuns, SpawnRolledBack, InHand
<1>2. /\ <<s, p>> \in asking /\ s \in granted /\ pty' = [pty EXCEPT ![p] = s]
      /\ asking' = asking \ {<<s, p>>} /\ granted' = granted \ {s}
      /\ UNCHANGED <<ledger, releasing, todo, launches, crossed>>
  BY DEF SpawnRuns, SpawnRolledBack, CanBeBorn
<1>3. Own(p, s) /\ (s \notin crossed => record[p].session = s /\ s \in ledger)
  BY <1>2 DEF PanesInv, PanesKeep, AskingKeeps, GrantedKeeps, Own
<1>4. \A q \in Pane : /\ record'[q].session = record[q].session
                      /\ record'[q].state = IF q = p THEN st ELSE record[q].state
                      /\ record'[q].process = IF q = p THEN s ELSE record[q].process
                      /\ pty'[q] = IF q = p THEN s ELSE pty[q]
  BY <1>t, <1>1, <1>2, PatchBornLeaves
<1>5. \A q \in Pane : \A t : Own(q, t)' <=> Own(q, t)
  BY <1>2, <1>4 DEF Own
<1>6. \A t \in Session, q \in Pane : Owed(t, q)' <=> Owed(t, q)
  BY <1>2 DEF Owed
<1>7. record[p].session \notin crossed => record[p].session = s
  BY <1>3 DEF Own
<1>8. AskingKeeps'
  <2> SUFFICES ASSUME NEW t \in Session, NEW q \in Pane, <<t, q>> \in asking, <<t, q>> # <<s, p>>
               PROVE  Own(q, t) /\ (t \notin crossed => record'[q].state = "launching")
    BY <1>2, <1>5 DEF AskingKeeps
  <2>1. Own(q, t) /\ (t \notin crossed => record[q].state = "launching")
    BY DEF PanesInv, PanesKeep, AskingKeeps
  <2>2. t \notin crossed => q # p
    BY <1>7, <2>1 DEF Own
  <2> QED
    BY <1>4, <2>1, <2>2
<1>9. OwedKeeps'
  <2> SUFFICES ASSUME NEW t \in Session, NEW q \in Pane, Owed(t, q)
               PROVE  /\ Own(q, t)
                      /\ t \notin crossed => record'[q].state \notin InHand /\ <<t, q>> \notin asking'
    BY <1>2, <1>5, <1>6 DEF OwedKeeps
  <2>1. /\ Own(q, t)
        /\ t \notin crossed => record[q].state \notin InHand /\ <<t, q>> \notin asking
    BY DEF PanesInv, PanesKeep, OwedKeeps
  <2>2. t \notin crossed => q # p
    BY <1>2, <1>7, <2>1 DEF Own
  <2> QED
    BY <1>2, <1>4, <2>1, <2>2
<1>10. ProcessKeeps'
  BY <1>2, <1>3, <1>4, <1>5 DEF PanesInv, PanesKeep, ProcessKeeps
<1>11. RecordsKeep'
  BY <1>2, <1>3, <1>4, <1>7 DEF PanesInv, PanesKeep, RecordsKeep
<1>12. KeysAreDistinct'
  BY <1>2, <1>4 DEF PanesInv, PanesKeep, KeysAreDistinct
<1>13. GrantedKeeps'
  BY <1>2 DEF PanesInv, PanesKeep, GrantedKeeps
<1>14. HeldAccountsForLedger'
  BY <1>2, <1>4 DEF PanesInv, PanesKeep, HeldAccountsForLedger, isHeld, HELD, InHand
<1> QED
  BY <1>8, <1>9, <1>10, <1>11, <1>12, <1>13, <1>14 DEF PanesKeep

\* Nothing of pane p is in hand or asked for, or it crossed.
Over(p) == record[p].session \notin crossed =>
    record[p].state \notin InHand /\ \A t \in Session : <<t, p>> \notin asking

\* A step that marks the record of p as out of hand, when its process and its
\* launch are over, and owes only releases of panes where they are.
LEMMA OwingKeeps ==
    ASSUME PanesInv, NEW p \in Pane,
           UNCHANGED <<ledger, asking, granted, launches, crossed>>,
           \A q \in Pane : /\ record'[q].session = record[q].session
                           /\ record'[q].process = record[q].process
                           /\ q # p => record'[q].state = record[q].state /\ pty'[q] = pty[q],
           pty'[p] \in {pty[p], NoSession},
           record'[p].state = record[p].state \/ record'[p].state \in HELD \ InHand,
           record[p].session \notin crossed => pty'[p] = NoSession,
           Over(p)',
           \A t \in Session, q \in Pane : Owed(t, q)' => Owed(t, q) \/ (Own(q, t) /\ Over(q)')
    PROVE  PanesKeep'
<1>1. \A q \in Pane : \A t : Own(q, t)' <=> Own(q, t)
  BY DEF Own
<1>o. record[p].session \notin crossed => /\ record'[p].state \notin InHand
                                         /\ \A t \in Session : <<t, p>> \notin asking
  BY DEF Over
<1>2. AskingKeeps'
  <2> SUFFICES ASSUME NEW t \in Session, NEW q \in Pane, <<t, q>> \in asking
               PROVE  Own(q, t) /\ (t \notin crossed => record'[q].state = "launching")
    BY <1>1 DEF AskingKeeps
  <2>1. Own(q, t) /\ (t \notin crossed => record[q].state = "launching")
    BY DEF PanesInv, PanesKeep, AskingKeeps
  <2>2. t \notin crossed => q # p
    BY <1>o, <2>1 DEF Own
  <2> QED
    BY <2>1, <2>2
<1>3. OwedKeeps'
  <2> SUFFICES ASSUME NEW t \in Session, NEW q \in Pane, Owed(t, q)'
               PROVE  /\ Own(q, t)
                      /\ t \notin crossed => record'[q].state \notin InHand /\ <<t, q>> \notin asking
    BY <1>1 DEF OwedKeeps
  <2>1. CASE Owed(t, q)
    <3>1. /\ Own(q, t)
          /\ t \notin crossed => record[q].state \notin InHand /\ <<t, q>> \notin asking
      BY <2>1 DEF PanesInv, PanesKeep, OwedKeeps
    <3>2. CASE q = p
      BY <1>o, <3>1, <3>2 DEF Own
    <3>3. CASE q # p
      BY <3>1, <3>3
    <3> QED
      BY <3>2, <3>3
  <2>2. CASE Own(q, t) /\ Over(q)'
    BY <2>2 DEF Own, Over
  <2> QED
    BY <2>1, <2>2
<1>4. ProcessKeeps'
  <2> SUFFICES ASSUME NEW q \in Pane, pty'[q] # NoSession
               PROVE  Own(q, pty'[q]) /\ (pty'[q] \notin crossed => record'[q].state \in InHand)
    BY <1>1 DEF ProcessKeeps
  <2>1. pty'[q] = pty[q] /\ pty[q] # NoSession
    OBVIOUS
  <2>2. Own(q, pty[q]) /\ (pty[q] \notin crossed => record[q].state \in InHand)
    BY <2>1 DEF PanesInv, PanesKeep, ProcessKeeps
  <2>3. pty[q] \notin crossed => q # p
    BY <2>2 DEF Own
  <2> QED
    BY <2>1, <2>2, <2>3
<1>5. RecordsKeep'
  <2> SUFFICES ASSUME NEW q \in Pane, record[q].session \notin crossed, record'[q].state \in InHand
               PROVE  /\ pty'[q] = record[q].session /\ record[q].process = record[q].session
                      /\ record[q].session \in ledger
    BY DEF RecordsKeep
  <2>1. q # p
    BY <1>o
  <2> QED
    BY <2>1 DEF PanesInv, PanesKeep, RecordsKeep
<1>6. KeysAreDistinct' /\ GrantedKeeps'
  BY DEF PanesInv, PanesKeep, KeysAreDistinct, GrantedKeeps
<1>7. HeldAccountsForLedger'
  <2>1. \A q \in Pane : isHeld(q) => isHeld(q)'
    BY DEF isHeld
  <2> QED
    BY <2>1 DEF PanesInv, PanesKeep, HeldAccountsForLedger
<1> QED
  BY <1>2, <1>3, <1>4, <1>5, <1>6, <1>7 DEF PanesKeep

\* A process that exits leaves its record releasing the session key it was
\* born under.
LEMMA ExitKeeps ==
    ASSUME PanesInv, NEW p \in Pane, ProcessExits(p)
    PROVE  PanesKeep'
<1> DEFINE s == record[p].session
<1>t. /\ record \in [Pane -> RecordType] /\ pty \in [Pane -> Session \cup {NoSession}]
      /\ asking \subseteq Session \X Pane
  BY PanesTypes DEF PanesInv
<1>1. /\ pty[p] # NoSession /\ pty' = [pty EXCEPT ![p] = NoSession]
      /\ UNCHANGED <<ledger, asking, granted, todo, launches, crossed>>
      /\ record' \in {record, Patch(p, "release_pending", record[p].prebirth)}
      /\ releasing' \subseteq releasing \cup {Release(p, s, FALSE, Direct)}
  BY DEF ProcessExits
<1>2. s \notin crossed => record[p].state \in InHand /\ record[p].process = pty[p] /\ s = pty[p]
  BY <1>1 DEF PanesInv, PanesKeep, ProcessKeeps, RecordsKeep, Own
<1>3. s \notin crossed => record' = Patch(p, "release_pending", record[p].prebirth)
  BY <1>2 DEF ProcessExits, InHand
<1>4. \A q \in Pane : /\ record'[q].session = record[q].session
                      /\ record'[q].process = record[q].process
                      /\ q # p => record'[q].state = record[q].state
                      /\ pty'[q] = IF q = p THEN NoSession ELSE pty[q]
  BY <1>t, <1>1, PatchLeaves
<1>5. /\ record'[p].state \in {record[p].state, "release_pending"}
      /\ s \notin crossed => record'[p].state = "release_pending"
  BY <1>t, <1>1, <1>3, PatchLeaves
<1>6. s \notin crossed => \A t \in Session : <<t, p>> \notin asking
  BY <1>2 DEF PanesInv, PanesKeep, AskingKeeps, Own, InHand
<1>7. "release_pending" \in HELD \ InHand
  BY DEF HELD, InHand
<1>8. Over(p)'
  BY <1>1, <1>4, <1>5, <1>6, <1>7 DEF Over
<1>9. \A t \in Session, q \in Pane : Owed(t, q)' => Owed(t, q) \/ (t = s /\ q = p)
  BY <1>1 DEF Owed, Release
<1>10. \A t \in Session, q \in Pane : Owed(t, q)' => Owed(t, q) \/ (Own(q, t) /\ Over(q)')
  BY <1>8, <1>9 DEF Own
<1>11. record'[p].state = record[p].state \/ record'[p].state \in HELD \ InHand
  BY <1>5, <1>7
<1> QED
  BY <1>1, <1>4, <1>8, <1>10, <1>11, OwingKeeps

\* A pass starts a release that its pane owes, and has found others that are.
LEMMA BeginsKeeps ==
    ASSUME PanesInv, NEW k \in Pass, NEW e \in FoundType, Begins(k, e),
           UNCHANGED <<pty, ledger, asking, granted, launches, crossed>>,
           Own(e.pane, e.session), Over(e.pane),
           \A j \in Pass : \A f \in todo'[j] :
              f \in todo[j] \/ (f.pane \in Pane /\ Own(f.pane, f.session) /\ Over(f.pane))
    PROVE  PanesKeep'
<1> DEFINE p == e.pane
<1>t. record \in [Pane -> RecordType] /\ p \in Pane /\ e.session \in Session
  BY PanesTypes DEF PanesInv, FoundType
<1>1. /\ record' \in {record, Patch(p, "release_pending", record[p].prebirth)}
      /\ releasing' = releasing \cup {Release(p, e.session, e.prebirth, k)}
  BY DEF Begins
<1>2. \A q \in Pane : /\ record'[q].session = record[q].session
                      /\ record'[q].process = record[q].process
                      /\ q # p => record'[q].state = record[q].state
  BY <1>t, <1>1, PatchLeaves
<1>3. record'[p].state \in {record[p].state, "release_pending"}
  BY <1>t, <1>1, PatchLeaves
<1>4. "release_pending" \in HELD \ InHand
  BY DEF HELD, InHand
<1>5. \A q \in Pane : Over(q) => Over(q)'
  BY <1>2, <1>3, <1>4 DEF Over
<1>6. record[p].session \notin crossed => pty[p] = NoSession
  <2>1. Over(p)
    OBVIOUS
  <2> QED
    BY <1>t, <2>1 DEF PanesInv, PanesKeep, ProcessKeeps, Own, Over
<1>7. Own(p, e.session) /\ Over(p)'
  BY <1>t, <1>5
<1>8. \A t \in Session, q \in Pane : Owed(t, q)' => Owed(t, q) \/ (Own(q, t) /\ Over(q)')
  <2> SUFFICES ASSUME NEW t \in Session, NEW q \in Pane, Owed(t, q)', ~Owed(t, q)
               PROVE  Own(q, t) /\ Over(q)'
    OBVIOUS
  <2>1. \/ t = e.session /\ q = p
        \/ \E j \in Pass : \E f \in todo'[j] : f.pane = q /\ f.session = t /\ f \notin todo[j]
    BY <1>1 DEF Owed, Release
  <2>2. CASE t = e.session /\ q = p
    BY <1>7, <2>2
  <2>3. ASSUME NEW j \in Pass, NEW f \in todo'[j], f.pane = q, f.session = t, f \notin todo[j]
        PROVE  Own(q, t) /\ Over(q)'
    BY <1>5, <2>3
  <2> QED
    BY <2>1, <2>2, <2>3
<1>9. record'[p].state = record[p].state \/ record'[p].state \in HELD \ InHand
  BY <1>3, <1>4
<1>10. record[p].session \notin crossed => pty'[p] = NoSession
  BY <1>6
<1>11. pty'[p] \in {pty[p], NoSession} /\ \A q \in Pane : pty'[q] = pty[q]
  OBVIOUS
<1> HIDE DEF p
<1> QED
  BY <1>t, <1>2, <1>7, <1>8, <1>9, <1>10, <1>11, OwingKeeps

\* The retry timer fires, and a pass goes on.
LEMMA RetryKeeps ==
    ASSUME PanesInv, NEW k \in Pass, Retry(k) \/ PassGoesOn(k)
    PROVE  PanesKeep'
<1>t. todo \in [Pass -> SUBSET FoundType] /\ record \in [Pane -> RecordType] /\ Typed
  BY PanesTypes DEF PanesInv
<1>1. ASSUME Retry(k) PROVE PanesKeep'
  <2> DEFINE failed == {p \in Pane : record[p].state = "release_failed"}
             found == {[pane |-> p, session |-> record[p].session,
                        prebirth |-> record[p].prebirth] : p \in failed}
  <2>1. /\ \/ UNCHANGED <<record, releasing, todo>>
           \/ \E e \in found : Begins(k, e) /\ todo' = [todo EXCEPT ![k] = found \ {e}]
        /\ UNCHANGED <<pty, ledger, asking, granted, launches, crossed>>
    BY <1>1 DEF Retry, RetryOver
  <2>2. \A p \in failed : /\ p \in Pane /\ record[p].session \in Session
                          /\ record[p].prebirth \in BOOLEAN /\ Over(p)
    <3> SUFFICES ASSUME NEW p \in Pane, record[p].state = "release_failed"
                 PROVE  /\ record[p].session \in Session /\ record[p].prebirth \in BOOLEAN
                        /\ Over(p)
      OBVIOUS
    <3>1. record[p].session # NoSession
      BY <1>t DEF Typed, HasSession, HELD
    <3>2. Over(p)
      BY DEF Over, InHand, PanesInv, PanesKeep, AskingKeeps, Own
    <3> QED
      BY <1>t, <3>1, <3>2 DEF RecordType
  <2>3. \A f \in found : f \in FoundType /\ Own(f.pane, f.session) /\ Over(f.pane)
    BY <2>2 DEF FoundType, Own
  <2> HIDE DEF found, failed
  <2>4. CASE UNCHANGED <<record, releasing, todo>>
    <3>1. \A s \in Session, p \in Pane : Owed(s, p)' => Owed(s, p)
      BY <2>4 DEF Owed
    <3> QED
      BY <2>1, <2>4, <3>1, MarkingKeeps
  <2>5. ASSUME NEW e \in found, Begins(k, e), todo' = [todo EXCEPT ![k] = found \ {e}]
        PROVE  PanesKeep'
    <3>1. \A j \in Pass : todo'[j] = IF j = k THEN found \ {e} ELSE todo[j]
      BY <1>t, <2>5
    <3>2. \A f \in found : f.pane \in Pane
      BY <2>3 DEF FoundType
    <3>3. \A j \in Pass : \A f \in todo'[j] :
             f \in todo[j] \/ (f.pane \in Pane /\ Own(f.pane, f.session) /\ Over(f.pane))
      BY <2>3, <3>1, <3>2
    <3>4. e \in FoundType /\ Own(e.pane, e.session) /\ Over(e.pane)
      BY <2>3
    <3> QED
      BY <2>1, <2>5, <3>3, <3>4, BeginsKeeps
  <2> QED
    BY <2>1, <2>4, <2>5
<1>2. ASSUME PassGoesOn(k) PROVE PanesKeep'
  <2>1. /\ UNCHANGED <<pty, ledger, asking, granted, launches, crossed>>
        /\ \E e \in todo[k] : Begins(k, e) /\ todo' = [todo EXCEPT ![k] = todo[k] \ {e}]
    BY <1>2 DEF PassGoesOn
  <2>2. PICK e \in todo[k] : Begins(k, e) /\ todo' = [todo EXCEPT ![k] = todo[k] \ {e}]
    BY <2>1
  <2>3. e \in FoundType /\ Owed(e.session, e.pane)
    BY <1>t DEF Owed
  <2>4. Own(e.pane, e.session) /\ Over(e.pane)
    <3>1. e.session \in Session /\ e.pane \in Pane
      BY <2>3 DEF FoundType
    <3>2. /\ Own(e.pane, e.session)
          /\ e.session \notin crossed => /\ record[e.pane].state \notin InHand
                                         /\ <<e.session, e.pane>> \notin asking
      BY <2>3, <3>1 DEF PanesInv, PanesKeep, OwedKeeps
    <3>3. ASSUME record[e.pane].session \notin crossed PROVE e.session = record[e.pane].session
      BY <3>2, <3>3 DEF Own
    <3>4. ASSUME record[e.pane].session \notin crossed, NEW t \in Session, <<t, e.pane>> \in asking
          PROVE  FALSE
      <4>1. t = record[e.pane].session
        BY <3>1, <3>4 DEF PanesInv, PanesKeep, AskingKeeps, Own
      <4> QED
        BY <3>2, <3>3, <3>4, <4>1
    <3> QED
      BY <3>2, <3>3, <3>4 DEF Over
  <2>5. \A j \in Pass : todo'[j] \subseteq todo[j]
    BY <1>t, <2>2
  <2> QED
    BY <2>1, <2>2, <2>3, <2>4, <2>5, BeginsKeeps
<1> QED
  BY <1>1, <1>2

\* What awaits its answer is of a process that is over.
LEMMA AwaitedIsOver ==
    ASSUME PanesInv, NEW r \in releasing
    PROVE  /\ r.pane \in Pane /\ r.session \in Session /\ Owed(r.session, r.pane)
           /\ Own(r.pane, r.session)
           /\ r.session \notin crossed => /\ record[r.pane].session = r.session
                                          /\ record[r.pane].state \notin InHand
                                          /\ <<r.session, r.pane>> \notin asking
<1>1. r.pane \in Pane /\ r.session \in Session /\ Owed(r.session, r.pane)
  BY PanesTypes DEF PanesInv, Owed
<1> QED
  BY <1>1 DEF PanesInv, PanesKeep, OwedKeeps, Own

\* A release is answered, and its pane's record marked.
LEMMA AnswerKeeps ==
    ASSUME PanesInv, NEW r \in releasing, ReleaseSucceeds(r) \/ ReleaseFails(r)
    PROVE  PanesKeep'
<1> DEFINE p == r.pane
           s == r.session
<1>t. record \in [Pane -> RecordType] /\ p \in Pane /\ s \in Session
  BY PanesTypes, AwaitedIsOver DEF PanesInv
<1>1. /\ Own(p, s)
      /\ s \notin crossed => /\ record[p].session = s /\ record[p].state \notin InHand
                             /\ <<s, p>> \notin asking
  BY AwaitedIsOver
<1>2. /\ UNCHANGED <<pty, asking, granted, todo, launches, crossed>>
      /\ releasing' = releasing \ {r} /\ ledger' \in {ledger, ledger \ {s}}
  BY DEF ReleaseSucceeds, ReleaseFails
<1>3. \A q \in Pane : /\ record'[q].session = record[q].session
                      /\ record'[q].process = record[q].process
                      /\ q # p => record'[q].state = record[q].state
  BY <1>t, PatchLeaves DEF ReleaseSucceeds, ReleaseFails
<1>4. \/ record'[p].state = "ended" /\ ledger' = ledger \ {s}
      \/ record'[p].state = "release_failed"
  BY <1>t, PatchLeaves DEF ReleaseSucceeds, ReleaseFails
<1>5. \A q \in Pane : \A t : Own(q, t)' <=> Own(q, t)
  BY <1>2, <1>3 DEF Own
<1>6. \A t \in Session, q \in Pane : Owed(t, q)' => Owed(t, q)
  BY <1>2 DEF Owed
<1>7. record'[p].state \notin InHand
  BY <1>4 DEF InHand
<1>8. record[p].session \notin crossed => s = record[p].session
  BY <1>1 DEF Own
<1>k. ASSUME s \notin crossed, NEW q \in Pane, record[q].session = s PROVE q = p
  BY <1>t, <1>1, <1>k, KeyIsOfOnePane
<1> HIDE DEF p, s
<1>9. AskingKeeps'
  <2> SUFFICES ASSUME NEW t \in Session, NEW q \in Pane, <<t, q>> \in asking
               PROVE  Own(q, t) /\ (t \notin crossed => record'[q].state = "launching")
    BY <1>2, <1>5 DEF AskingKeeps
  <2>1. Own(q, t) /\ (t \notin crossed => record[q].state = "launching")
    BY DEF PanesInv, PanesKeep, AskingKeeps
  <2>2. t \notin crossed => q # p
    BY <1>1, <1>8, <2>1 DEF Own
  <2> QED
    BY <1>3, <2>1, <2>2
<1>10. OwedKeeps'
  <2> SUFFICES ASSUME NEW t \in Session, NEW q \in Pane, Owed(t, q)
               PROVE  /\ Own(q, t)
                      /\ t \notin crossed => record'[q].state \notin InHand /\ <<t, q>> \notin asking
    BY <1>2, <1>5, <1>6 DEF OwedKeeps
  <2> QED
    BY <1>3, <1>7 DEF PanesInv, PanesKeep, OwedKeeps
<1>11. ProcessKeeps'
  <2> SUFFICES ASSUME NEW q \in Pane, pty[q] # NoSession
               PROVE  Own(q, pty[q]) /\ (pty[q] \notin crossed => record'[q].state \in InHand)
    BY <1>2, <1>5 DEF ProcessKeeps
  <2>1. Own(q, pty[q]) /\ (pty[q] \notin crossed => record[q].state \in InHand)
    BY DEF PanesInv, PanesKeep, ProcessKeeps
  <2>2. pty[q] \notin crossed => q # p
    BY <1>1, <1>8, <2>1 DEF Own
  <2> QED
    BY <1>3, <2>1, <2>2
<1>12. RecordsKeep'
  <2> SUFFICES ASSUME NEW q \in Pane, record[q].session \notin crossed, record'[q].state \in InHand
               PROVE  /\ pty[q] = record[q].session /\ record[q].process = record[q].session
                      /\ record[q].session \in ledger'
    BY <1>2, <1>3 DEF RecordsKeep
  <2>1. q # p /\ record[q].state \in InHand
    BY <1>3, <1>7
  <2>2. record[q].session # s
    BY <1>k, <2>1
  <2> QED
    BY <1>2, <2>1, <2>2 DEF PanesInv, PanesKeep, RecordsKeep
<1>13. KeysAreDistinct'
  BY <1>2, <1>3 DEF PanesInv, PanesKeep, KeysAreDistinct
<1>14. GrantedKeeps'
  <2> SUFFICES ASSUME NEW t \in granted, t \notin crossed
               PROVE  t \in ledger' /\ \E q \in Pane : <<t, q>> \in asking
    BY <1>2 DEF GrantedKeeps
  <2>1. PICK q \in Pane : t \in ledger /\ <<t, q>> \in asking
    BY DEF PanesInv, PanesKeep, GrantedKeeps
  <2>2. t \in Session /\ record[q].session = t
    BY <2>1, PanesTypes DEF PanesInv, PanesKeep, AskingKeeps, Own
  <2>3. t # s
    BY <1>1, <1>k, <2>1, <2>2
  <2> QED
    BY <1>2, <2>1, <2>3
<1>15. HeldAccountsForLedger'
  <2> SUFFICES ASSUME NEW t \in ledger', t \notin crossed
               PROVE  \E q \in Pane : isHeld(q)' /\ record'[q].session = t
    BY <1>2 DEF HeldAccountsForLedger
  <2>1. PICK q \in Pane : isHeld(q) /\ record[q].session = t
    BY <1>2 DEF PanesInv, PanesKeep, HeldAccountsForLedger
  <2>2. CASE q # p
    BY <1>3, <2>1, <2>2 DEF isHeld
  <2>3. CASE q = p
    <3>1. t = s
      BY <1>8, <2>1, <2>3
    <3>2. record'[p].state = "release_failed"
      BY <1>4, <3>1
    <3> QED
      BY <1>3, <2>1, <2>3, <3>2 DEF isHeld, HELD
  <2> QED
    BY <2>2, <2>3
<1> QED
  BY <1>9, <1>10, <1>11, <1>12, <1>13, <1>14, <1>15 DEF PanesKeep

\* Every step keeps the invariant.
LEMMA NextPanes == ASSUME PanesInv, [Next]_vars PROVE PanesInv'
<1>1. Typed'
  BY NextTyped DEF PanesInv
<1>2. ASSUME NEW p \in Pane, LaunchRefused(p) \/ Kill(p) PROVE PanesKeep'
  BY <1>2, ClickAndKillKeep
<1>3. ASSUME NEW p \in Pane, LaunchAsks(p) PROVE PanesKeep'
  BY <1>3, LaunchKeeps
<1>4. ASSUME NEW p \in Pane, ProcessExits(p) PROVE PanesKeep'
  BY <1>4, ExitKeeps
<1>5. ASSUME NEW p \in Pane, NEW s \in Session, EmitterAcquires(s, p) PROVE PanesKeep'
  BY <1>5, AcquireKeeps
<1>6. ASSUME NEW p \in Pane, NEW s \in Session,
             TicketUndelivered(s, p) \/ TicketRefused(s, p) \/ SpawnFailsBeforeBirth(s, p)
      PROVE  PanesKeep'
  BY <1>6, GiveUpKeeps DEF TicketUndelivered, TicketRefused, SpawnFailsBeforeBirth
<1>7. ASSUME NEW p \in Pane, NEW s \in Session, SpawnRuns(s, p) \/ SpawnRolledBack(s, p)
      PROVE  PanesKeep'
  BY <1>7, BirthKeeps
<1>8. ASSUME NEW r \in releasing, ReleaseSucceeds(r) \/ ReleaseFails(r) PROVE PanesKeep'
  BY <1>8, AnswerKeeps
<1>9. ASSUME NEW k \in Pass, Retry(k) \/ PassGoesOn(k) PROVE PanesKeep'
  BY <1>9, RetryKeeps
<1>10. ASSUME SupervisionLost PROVE PanesKeep'
  BY <1>10, ClickAndKillKeep
<1>11. ASSUME SupervisionReady \/ UNCHANGED vars PROVE PanesKeep'
  <2>1. UNCHANGED <<record, pty, ledger, asking, granted, releasing, todo, launches, crossed>>
    BY <1>11 DEF SupervisionReady, vars
  <2>2. \A s \in Session, p \in Pane : Owed(s, p)' => Owed(s, p)
    BY <2>1 DEF Owed
  <2> QED
    BY <2>1, <2>2, MarkingKeeps
<1>12. PanesKeep'
  BY <1>2, <1>3, <1>4, <1>5, <1>6, <1>7, <1>8, <1>9, <1>10, <1>11 DEF Next
<1> QED
  BY <1>1, <1>12 DEF PanesInv

\* The invariant, in every state.
LEMMA PanesAlways == Spec => []PanesInv
<1>1. PanesInv /\ [Next]_vars => PanesInv'
  BY NextPanes
<1> QED
  BY <1>1, InitPanes, PTL DEF Spec

\* However launches fail, sessions are killed and releases are retried, a
\* pane's record names the very process ConPTY has, and the session key it was
\* counted for, until its exit: for any number of panes, launches, retry passes
\* and terminals, of every session but those whose launch began while another
\* launch or release of the pane was under way, and the ones it met.
THEOREM RecordsNameTheirProcesses == Spec => []RecordNamesItsProcess
<1>1. PanesInv => RecordNamesItsProcess
  <2> SUFFICES ASSUME PanesInv, NEW p \in Pane, pty[p] \notin crossed \cup {NoSession}
               PROVE  /\ record[p].state \in {"running", "terminating"}
                      /\ record[p].process = pty[p] /\ record[p].session = pty[p]
    BY DEF RecordNamesItsProcess
  <2>1. record[p].session = pty[p] /\ record[p].state \in InHand
    BY DEF PanesInv, PanesKeep, ProcessKeeps, Own
  <2> QED
    BY <2>1 DEF PanesInv, PanesKeep, RecordsKeep, InHand
<1> QED
  BY <1>1, PanesAlways, PTL

\* Of the same sessions every counted terminal is one of a record that is still
\* held, so a shell that finds nothing held leaves none of them counted.
THEOREM NothingHeldNothingCounted == Spec => []HeldAccountsForLedger
<1>1. PanesInv => HeldAccountsForLedger
  BY DEF PanesInv, PanesKeep
<1> QED
  BY <1>1, PanesAlways, PTL

(***************************************************************************)
(* The worker panes keep the subscription's accounts: TerminalCount.       *)
(***************************************************************************)

Alive == {pty[p] : p \in Pane} \ (crossed \cup {NoSession})

\* A session key with a release under way has no process that counts.
LEMMA OwedIsNotAlive ==
    ASSUME PanesInv, NEW p \in Pane, NEW s \in Session, Own(p, s),
           s \notin crossed => record[p].state \notin InHand
    PROVE  s \notin Alive
<1> SUFFICES ASSUME NEW q \in Pane, pty[q] = s, s \notin crossed PROVE FALSE
  BY DEF Alive
<1>1. record[q].state \in InHand /\ record[q].session = s
  BY SessionsAreNumbers DEF PanesInv, PanesKeep, ProcessKeeps, Own
<1>2. record[p].session = s
  BY DEF Own
<1>3. q = p
  BY <1>1, <1>2, KeyIsOfOnePane
<1> QED
  BY <1>1, <1>3

\* A step that touches neither the ledger nor the processes that count is a
\* stutter.
LEMMA CountStutters == ledger' = ledger /\ Alive' = Alive => UNCHANGED Count!countVars
BY DEF Count!countVars, Alive

\* A process is born under a counted session key and dies alone.
LEMMA CountBirth ==
    ASSUME PanesInv, NEW p \in Pane, NEW s \in Session, SpawnRuns(s, p) \/ SpawnRolledBack(s, p)
    PROVE  Count!Birth(s) \/ UNCHANGED Count!countVars
<1>1. /\ s \in granted /\ pty' = [pty EXCEPT ![p] = s] /\ pty[p] = NoSession /\ ledger' = ledger
      /\ pty \in [Pane -> Session \cup {NoSession}] /\ crossed' = crossed
  BY PanesTypes DEF SpawnRuns, SpawnRolledBack, CanBeBorn, PanesInv
<1>2. \A q \in Pane : pty'[q] = IF q = p THEN s ELSE pty[q]
  BY <1>1
<1>3. s # NoSession
  BY SessionsAreNumbers
<1>4. CASE s \in crossed
  <2>1. Alive' = Alive
    BY <1>1, <1>2, <1>4 DEF Alive
  <2> QED
    BY <1>1, <2>1, CountStutters
<1>5. CASE s \notin crossed
  <2>1. s \in ledger
    BY <1>1, <1>5 DEF PanesInv, PanesKeep, GrantedKeeps
  <2>2. Alive' = Alive \cup {s}
    BY <1>1, <1>2, <1>3, <1>5 DEF Alive
  <2> QED
    BY <1>1, <2>1, <2>2 DEF Count!Birth, Alive
<1> QED
  BY <1>4, <1>5

LEMMA CountDeath ==
    ASSUME PanesInv, NEW p \in Pane, ProcessExits(p)
    PROVE  (\E s \in Session : Count!Death(s)) \/ UNCHANGED Count!countVars
<1>1. /\ pty[p] # NoSession /\ pty' = [pty EXCEPT ![p] = NoSession] /\ ledger' = ledger
      /\ pty \in [Pane -> Session \cup {NoSession}] /\ crossed' = crossed
  BY PanesTypes DEF ProcessExits, PanesInv
<1>2. pty[p] \in Session
  BY <1>1
<1>3. \A q \in Pane : pty'[q] = IF q = p THEN NoSession ELSE pty[q]
  BY <1>1
<1>4. CASE pty[p] \in crossed
  <2>1. Alive' = Alive
    BY <1>1, <1>3, <1>4 DEF Alive
  <2> QED
    BY <1>1, <2>1, CountStutters
<1>5. CASE pty[p] \notin crossed
  <2>1. ASSUME NEW q \in Pane, pty[q] = pty[p] PROVE q = p
    <3>1. record[q].session = pty[q] /\ record[p].session = pty[p]
      BY <1>1, <1>5, <2>1 DEF PanesInv, PanesKeep, ProcessKeeps, Own
    <3> QED
      BY <1>2, <2>1, <3>1, KeyIsOfOnePane
  <2>2. Alive' = Alive \ {pty[p]}
    BY <1>1, <1>3, <2>1 DEF Alive
  <2>3. PICK s \in Session : s = pty[p]
    BY <1>2
  <2>4. Count!Death(s)
    BY <1>1, <2>2, <2>3 DEF Count!Death, Alive
  <2> QED
    BY <2>4
<1> QED
  BY <1>4, <1>5

\* What is handed back is of no living process that counts.
LEMMA CountReturn ==
    ASSUME PanesInv, NEW p \in Pane, NEW s \in Session, Own(p, s),
           s \notin crossed => record[p].state \notin InHand,
           ledger' \in {ledger, ledger \ {s}}, pty' = pty, crossed' = crossed
    PROVE  UNCHANGED Count!countVars \/ Count!Return(s)
<1>1. s \notin Alive /\ Alive' = Alive
  BY OwedIsNotAlive DEF Alive
<1> QED
  BY <1>1, CountStutters DEF Count!Return, Alive

\* The accounts count as the ledger does.
LEMMA SameCount == \A S : Count!Cardinality(S) = Cardinality(S)
BY Zenon DEF Cardinality, Count!Cardinality, IsFiniteSet, Count!IsFiniteSet

\* What a launch crosses has no process that counts.
LEMMA CountLaunch ==
    ASSUME PanesInv, NEW p \in Pane, LaunchAsks(p)
    PROVE  UNCHANGED Count!countVars
<1>1. /\ ledger' = ledger /\ pty' = pty /\ pty[p] = NoSession
      /\ crossed' \subseteq crossed \cup UnderWay(p) \cup {launches + 1} /\ crossed \subseteq crossed'
  BY DEF LaunchAsks
<1>2. ASSUME NEW q \in Pane, pty[q] \notin crossed, pty[q] # NoSession PROVE pty[q] \notin crossed'
  <2>1. record[q].session = pty[q] /\ q # p
    BY <1>1, <1>2 DEF PanesInv, PanesKeep, ProcessKeeps, Own
  <2>2. record[q].session \in Nat /\ record[q].session <= launches /\ launches \in Nat
    BY PanesTypes DEF PanesInv, PanesKeep, KeysAreDistinct
  <2>3. ASSUME pty[q] \in UnderWay(p) PROVE FALSE
    <3>1. pty[q] \in Session /\ (<<pty[q], p>> \in asking \/ Owed(pty[q], p)
                                  \/ record[p].session = pty[q])
      BY <2>3 DEF UnderWay, Owed
    <3>2. record[p].session = pty[q]
      BY <1>2, <3>1 DEF PanesInv, PanesKeep, AskingKeeps, OwedKeeps, Own
    <3> QED
      BY <2>1, <3>1, <3>2, KeyIsOfOnePane
  <2>4. pty[q] # launches + 1
    BY <2>1, <2>2
  <2> QED
    BY <1>1, <1>2, <2>3, <2>4
<1>3. Alive' = Alive
  BY <1>1, <1>2 DEF Alive
<1> QED
  BY <1>1, <1>3, CountStutters

\* Every step of the panes is a step of the accounts or a stutter.
LEMMA CountStep ==
    ASSUME PanesInv, [Next]_vars
    PROVE  [Count!Next]_Count!countVars
<1>u. UNCHANGED <<ledger, pty, crossed>> => UNCHANGED Count!countVars
  BY CountStutters DEF Alive
<1>1. ASSUME NEW p \in Pane, LaunchRefused(p) \/ Kill(p)
      PROVE  UNCHANGED Count!countVars
  BY <1>u, <1>1 DEF LaunchRefused, Kill
<1>a. ASSUME NEW p \in Pane, LaunchAsks(p) PROVE UNCHANGED Count!countVars
  BY <1>a, CountLaunch
<1>2. ASSUME NEW p \in Pane, ProcessExits(p) PROVE UNCHANGED Count!countVars \/ Count!Next
  BY <1>2, CountDeath DEF Count!Next
<1>3. ASSUME NEW p \in Pane, NEW s \in Session, EmitterAcquires(s, p) PROVE Count!Next
  <2>1. /\ Cardinality(ledger) < Allowance /\ ledger' = ledger \cup {s} /\ pty' = pty
        /\ crossed' = crossed
    BY <1>3 DEF EmitterAcquires
  <2>2. Count!Take(s)
    BY <2>1, SameCount DEF Count!Take
  <2> QED
    BY <2>2 DEF Count!Next
<1>4. ASSUME NEW p \in Pane, NEW s \in Session,
             TicketUndelivered(s, p) \/ TicketRefused(s, p) \/ SpawnFailsBeforeBirth(s, p)
      PROVE  UNCHANGED Count!countVars \/ Count!Next
  <2>1. /\ <<s, p>> \in asking /\ ledger' \in {ledger, ledger \ {s}} /\ pty' = pty
        /\ crossed' = crossed
    BY <1>4 DEF TicketUndelivered, TicketRefused, SpawnFailsBeforeBirth, GiveUpLaunch
  <2>2. Own(p, s) /\ (s \notin crossed => record[p].state \notin InHand)
    BY <2>1 DEF PanesInv, PanesKeep, AskingKeeps, InHand
  <2>3. UNCHANGED Count!countVars \/ Count!Return(s)
    BY <2>1, <2>2, CountReturn
  <2> QED
    BY <2>3 DEF Count!Next
<1>5. ASSUME NEW p \in Pane, NEW s \in Session, SpawnRuns(s, p) \/ SpawnRolledBack(s, p)
      PROVE  UNCHANGED Count!countVars \/ Count!Next
  BY <1>5, CountBirth DEF Count!Next
<1>6. ASSUME NEW r \in releasing, ReleaseSucceeds(r) \/ ReleaseFails(r)
      PROVE  UNCHANGED Count!countVars \/ Count!Next
  <2>1. /\ r.pane \in Pane /\ r.session \in Session /\ Own(r.pane, r.session)
        /\ r.session \notin crossed => record[r.pane].state \notin InHand
    BY AwaitedIsOver
  <2>2. ledger' \in {ledger, ledger \ {r.session}} /\ pty' = pty /\ crossed' = crossed
    BY <1>6 DEF ReleaseSucceeds, ReleaseFails
  <2>3. UNCHANGED Count!countVars \/ Count!Return(r.session)
    BY <2>1, <2>2, CountReturn
  <2> QED
    BY <2>1, <2>3 DEF Count!Next
<1>7. ASSUME (\E k \in Pass : Retry(k) \/ PassGoesOn(k)) \/ SupervisionLost \/ SupervisionReady
                \/ UNCHANGED vars
      PROVE  UNCHANGED Count!countVars
  BY <1>u, <1>7 DEF Retry, RetryOver, PassGoesOn, SupervisionLost, SupervisionReady, vars
<1> QED
  BY <1>1, <1>a, <1>2, <1>3, <1>4, <1>5, <1>6, <1>7 DEF Next

\* The launcher, the session manager and the ledger implement the accounts of
\* the subscription: a session is counted before its process is born and as
\* long as it lives, unless its launch crossed another; what is handed back is
\* of no living process of the others; and never are more counted than the
\* allowance.
THEOREM PanesImplementTerminalCount == Spec => ImplementsTerminalCount
<1>1. Init => Count!Init
  <2> SUFFICES ASSUME Init PROVE Count!Init
    OBVIOUS
  <2>1. \A p \in Pane : pty[p] = NoSession
    BY DEF Init
  <2> QED
    BY <2>1 DEF Init, Count!Init
<1>2. PanesInv /\ [Next]_vars => [Count!Next]_Count!countVars
  BY CountStep
<1> QED
  BY <1>1, <1>2, PanesAlways, PTL DEF Spec, ImplementsTerminalCount, Count!Spec

(***************************************************************************)
(* The voice turns: texts.                                                 *)
(***************************************************************************)

Piece == Utterance \cup {Other}
Texts == box \in Seq(Piece) /\ sent \in Seq(Seq(Piece))

InText(t, u) == \E i \in DOMAIN t : t[i] = u
InBox(u) == InText(box, u)
InSent(u) == \E n \in DOMAIN sent : InText(sent[n], u)

\* An utterance lies in the input or in a prompt still to be presented.
Lies(u) == InBox(u) \/ InSent(u)

\* It lies in one place: the input, or one prompt.
Placed == \A u \in Utterance :
    /\ ~(InBox(u) /\ InSent(u))
    /\ \A m, n \in DOMAIN sent : InText(sent[m], u) /\ InText(sent[n], u) => m = n

\* What a step does to the texts that puts nothing new into them.
NothingNew == /\ Texts' /\ Placed'
              /\ \A u \in Utterance : Lies(u)' => Lies(u)

\* The names of the model are not utterances.
LEMMA NotUtterances == None \notin Utterance /\ Other \notin Utterance /\ None # Other
BY VoiceAssumption DEF None, Other

\* The empty text holds nothing.
LEMMA NothingInEmpty == \A u : ~InText(<<>>, u)
BY DEF InText

\* A longer text holds what it held and its last piece.
LEMMA InAppended ==
    ASSUME NEW t \in Seq(Piece), NEW x \in Piece, NEW u, InText(Append(t, x), u)
    PROVE  InText(t, u) \/ u = x
<1>1. PICK i \in DOMAIN Append(t, x) : Append(t, x)[i] = u
  BY DEF InText
<1>2. /\ DOMAIN Append(t, x) = 1..(Len(t) + 1) /\ DOMAIN t = 1..Len(t) /\ Len(t) \in Nat
      /\ \A j \in 1..(Len(t) + 1) : Append(t, x)[j] = IF j = Len(t) + 1 THEN x ELSE t[j]
  OBVIOUS
<1>3. CASE i = Len(t) + 1
  BY <1>1, <1>2, <1>3
<1>4. CASE i # Len(t) + 1
  BY <1>1, <1>2, <1>4 DEF InText
<1> QED
  BY <1>3, <1>4

\* A concatenation holds what its parts hold.
LEMMA InConcatenation ==
    ASSUME NEW s \in Seq(Piece), NEW t \in Seq(Piece), NEW u, InText(s \o t, u)
    PROVE  InText(s, u) \/ InText(t, u)
<1>1. PICK i \in DOMAIN (s \o t) : (s \o t)[i] = u
  BY DEF InText
<1>2. /\ DOMAIN (s \o t) = 1..(Len(s) + Len(t)) /\ DOMAIN s = 1..Len(s) /\ DOMAIN t = 1..Len(t)
      /\ Len(s) \in Nat /\ Len(t) \in Nat
  OBVIOUS
<1>3. CASE i <= Len(s)
  <2>1. (s \o t)[i] = s[i] /\ i \in DOMAIN s
    BY <1>1, <1>2, <1>3
  <2> QED
    BY <1>1, <2>1 DEF InText
<1>4. CASE ~(i <= Len(s))
  <2>1. (s \o t)[i] = t[i - Len(s)] /\ i - Len(s) \in DOMAIN t
    BY <1>1, <1>2, <1>4
  <2> QED
    BY <1>1, <2>1 DEF InText
<1> QED
  BY <1>3, <1>4

\* The tail of a text holds what the text holds.
LEMMA InTail ==
    ASSUME NEW t \in Seq(Piece), t # <<>>, NEW u, InText(Tail(t), u)
    PROVE  InText(t, u)
<1>1. PICK i \in DOMAIN Tail(t) : Tail(t)[i] = u
  BY DEF InText
<1>2. i \in Nat /\ Tail(t)[i] = t[i + 1] /\ i + 1 \in DOMAIN t
  BY <1>1
<1> QED
  BY <1>1, <1>2 DEF InText

\* One text behind another is a text, of their pieces.
LEMMA Joined ==
    ASSUME NEW s \in Seq(Piece), NEW t \in Seq(Piece)
    PROVE  /\ Join(s, t) \in Seq(Piece)
           /\ \A u : InText(Join(s, t), u) => InText(s, u) \/ InText(t, u)
<1>1. CASE Join(s, t) = s \o t
  BY <1>1, InConcatenation
<1>2. CASE Join(s, t) # s \o t
  <2>1. t # <<>> /\ Join(s, t) = s \o Tail(t)
    BY <1>2 DEF Join
  <2>2. Tail(t) \in Seq(Piece)
    BY <2>1
  <2>3. s \o Tail(t) \in Seq(Piece)
    BY <2>2
  <2> QED
    BY <2>1, <2>2, <2>3, InConcatenation, InTail
<1> QED
  BY <1>1, <1>2

\* Other text behind the input.
LEMMA OtherJoins ==
    ASSUME Texts, Placed, box' = Join(box, <<Other>>), sent' = sent
    PROVE  NothingNew
<1>1. <<Other>> \in Seq(Piece) /\ \A u \in Utterance : ~InText(<<Other>>, u)
  BY NotUtterances DEF Piece, InText
<1>2. box' \in Seq(Piece) /\ \A u \in Utterance : InText(box', u) => InText(box, u)
  BY <1>1, Joined DEF Texts
<1> QED
  BY <1>2 DEF NothingNew, Texts, Placed, Lies, InBox, InSent

\* The input is cleared.
LEMMA BoxEmpties ==
    ASSUME Texts, Placed, box' = <<>>, sent' = sent
    PROVE  NothingNew
<1>1. box' \in Seq(Piece) /\ \A u : ~InText(box', u)
  BY NothingInEmpty
<1> QED
  BY <1>1 DEF NothingNew, Texts, Placed, Lies, InBox, InSent

\* Nothing happens to the texts.
LEMMA TextsStay ==
    ASSUME Texts, Placed, UNCHANGED <<box, sent>>
    PROVE  NothingNew
BY DEF NothingNew, Texts, Placed, Lies, InBox, InSent

\* An Enter makes a prompt of the input.
LEMMA Submits == ASSUME Texts, Placed, Submit PROVE NothingNew
<1>1. CASE UNCHANGED <<box, sent>>
  BY <1>1, TextsStay
<1>2. CASE sent' = Append(sent, box) /\ box' = <<>>
  <2>1. /\ DOMAIN sent' = 1..(Len(sent) + 1) /\ DOMAIN sent = 1..Len(sent) /\ Len(sent) \in Nat
        /\ \A n \in DOMAIN sent' : sent'[n] = IF n = Len(sent) + 1 THEN box ELSE sent[n]
    BY <1>2 DEF Texts
  <2>2. Texts'
    BY <1>2 DEF Texts
  <2>3. \A u : ~InText(box', u)
    BY <1>2, NothingInEmpty
  <2>4. ASSUME NEW u, NEW n \in DOMAIN sent', InText(sent'[n], u)
        PROVE  \/ n = Len(sent) + 1 /\ InBox(u)
               \/ n \in DOMAIN sent /\ InText(sent[n], u) /\ InSent(u)
    BY <2>1, <2>4 DEF InBox, InSent
  <2>5. Placed'
    BY <2>3, <2>4 DEF Placed, InBox, InSent
  <2>6. \A u \in Utterance : Lies(u)' => Lies(u)
    BY <2>3, <2>4 DEF Lies, InBox, InSent
  <2> QED
    BY <2>2, <2>5, <2>6 DEF NothingNew
<1> QED
  BY <1>1, <1>2 DEF Submit

\* The first prompt is taken out of the queue: what it held is in no other.
LEMMA Presented ==
    ASSUME Texts, Placed, sent # <<>>, sent' = Tail(sent)
    PROVE  /\ Head(sent) \in Seq(Piece) /\ sent' \in Seq(Seq(Piece))
           /\ \A u \in Utterance :
                 /\ InSent(u)' => InSent(u)
                 /\ InText(Head(sent), u) => InSent(u) /\ ~InSent(u)'
                 /\ \A m, n \in DOMAIN sent' :
                       InText(sent'[m], u) /\ InText(sent'[n], u) => m = n
<1>1. /\ Len(sent) \in Nat \ {0} /\ DOMAIN sent = 1..Len(sent) /\ Head(sent) = sent[1]
      /\ sent' \in Seq(Seq(Piece)) /\ Head(sent) \in Seq(Piece)
  BY DEF Texts
<1>2. /\ DOMAIN sent' = 1..(Len(sent) - 1)
      /\ \A n \in DOMAIN sent' : sent'[n] = sent[n + 1] /\ n + 1 \in DOMAIN sent /\ n \in Nat
  BY <1>1 DEF Texts
<1>3. 1 \in DOMAIN sent
  BY <1>1
<1>4. ASSUME NEW u \in Utterance
      PROVE  /\ InSent(u)' => InSent(u)
             /\ InText(Head(sent), u) => InSent(u) /\ ~InSent(u)'
  <2>1. InSent(u)' => \E n \in DOMAIN sent : n # 1 /\ InText(sent[n], u)
    BY <1>2 DEF InSent
  <2>2. InText(Head(sent), u) => InText(sent[1], u)
    BY <1>1
  <2> QED
    BY <1>3, <2>1, <2>2 DEF InSent, Placed
<1>5. ASSUME NEW u \in Utterance, NEW m \in DOMAIN sent', NEW n \in DOMAIN sent',
             InText(sent'[m], u), InText(sent'[n], u)
      PROVE  m = n
  <2>1. m + 1 = n + 1 /\ m \in Nat /\ n \in Nat
    BY <1>2, <1>5 DEF Placed
  <2> QED
    BY <2>1
<1> QED
  BY <1>1, <1>4, <1>5

\* A blocked prompt goes, or goes back into the input.
LEMMA PromptGoes ==
    ASSUME Texts, Placed, sent # <<>>, sent' = Tail(sent), box' \in {box, Join(Head(sent), box)}
    PROVE  NothingNew
<1>1. box \in Seq(Piece) /\ Head(sent) \in Seq(Piece) /\ sent' \in Seq(Seq(Piece))
  BY Presented DEF Texts
<1>2. /\ box' \in Seq(Piece)
      /\ \A u : InText(box', u) => InText(box, u) \/ InText(Head(sent), u)
  BY <1>1, Joined
<1>3. Texts'
  BY <1>1, <1>2 DEF Texts
<1>4. Placed'
  BY <1>2, Presented DEF Placed, InBox
<1>5. \A u \in Utterance : Lies(u)' => Lies(u)
  BY <1>2, Presented DEF Lies, InBox
<1> QED
  BY <1>3, <1>4, <1>5 DEF NothingNew

(***************************************************************************)
(* The voice turns: the authority and what becomes of an utterance.        *)
(***************************************************************************)

Stage == {"unsaid", "echoing", "entered"} \cup Settled
Fate == {None, "pending", "cancelled", "submission", "by_operator", "by_exit"}
Turn == Utterance \cup {None}

VoiceTypeOK ==
    /\ Texts /\ pending \in Turn /\ active \in Turn /\ ended \in Turn
    /\ fate \in [Utterance -> Fate] /\ stage \in [Utterance -> Stage]
    /\ residue \in BOOLEAN /\ answering \in SUBSET Piece

\* An utterance whose answer is produced is a turn of the authority, or was one
\* that a later disarm forgot, or came behind other text; the turns are accepted
\* ones; the pending one is not yet.
TurnsKeep ==
    /\ answering \cap Utterance \subseteq {active, ended} \cup lapsed \cup spliced
    /\ {active, ended} \subseteq admitted \cup {None}
    /\ pending # None => /\ pending \notin admitted /\ fate[pending] = "pending"
                         /\ stage[pending] # "unsaid"

\* An utterance that was not said is nowhere; one that is told as accepted was
\* accepted, or is the one case of Reset, and lies nowhere any more; what was
\* accepted is told so for ever, and answered is only that or what was behind other text.
FatesKeep == \A u \in Utterance :
    /\ stage[u] = "unsaid" => u \notin admitted /\ fate[u] = None /\ ~Lies(u)
    /\ fate[u] = "submission" => u \in admitted \cup misjudged /\ ~Lies(u)
    /\ u \in admitted => fate[u] = "submission"
    /\ stage[u] = "delivered" => u \in admitted \cup misjudged
    /\ u \in answered => u \in admitted \cup spliced

\* An utterance left where it was typed, or in a prompt, is marked.
MarksKeep == \A u \in Utterance :
    Lies(u) /\ stage[u] \in Settled /\ u \notin resolved => residue

VoiceKeeps == Placed /\ TurnsKeep /\ FatesKeep /\ MarksKeep
VoiceInv == VoiceTypeOK /\ VoiceKeeps

\* What lies behind other text, in the input or a prompt, is on record.
BehindKnown == /\ Behind(box) \subseteq spliced
               /\ \A n \in DOMAIN sent : Behind(sent[n]) \subseteq spliced

\* A process that is gone keeps no text.
DownIsEmpty == session = "down" => box = <<>> /\ sent = <<>>

\* The pieces of a text.
LEMMA PiecesAre ==
    ASSUME NEW t \in Seq(Piece)
    PROVE  /\ Pieces(t) \in SUBSET Piece
           /\ t # <<>> => Head(t) \in Pieces(t)
           /\ Head(t) \notin Utterance => Pieces(t) \cap Utterance = Behind(t)
<1>1. /\ DOMAIN t = 1..Len(t) /\ Len(t) \in Nat /\ \A i \in DOMAIN t : t[i] \in Piece
      /\ t # <<>> => Head(t) = t[1] /\ 1 \in DOMAIN t
  OBVIOUS
<1>2. t = <<>> => Pieces(t) = {}
  BY DEF Pieces
<1>3. Pieces(t) \in SUBSET Piece
  BY <1>1 DEF Pieces
<1>4. t # <<>> => Head(t) \in Pieces(t)
  BY <1>1 DEF Pieces
<1> QED
  BY <1>2, <1>3, <1>4 DEF Behind

\* At the start nothing is said.
LEMMA InitVoice == VoiceInit => VoiceInv
<1> SUFFICES ASSUME VoiceInit PROVE VoiceInv
  OBVIOUS
<1>1. box = <<>> /\ sent = <<>> /\ \A u : ~InBox(u) /\ ~InSent(u)
  BY NothingInEmpty DEF VoiceInit, InBox, InSent
<1>2. Texts /\ Placed /\ \A u : ~Lies(u)
  BY <1>1 DEF Texts, Placed, Lies
<1>3. VoiceTypeOK
  BY <1>2 DEF VoiceInit, VoiceTypeOK, Turn, Fate, Stage
<1>4. TurnsKeep /\ FatesKeep /\ MarksKeep
  BY <1>2, NotUtterances DEF VoiceInit, TurnsKeep, FatesKeep, MarksKeep, Settled, None
<1> QED
  BY <1>2, <1>3, <1>4 DEF VoiceInv, VoiceKeeps

\* What Fates does.
LEMMA FatesAre ==
    ASSUME VoiceTypeOK, NEW turns, NEW f \in Fate, Fates(turns, f)
    PROVE  /\ fate' \in [Utterance -> Fate]
           /\ \A u \in Utterance : fate'[u] = IF u \in turns THEN f ELSE fate[u]
BY DEF Fates, VoiceTypeOK

\* A step of the texts alone.
LEMMA TextStepKeeps ==
    ASSUME VoiceInv, spliced \subseteq spliced', NothingNew,
           UNCHANGED <<authority, stage, residue, answering, history>>
    PROVE  VoiceInv'
<1>1. VoiceTypeOK'
  BY DEF VoiceInv, VoiceTypeOK, NothingNew, authority
<1>2. TurnsKeep' /\ FatesKeep' /\ MarksKeep'
  BY DEF VoiceInv, VoiceKeeps, TurnsKeep, FatesKeep, MarksKeep, NothingNew, authority, history
<1> QED
  BY <1>1, <1>2 DEF VoiceInv, VoiceKeeps, NothingNew

\* What the delivery types: an utterance that lay nowhere lies in the input.
LEMMA Types ==
    ASSUME VoiceInv, NEW u \in Utterance, stage[u] = "unsaid", box' = Append(box, u), sent' = sent
    PROVE  /\ Texts' /\ Placed'
           /\ \A v \in Utterance : Lies(v)' => Lies(v) \/ v = u
<1>1. ~Lies(u) /\ Texts /\ Placed
  BY DEF VoiceInv, VoiceKeeps, FatesKeep, VoiceTypeOK
<1>2. u \in Piece /\ box \in Seq(Piece)
  BY <1>1 DEF Piece, Texts
<1>3. box' \in Seq(Piece) /\ \A v : InText(box', v) => InText(box, v) \/ v = u
  BY <1>2, InAppended
<1>4. \A v : InSent(v)' = InSent(v)
  BY DEF InSent
<1>5. Texts'
  BY <1>1, <1>3 DEF Texts
<1>6. Placed'
  BY <1>1, <1>3, <1>4 DEF Placed, InBox, Lies
<1> QED
  BY <1>3, <1>4, <1>5, <1>6 DEF Lies, InBox

\* The delivery's steps.
LEMMA SpeaksKeeps ==
    ASSUME VoiceInv, spliced \subseteq spliced', NEW u \in Utterance, Speaks(u)
    PROVE  VoiceInv'
<1>1. /\ stage[u] = "unsaid" /\ pending' = u /\ stage' = [stage EXCEPT ![u] = "echoing"]
      /\ Fates({u}, "pending") /\ box' = Append(box, u) /\ sent' = sent
      /\ UNCHANGED <<active, ended, residue, answering, history>>
  BY DEF Speaks
<1>2. Texts' /\ Placed' /\ \A v \in Utterance : Lies(v)' => Lies(v) \/ v = u
  BY <1>1, Types
<1>3. /\ fate' \in [Utterance -> Fate]
      /\ \A v \in Utterance : fate'[v] = IF v = u THEN "pending" ELSE fate[v]
  BY <1>1, FatesAre DEF VoiceInv, Fate
<1>4. /\ stage' \in [Utterance -> Stage]
      /\ \A v \in Utterance : stage'[v] = IF v = u THEN "echoing" ELSE stage[v]
  BY <1>1 DEF VoiceInv, VoiceTypeOK, Stage
<1>5. VoiceTypeOK'
  BY <1>1, <1>2, <1>3, <1>4 DEF VoiceInv, VoiceTypeOK, Turn
<1>6. u \notin admitted
  BY <1>1 DEF VoiceInv, VoiceKeeps, FatesKeep
<1>7. TurnsKeep'
  BY <1>1, <1>3, <1>4, <1>6 DEF VoiceInv, VoiceKeeps, TurnsKeep, history
<1>8. FatesKeep'
  BY <1>1, <1>2, <1>3, <1>4, <1>6 DEF VoiceInv, VoiceKeeps, FatesKeep, history
<1>9. MarksKeep'
  BY <1>1, <1>2, <1>4 DEF VoiceInv, VoiceKeeps, MarksKeep, Settled, history
<1> QED
  BY <1>2, <1>5, <1>7, <1>8, <1>9 DEF VoiceInv, VoiceKeeps

LEMMA SpeaksInVainKeeps ==
    ASSUME VoiceInv, spliced \subseteq spliced', NEW u \in Utterance, SpeaksInVain(u)
    PROVE  VoiceInv'
<1>1. /\ stage[u] = "unsaid" /\ pending = None /\ stage' = [stage EXCEPT ![u] = "withheld"]
      /\ Fates({u}, "cancelled") /\ box' \in {box, Append(box, u)} /\ sent' = sent
      /\ residue' = TRUE \/ UNCHANGED <<residue, box>>
      /\ UNCHANGED <<pending, active, ended, answering, history>>
  BY DEF SpeaksInVain
<1>2. Texts' /\ Placed' /\ \A v \in Utterance : Lies(v)' => Lies(v) \/ v = u
  <2>1. CASE box' = box
    BY <1>1, <2>1, TextsStay DEF NothingNew, VoiceInv, VoiceTypeOK, VoiceKeeps
  <2> QED
    BY <1>1, <2>1, Types
<1>3. /\ fate' \in [Utterance -> Fate]
      /\ \A v \in Utterance : fate'[v] = IF v = u THEN "cancelled" ELSE fate[v]
  BY <1>1, FatesAre DEF VoiceInv, Fate
<1>4. /\ stage' \in [Utterance -> Stage]
      /\ \A v \in Utterance : stage'[v] = IF v = u THEN "withheld" ELSE stage[v]
  BY <1>1 DEF VoiceInv, VoiceTypeOK, Stage, Settled
<1>5. VoiceTypeOK'
  <2>1. residue' \in BOOLEAN
    BY <1>1 DEF VoiceInv, VoiceTypeOK
  <2> QED
    BY <1>1, <1>2, <1>3, <1>4, <2>1 DEF VoiceInv, VoiceTypeOK, Turn
<1>6. u \notin admitted
  BY <1>1 DEF VoiceInv, VoiceKeeps, FatesKeep
<1>7. TurnsKeep'
  BY <1>1 DEF VoiceInv, VoiceKeeps, TurnsKeep, history
<1>8. FatesKeep'
  BY <1>1, <1>2, <1>3, <1>4, <1>6 DEF VoiceInv, VoiceKeeps, FatesKeep, history
<1>9. MarksKeep'
  <2>1. CASE residue' = TRUE
    BY <2>1 DEF MarksKeep
  <2>2. CASE UNCHANGED <<residue, box>>
    <3>1. ~Lies(u) /\ \A v \in Utterance : Lies(v)' = Lies(v)
      BY <1>1, <2>2 DEF VoiceInv, VoiceKeeps, FatesKeep, Lies, InBox, InSent
    <3> QED
      BY <1>1, <1>4, <2>2, <3>1 DEF VoiceInv, VoiceKeeps, MarksKeep, history
  <2> QED
    BY <1>1, <2>1, <2>2
<1> QED
  BY <1>2, <1>5, <1>7, <1>8, <1>9 DEF VoiceInv, VoiceKeeps

LEMMA EntersKeeps ==
    ASSUME VoiceInv, spliced \subseteq spliced', NEW u \in Utterance, Enters(u)
    PROVE  VoiceInv'
<1>1. /\ stage[u] = "echoing" /\ Submit /\ stage' = [stage EXCEPT ![u] = "entered"]
      /\ UNCHANGED <<authority, residue, answering, history>>
  BY DEF Enters
<1>2. NothingNew
  BY <1>1, Submits DEF VoiceInv, VoiceTypeOK, VoiceKeeps
<1>3. /\ stage' \in [Utterance -> Stage]
      /\ \A v \in Utterance : stage'[v] = IF v = u THEN "entered" ELSE stage[v]
  BY <1>1 DEF VoiceInv, VoiceTypeOK, Stage
<1>4. VoiceTypeOK'
  BY <1>1, <1>2, <1>3 DEF VoiceInv, VoiceTypeOK, NothingNew, authority
<1>5. TurnsKeep' /\ FatesKeep'
  BY <1>1, <1>2, <1>3, NotUtterances
     DEF VoiceInv, VoiceTypeOK, Turn, VoiceKeeps, TurnsKeep, FatesKeep,
     NothingNew, authority, history
<1>6. MarksKeep'
  BY <1>1, <1>2, <1>3 DEF VoiceInv, VoiceKeeps, MarksKeep, Settled, NothingNew, history
<1> QED
  BY <1>2, <1>4, <1>5, <1>6 DEF VoiceInv, VoiceKeeps, NothingNew

LEMMA WithholdsKeeps ==
    ASSUME VoiceInv, spliced \subseteq spliced', NEW u \in Utterance, Withholds(u)
    PROVE  VoiceInv'
<1>1. /\ stage[u] = "echoing" /\ Cancel(u) /\ residue' = TRUE
      /\ stage' = [stage EXCEPT ![u] = "withheld"]
      /\ UNCHANGED <<active, ended, box, sent, answering, history>>
  BY DEF Withholds, cli
<1>2. NothingNew
  BY <1>1, TextsStay DEF VoiceInv, VoiceTypeOK, VoiceKeeps
<1>3. /\ stage' \in [Utterance -> Stage]
      /\ \A v \in Utterance : stage'[v] = IF v = u THEN "withheld" ELSE stage[v]
  BY <1>1 DEF VoiceInv, VoiceTypeOK, Stage, Settled
<1>4. \/ pending' = pending /\ fate' = fate
      \/ /\ pending = u /\ pending' = None /\ fate' \in [Utterance -> Fate]
         /\ \A v \in Utterance : fate'[v] = IF v = u THEN "cancelled" ELSE fate[v]
  BY <1>1, FatesAre DEF Cancel, VoiceInv, Fate
<1>5. VoiceTypeOK'
  BY <1>1, <1>2, <1>3, <1>4 DEF VoiceInv, VoiceTypeOK, NothingNew, Turn
<1>6. TurnsKeep'
  BY <1>1, <1>3, <1>4, NotUtterances DEF VoiceInv, VoiceTypeOK, Turn, VoiceKeeps, TurnsKeep, history
<1>7. FatesKeep'
  BY <1>1, <1>2, <1>3, <1>4, NotUtterances
     DEF VoiceInv, VoiceKeeps, TurnsKeep, FatesKeep, NothingNew,
     history
<1>8. MarksKeep'
  BY <1>1 DEF MarksKeep
<1> QED
  BY <1>2, <1>5, <1>6, <1>7, <1>8 DEF VoiceInv, VoiceKeeps, NothingNew

\* What is reported is what the authority said, and what is not confirmed is
\* marked.
LEMMA SettlesKeeps ==
    ASSUME VoiceInv, spliced \subseteq spliced', NEW u \in Utterance, Settles(u)
    PROVE  VoiceInv'
<1>1. /\ stage[u] = "entered" /\ stage' = [stage EXCEPT ![u] = Report(fate[u])]
      /\ residue' = (residue \/ Mark(fate[u]))
      /\ UNCHANGED <<authority, box, sent, answering, history>>
  BY DEF Settles, cli
<1>2. NothingNew
  BY <1>1, TextsStay DEF VoiceInv, VoiceTypeOK, VoiceKeeps
<1>3. /\ stage' \in [Utterance -> Stage]
      /\ \A v \in Utterance : stage'[v] = IF v = u THEN Report(fate[u]) ELSE stage[v]
      /\ Report(fate[u]) \in {"delivered", "undelivered"}
      /\ Report(fate[u]) = "delivered" => fate[u] = "submission"
  BY <1>1 DEF VoiceInv, VoiceTypeOK, Stage, Settled, Report
<1>4. residue' \in BOOLEAN /\ (residue => residue') /\ (fate[u] # "submission" => residue')
  BY <1>1 DEF Mark, VoiceInv, VoiceTypeOK
<1>5. VoiceTypeOK'
  BY <1>1, <1>2, <1>3, <1>4 DEF VoiceInv, VoiceTypeOK, NothingNew, authority
<1>6. TurnsKeep'
  BY <1>1, <1>3, NotUtterances
     DEF VoiceInv, VoiceTypeOK, Turn, VoiceKeeps, TurnsKeep, authority, history
<1>7. FatesKeep'
  BY <1>1, <1>2, <1>3 DEF VoiceInv, VoiceKeeps, FatesKeep, NothingNew, authority, history
<1>8. MarksKeep'
  <2>1. ASSUME NEW v \in Utterance, Lies(v)', stage'[v] \in Settled, v \notin resolved
        PROVE  residue'
    <3>1. Lies(v)
      BY <1>2, <2>1 DEF NothingNew
    <3>2. CASE v = u
      BY <1>4, <3>1, <3>2 DEF VoiceInv, VoiceKeeps, FatesKeep
    <3>3. CASE v # u
      BY <1>3, <1>4, <2>1, <3>1, <3>3 DEF VoiceInv, VoiceKeeps, MarksKeep
    <3> QED
      BY <3>2, <3>3
  <2> QED
    BY <1>1, <2>1 DEF MarksKeep, history
<1> QED
  BY <1>2, <1>5, <1>6, <1>7, <1>8 DEF VoiceInv, VoiceKeeps, NothingNew

\* What a disarm does to the turns and the fates: an accepted turn keeps its
\* fate, and the answer under way stays that of a turn it ended or forgot.
LEMMA Disarms ==
    ASSUME VoiceInv, Disarm
    PROVE  /\ pending' = None /\ active' = None /\ ended' \in {ended, active}
           /\ fate' \in [Utterance -> Fate]
           /\ \A u \in Utterance : \/ fate'[u] = fate[u]
                                   \/ u = pending /\ fate'[u] = "by_operator"
           /\ lapsed \subseteq lapsed'
           /\ answering \cap Utterance \subseteq {ended'} \cup lapsed' \cup spliced
<1>1. /\ pending' = None /\ active' = None /\ lapsed' = lapsed \cup ({ended} \ {None, ended'})
      /\ ended' = IF {active, pending} = {None} THEN ended ELSE active
  BY DEF Disarm, Stays
<1>2. CASE active # None
  <2>1. Fates({active}, "submission")
    BY <1>2 DEF Disarm
  <2>2. /\ fate' \in [Utterance -> Fate]
        /\ \A u \in Utterance : fate'[u] = IF u = active THEN "submission" ELSE fate[u]
    BY <2>1, FatesAre DEF VoiceInv, Fate
  <2>3. active \in admitted
    BY <1>2 DEF VoiceInv, VoiceKeeps, TurnsKeep
  <2>4. \A u \in Utterance : fate'[u] = fate[u]
    BY <2>2, <2>3 DEF VoiceInv, VoiceKeeps, FatesKeep
  <2>5. ended' = active
    BY <1>1, <1>2
  <2>6. answering \cap Utterance \subseteq {ended'} \cup lapsed' \cup spliced
    BY <1>1, <2>5, NotUtterances DEF VoiceInv, VoiceKeeps, TurnsKeep
  <2> QED
    BY <1>1, <2>2, <2>4, <2>5, <2>6
<1>3. CASE active = None
  <2>1. Fates({pending}, "by_operator")
    BY <1>3 DEF Disarm
  <2>2. /\ fate' \in [Utterance -> Fate]
        /\ \A u \in Utterance : fate'[u] = IF u = pending THEN "by_operator" ELSE fate[u]
    BY <2>1, FatesAre DEF VoiceInv, Fate
  <2>3. ended' \in {ended, active}
    BY <1>1
  <2>4. answering \cap Utterance \subseteq {ended'} \cup lapsed' \cup spliced
    BY <1>1, <1>3, NotUtterances DEF VoiceInv, VoiceKeeps, TurnsKeep
  <2> QED
    BY <1>1, <2>2, <2>3, <2>4
<1> QED
  BY <1>2, <1>3

\* A key ends the turns at once, and what it resolves needs no mark.
LEMMA PressesKeeps ==
    ASSUME VoiceInv, spliced \subseteq spliced', NEW k \in {"char", "enter", "clear"}, Presses(k)
    PROVE  VoiceInv'
<1>1. /\ Disarm /\ UNCHANGED <<stage, box, sent, answering, admitted, answered, misjudged>>
      /\ \/ UNCHANGED <<residue, resolved>>
         \/ residue' = FALSE /\ resolved' = {u \in Utterance : stage[u] \in Settled}
  BY DEF Presses, cli
<1>2. NothingNew
  BY <1>1, TextsStay DEF VoiceInv, VoiceTypeOK, VoiceKeeps
<1>3. VoiceTypeOK'
  BY <1>1, <1>2, Disarms DEF VoiceInv, VoiceTypeOK, NothingNew, Turn
<1>4. TurnsKeep'
  BY <1>1, Disarms DEF VoiceInv, VoiceKeeps, TurnsKeep
<1>5. FatesKeep'
  <2>1. ASSUME NEW u \in Utterance, u = pending PROVE stage[u] # "unsaid" /\ u \notin admitted
    BY <2>1, NotUtterances DEF VoiceInv, VoiceKeeps, TurnsKeep
  <2> QED
    BY <1>1, <1>2, <2>1, Disarms DEF VoiceInv, VoiceKeeps, FatesKeep, NothingNew
<1>6. MarksKeep'
  BY <1>1, <1>2 DEF VoiceInv, VoiceKeeps, MarksKeep, NothingNew
<1> QED
  BY <1>2, <1>3, <1>4, <1>5, <1>6 DEF VoiceInv, VoiceKeeps, NothingNew

\* Keys and notices that arrive move texts, and nothing else of the invariant.
LEMMA ArrivalsKeep ==
    ASSUME VoiceInv, spliced \subseteq spliced', KeyArrives \/ NoticeComes \/ NoticeEnds
    PROVE  VoiceInv'
<1>1. Texts /\ Placed
  BY DEF VoiceInv, VoiceTypeOK, VoiceKeeps
<1>2. \/ UNCHANGED <<box, sent>>
      \/ box' = Join(box, <<Other>>) /\ sent' = sent
      \/ Submit
      \/ box' = <<>> /\ sent' = sent
  BY DEF KeyArrives, NoticeComes, NoticeEnds
<1>3. NothingNew
  BY <1>1, <1>2, TextsStay, OtherJoins, Submits, BoxEmpties
<1>4. UNCHANGED <<authority, stage, residue, answering, history>>
  BY DEF KeyArrives, NoticeComes, NoticeEnds
<1> QED
  BY <1>3, <1>4, TextStepKeeps

\* The authority's answer to a prompt.
LEMMA PresentsKeeps ==
    ASSUME VoiceInv, BehindKnown, spliced \subseteq spliced', Presents
    PROVE  VoiceInv'
<1>1. /\ sent # <<>> /\ answering = {} /\ sent' = Tail(sent) /\ Texts /\ Placed
      /\ UNCHANGED <<stage, residue, resolved, lapsed, misjudged>>
  BY DEF Presents, VoiceInv, VoiceTypeOK, VoiceKeeps
<1>2. ASSUME Blocks(Head(sent)) PROVE VoiceInv'
  <2>1. NothingNew
    BY <1>1, <1>2, PromptGoes DEF Blocks
  <2> QED
    BY <1>1, <1>2, <2>1, TextStepKeeps DEF Blocks, history
<1>3. ASSUME box' = box PROVE NothingNew
  BY <1>1, <1>3, PromptGoes
<1>4. ASSUME Admits(Head(sent)) PROVE VoiceInv'
  <2>1. /\ Head(sent) = <<pending>> /\ Head(sent) \in Seq(Piece) /\ pending' = None
        /\ active' = pending /\ ended' = None
        /\ Fates({pending}, "submission") /\ Answers(Head(sent))
        /\ admitted' = admitted \cup {pending} /\ box' = box
    BY <1>1, <1>4, Presented DEF Admits
  <2>2. PICK u \in Utterance : u = pending
    <3>1. Head(sent)[1] = pending /\ 1 \in DOMAIN Head(sent)
      BY <2>1
    <3>2. pending \in Piece
      BY <2>1, <3>1
    <3> QED
      BY <3>2, NotUtterances DEF VoiceInv, VoiceTypeOK, Turn, Piece
  <2>3. InText(Head(sent), u)
    BY <2>1, <2>2 DEF InText
  <2>4. InSent(u) /\ ~InSent(u)'
    BY <1>1, <2>3, Presented
  <2>5. ~InBox(u)'
    BY <1>1, <2>1, <2>4 DEF Placed, InBox
  <2>6. ~Lies(u)' /\ NothingNew
    BY <1>3, <2>1, <2>4, <2>5 DEF Lies
  <2>7. /\ fate' \in [Utterance -> Fate]
        /\ \A v \in Utterance : fate'[v] = IF v = u THEN "submission" ELSE fate[v]
    BY <2>1, <2>2, FatesAre DEF VoiceInv, Fate
  <2>13. Pieces(Head(sent)) = {u} /\ u \in Piece
    <3>1. Head(sent) = <<u>>
      BY <2>1, <2>2
    <3> QED
      BY <3>1 DEF Pieces, Piece
  <2>14. answering' = {u} /\ answered' = answered \cup {u}
    BY <2>1, <2>2, <2>13 DEF Answers
  <2>8. VoiceTypeOK'
    BY <1>1, <2>1, <2>2, <2>6, <2>7, <2>13, <2>14 DEF VoiceInv, VoiceTypeOK, NothingNew, Turn
  <2>9. TurnsKeep'
    <3>1. {active', ended'} \subseteq admitted' \cup {None} /\ pending' = None
      BY <2>1
    <3>2. answering' \cap Utterance \subseteq {active', ended'}
      BY <2>1, <2>2, <2>14
    <3> QED
      BY <3>1, <3>2 DEF TurnsKeep
  <2>10. stage[u] # "unsaid"
    BY <2>2, NotUtterances DEF VoiceInv, VoiceKeeps, TurnsKeep
  <2>11. FatesKeep'
    BY <1>1, <2>1, <2>2, <2>6, <2>7, <2>10, <2>14 DEF VoiceInv, VoiceKeeps, FatesKeep, NothingNew
  <2>12. MarksKeep'
    BY <1>1, <2>6 DEF VoiceInv, VoiceKeeps, MarksKeep, NothingNew
  <2> QED
    BY <2>6, <2>8, <2>9, <2>11, <2>12 DEF VoiceInv, VoiceKeeps, NothingNew
<1>5. ASSUME AdmitsOther(Head(sent)) PROVE VoiceInv'
  <2>1. /\ ended' = None /\ active = None /\ Answers(Head(sent))
        /\ Head(Head(sent)) \notin Utterance
        /\ UNCHANGED <<pending, active, fate, box, admitted>>
    BY <1>5 DEF AdmitsOther
  <2>2. NothingNew
    BY <1>3, <2>1
  <2>6. Head(sent) \in Seq(Piece) /\ Behind(Head(sent)) \subseteq spliced
    <3>1. Head(sent) = sent[1] /\ 1 \in DOMAIN sent
      BY <1>1 DEF Texts
    <3> QED
      BY <1>1, <3>1, Presented DEF BehindKnown
  <2>7. /\ Pieces(Head(sent)) \in SUBSET Piece
        /\ Pieces(Head(sent)) \cap Utterance \subseteq spliced
    BY <2>1, <2>6, PiecesAre
  <2>8. /\ answering' = Pieces(Head(sent))
        /\ answered' = answered \cup (Pieces(Head(sent)) \cap Utterance)
    BY <2>1 DEF Answers
  <2>3. VoiceTypeOK'
    BY <1>1, <2>1, <2>2, <2>7, <2>8 DEF VoiceInv, VoiceTypeOK, NothingNew, Turn
  <2>4. TurnsKeep'
    <3>1. answering' \cap Utterance \subseteq spliced'
      BY <2>7, <2>8
    <3> QED
      BY <1>1, <2>1, <3>1 DEF VoiceInv, VoiceKeeps, TurnsKeep
  <2>5. FatesKeep' /\ MarksKeep'
    <3>1. answered' \subseteq answered \cup spliced
      BY <2>7, <2>8
    <3> QED
      BY <1>1, <2>1, <2>2, <3>1 DEF VoiceInv, VoiceKeeps, FatesKeep, MarksKeep, NothingNew
  <2> QED
    BY <2>2, <2>3, <2>4, <2>5 DEF VoiceInv, VoiceKeeps, NothingNew
<1> QED
  BY <1>2, <1>4, <1>5 DEF Presents

\* The end of the session empties the texts and settles the turn the authority
\* held; it may name a pending one accepted, and says so in misjudged.
LEMMA ExitsKeeps == ASSUME VoiceInv, spliced \subseteq spliced', Exits PROVE VoiceInv'
<1> DEFINE turn == IF active # None THEN active ELSE IF pending # None THEN pending ELSE ended
           wasAdmitted == active # None \/ ended # None
           f == IF wasAdmitted THEN "submission" ELSE "by_exit"
<1>1. /\ pending' = None /\ active' = None /\ ended' = None /\ Fates({turn}, f)
      /\ misjudged' = IF wasAdmitted /\ turn = pending THEN misjudged \cup {turn} ELSE misjudged
      /\ residue' = FALSE /\ box' = <<>> /\ sent' = <<>> /\ answering' = {}
      /\ UNCHANGED <<stage, admitted, answered, resolved, lapsed>>
  BY DEF Exits, Reset
<1>2. Texts' /\ Placed' /\ \A u \in Utterance : ~Lies(u)'
  BY <1>1, NothingInEmpty DEF Texts, Placed, Lies, InBox, InSent
<1>3. f \in Fate
  BY DEF Fate
<1>4. /\ fate' \in [Utterance -> Fate]
      /\ \A u \in Utterance : fate'[u] = IF u = turn THEN f ELSE fate[u]
  BY <1>1, <1>3, FatesAre DEF VoiceInv
<1>5. VoiceTypeOK'
  BY <1>1, <1>2, <1>4 DEF VoiceInv, VoiceTypeOK, Turn
<1>6. TurnsKeep'
  BY <1>1, NotUtterances DEF VoiceInv, VoiceKeeps, TurnsKeep
<1>7. ASSUME NEW u \in Utterance, u = turn
      PROVE  /\ stage[u] # "unsaid"
             /\ wasAdmitted => u \in admitted \cup misjudged'
             /\ ~wasAdmitted => u \notin admitted
  <2>1. u # None
    BY NotUtterances
  <2>2. (u = pending /\ active = None) \/ u \in {active, ended}
    BY <1>7, <2>1
  <2>3. CASE u \in {active, ended}
    BY <2>1, <2>3 DEF VoiceInv, VoiceKeeps, TurnsKeep, FatesKeep
  <2>4. CASE u = pending /\ active = None
    BY <1>1, <1>7, <2>1, <2>4 DEF VoiceInv, VoiceKeeps, TurnsKeep
  <2> QED
    BY <2>2, <2>3, <2>4
<1>8. misjudged \subseteq misjudged'
  BY <1>1
<1> HIDE DEF turn, wasAdmitted
<1>9. FatesKeep'
  BY <1>1, <1>2, <1>4, <1>7, <1>8 DEF VoiceInv, VoiceKeeps, FatesKeep
<1>10. MarksKeep'
  BY <1>2 DEF MarksKeep
<1> QED
  BY <1>2, <1>5, <1>6, <1>9, <1>10 DEF VoiceInv, VoiceKeeps

\* The session has ended: a launch finds no text, and clears the mark.
LEMMA LaunchesKeeps ==
    ASSUME VoiceInv, DownIsEmpty, spliced \subseteq spliced', Launches
    PROVE  VoiceInv'
<1>1. /\ residue' = FALSE /\ box = <<>> /\ sent = <<>>
      /\ UNCHANGED <<authority, stage, box, sent, answering, history>>
  BY DEF Launches, DownIsEmpty
<1>2. \A u : ~Lies(u)'
  BY <1>1, NothingInEmpty DEF Lies, InBox, InSent
<1>3. NothingNew
  BY <1>1, TextsStay DEF VoiceInv, VoiceTypeOK, VoiceKeeps
<1>4. VoiceTypeOK'
  BY <1>1, <1>3 DEF VoiceInv, VoiceTypeOK, NothingNew, authority
<1>5. TurnsKeep' /\ FatesKeep' /\ MarksKeep'
  BY <1>1, <1>2, <1>3 DEF VoiceInv, VoiceKeeps, TurnsKeep, FatesKeep, MarksKeep, NothingNew,
     authority, history
<1> QED
  BY <1>3, <1>4, <1>5 DEF VoiceInv, VoiceKeeps, NothingNew

\* Every step keeps the invariant.
LEMMA NextVoice == VoiceInv /\ BehindKnown /\ DownIsEmpty /\ [VoiceNext]_voiceVars => VoiceInv'
<1> SUFFICES ASSUME VoiceInv, BehindKnown, DownIsEmpty, [VoiceNext]_voiceVars PROVE VoiceInv'
  OBVIOUS
<1>0. spliced \subseteq spliced'
  BY DEF VoiceNext, voiceVars
<1>1. ASSUME NEW u \in Utterance, Deliver(u) PROVE VoiceInv'
  BY <1>0, <1>1, SpeaksKeeps, SpeaksInVainKeeps, EntersKeeps, WithholdsKeeps, SettlesKeeps
     DEF Deliver
<1>2. ASSUME NEW k \in {"char", "enter", "clear"}, Presses(k) PROVE VoiceInv'
  BY <1>0, <1>2, PressesKeeps
<1>3. CASE KeyArrives \/ NoticeComes \/ NoticeEnds
  BY <1>0, <1>3, ArrivalsKeep
<1>4. CASE Presents
  BY <1>0, <1>4, PresentsKeeps
<1>5. CASE AnswerEnds
  <2>1. UNCHANGED <<authority, stage, residue, box, sent, history>> /\ answering' = {}
    BY <1>5 DEF AnswerEnds
  <2>2. NothingNew
    BY <2>1, TextsStay DEF VoiceInv, VoiceTypeOK, VoiceKeeps
  <2>3. VoiceTypeOK'
    BY <2>1, <2>2 DEF VoiceInv, VoiceTypeOK, NothingNew, Turn, authority
  <2>4. TurnsKeep' /\ FatesKeep' /\ MarksKeep'
    BY <1>0, <2>1, <2>2 DEF VoiceInv, VoiceKeeps, TurnsKeep, FatesKeep, MarksKeep,
       NothingNew, authority, history
  <2> QED
    BY <2>2, <2>3, <2>4 DEF VoiceInv, VoiceKeeps, NothingNew
<1>6. CASE KillsConductor \/ UNCHANGED voiceVars
  <2>1. UNCHANGED <<authority, stage, residue, box, sent, answering, history>>
    BY <1>6 DEF KillsConductor, voiceVars, cli
  <2>2. NothingNew
    BY <2>1, TextsStay DEF VoiceInv, VoiceTypeOK, VoiceKeeps
  <2> QED
    BY <1>0, <2>1, <2>2, TextStepKeeps
<1>7. CASE Exits
  BY <1>0, <1>7, ExitsKeeps
<1>8. CASE Launches
  BY <1>0, <1>8, LaunchesKeeps
<1> QED
  BY <1>1, <1>2, <1>3, <1>4, <1>5, <1>6, <1>7, <1>8 DEF VoiceNext

\* No step has a text in the queue that was not in the input or the queue before.
LEMMA PromptsComeFromTheBox ==
    ASSUME Texts, [VoiceNext]_voiceVars
    PROVE  \A n \in DOMAIN sent' : sent'[n] = box \/ \E m \in DOMAIN sent : sent'[n] = sent[m]
<1>1. CASE sent' = sent
  BY <1>1
<1>2. CASE sent' = Append(sent, box)
  BY <1>2 DEF Texts
<1>3. CASE sent # <<>> /\ sent' = Tail(sent)
  <2>1. DOMAIN sent' = 1..(Len(sent) - 1) /\ DOMAIN sent = 1..Len(sent) /\ Len(sent) \in Nat
    BY <1>3 DEF Texts
  <2>2. \A n \in DOMAIN sent' : sent'[n] = sent[n + 1] /\ n + 1 \in DOMAIN sent
    BY <1>3, <2>1 DEF Texts
  <2> QED
    BY <2>2
<1>4. CASE sent' = <<>>
  BY <1>4
<1>5. ASSUME NEW u \in Utterance, Deliver(u) PROVE sent' = sent \/ sent' = Append(sent, box)
  BY <1>5 DEF Deliver, Speaks, SpeaksInVain, Enters, Withholds, Settles, Submit, cli
<1>6. ASSUME NEW k \in {"char", "enter", "clear"}, Presses(k) PROVE sent' = sent
  BY <1>6 DEF Presses, cli
<1>7. CASE KeyArrives \/ NoticeComes \/ NoticeEnds
  BY <1>1, <1>2, <1>7 DEF KeyArrives, NoticeComes, NoticeEnds, Submit
<1>8. CASE Presents
  BY <1>3, <1>8 DEF Presents
<1>9. CASE Exits
  BY <1>4, <1>9 DEF Exits
<1>10. CASE AnswerEnds \/ KillsConductor \/ Launches \/ UNCHANGED voiceVars
  BY <1>1, <1>10 DEF AnswerEnds, KillsConductor, Launches, voiceVars, cli
<1> QED
  BY <1>1, <1>2, <1>5, <1>6, <1>7, <1>8, <1>9, <1>10 DEF VoiceNext

\* What lies behind other text stays on record.
LEMMA NextBehind == Texts /\ BehindKnown /\ [VoiceNext]_voiceVars => BehindKnown'
<1> SUFFICES ASSUME Texts, BehindKnown, [VoiceNext]_voiceVars PROVE BehindKnown'
  OBVIOUS
<1>1. spliced \subseteq spliced' /\ Behind(box') \subseteq spliced'
  <2>1. CASE VoiceNext
    BY <2>1 DEF VoiceNext
  <2>2. CASE UNCHANGED voiceVars
    BY <2>2 DEF voiceVars, cli, BehindKnown
  <2> QED
    BY <2>1, <2>2
<1>2. \A n \in DOMAIN sent' : Behind(sent'[n]) \subseteq spliced
  BY PromptsComeFromTheBox DEF BehindKnown
<1> QED
  BY <1>1, <1>2 DEF BehindKnown, Behind, Pieces

\* Text comes only into a process that is not gone.
LEMMA NextDown == DownIsEmpty /\ [VoiceNext]_voiceVars => DownIsEmpty'
<1> SUFFICES ASSUME DownIsEmpty, [VoiceNext]_voiceVars, session' = "down"
             PROVE  box' = <<>> /\ sent' = <<>>
  BY DEF DownIsEmpty
<1>1. ASSUME NEW u \in Utterance, Deliver(u) PROVE UNCHANGED <<session, box, sent>>
  BY <1>1 DEF Deliver, Speaks, SpeaksInVain, Enters, Withholds, Settles, cli
<1>2. ASSUME NEW k \in {"char", "enter", "clear"}, Presses(k) PROVE UNCHANGED <<session, box, sent>>
  BY <1>2 DEF Presses, cli
<1>3. CASE KeyArrives \/ NoticeComes \/ NoticeEnds
  BY <1>3 DEF KeyArrives, NoticeComes, NoticeEnds, DownIsEmpty, Submit
<1>4. CASE Presents \/ KillsConductor \/ Launches
  BY <1>4 DEF Presents, KillsConductor, Launches
<1>5. CASE Exits
  BY <1>5 DEF Exits
<1>6. CASE AnswerEnds \/ UNCHANGED voiceVars
  BY <1>6 DEF AnswerEnds, voiceVars, cli, DownIsEmpty
<1> QED
  BY <1>1, <1>2, <1>3, <1>4, <1>5, <1>6 DEF VoiceNext, DownIsEmpty

\* The invariant, in every state.
LEMMA VoiceAlways == VoiceSpec => []VoiceInv
<1> DEFINE IInv == VoiceInv /\ BehindKnown /\ DownIsEmpty
<1>1. VoiceInit => IInv
  <2>1. VoiceInit => BehindKnown /\ DownIsEmpty
    BY DEF VoiceInit, BehindKnown, DownIsEmpty, Behind
  <2> QED
    BY <2>1, InitVoice
<1>2. IInv /\ [VoiceNext]_voiceVars => IInv'
  BY NextVoice, NextBehind, NextDown DEF VoiceInv, VoiceTypeOK
<1> QED
  BY <1>1, <1>2, PTL DEF VoiceSpec

\* While an utterance is answered tools are denied, whatever keys, notices,
\* further utterances, queued prompts and ends of the session come between, for
\* any number of them; but for an utterance that came behind other text and the
\* answer of an ended turn that a disarm of a second, pending one forgot.
THEOREM AnswersAreDenied == VoiceSpec => []VoiceAnswersAreDenied
<1>1. VoiceInv => VoiceAnswersAreDenied
  BY NotUtterances DEF VoiceInv, VoiceKeeps, TurnsKeep, VoiceAnswersAreDenied, Restricted
<1> QED
  BY <1>1, VoiceAlways, PTL

\* What is told of an utterance is so: "delivered" was accepted, and what is
\* told as ended before that is not answered at any later time unless it came
\* behind other text; but for a turn pending at an exit that found an earlier one
\* ended.
THEOREM ReportsHold == VoiceSpec => []ReportsAreTrue
<1>1. VoiceInv => ReportsAreTrue
  BY DEF VoiceInv, VoiceKeeps, FatesKeep, ReportsAreTrue
<1> QED
  BY <1>1, VoiceAlways, PTL

\* No utterance whose delivery is over lies in the input unmarked before the
\* operator has resolved it, wherever Enters, blocks and notices moved it: the
\* mark is lifted by the operator, or with the text at the session's end and launch.
THEOREM LeftInputIsMarked == VoiceSpec => []InputIsMarked
<1>1. VoiceInv => InputIsMarked
  BY DEF VoiceInv, VoiceKeeps, MarksKeep, Lies, InBox, InText, InputIsMarked
<1> QED
  BY <1>1, VoiceAlways, PTL

\* An utterance lies in one place, the input or one prompt, and one that the
\* authority has accepted lies nowhere: no block that puts a prompt back and no
\* Enter makes a second copy of it.
THEOREM UtterancesLieOnce ==
    VoiceSpec => [](Placed /\ \A u \in admitted \cap Utterance : ~Lies(u))
<1>1. VoiceInv => Placed /\ \A u \in admitted \cap Utterance : ~Lies(u)
  BY DEF VoiceInv, VoiceKeeps, FatesKeep
<1> QED
  BY <1>1, VoiceAlways, PTL

\* No step makes an utterance the active turn that was accepted before: the
\* vendor's queue, whatever it holds back, gets each utterance answered once.
THEOREM NoTurnIsTakenTwice ==
    VoiceSpec => [][\A u \in admitted \cap Utterance : active' = u => active = u]_voiceVars
<1>1. ASSUME VoiceInv, [VoiceNext]_voiceVars, NEW u \in admitted \cap Utterance, active' = u
      PROVE  active = u
  <2>1. pending # u /\ u # None
    BY <1>1, NotUtterances DEF VoiceInv, VoiceKeeps, TurnsKeep
  <2>2. ASSUME active' # active PROVE active' \in {pending, None}
    <3>1. ASSUME NEW v \in Utterance, Deliver(v) PROVE active' = active
      BY <3>1 DEF Deliver, Speaks, SpeaksInVain, Enters, Withholds, Settles, authority
    <3>2. ASSUME NEW k \in {"char", "enter", "clear"}, Presses(k) PROVE active' = None
      BY <3>2 DEF Presses, Disarm
    <3>3. CASE Presents
      BY <3>3, <2>2 DEF Presents, Blocks, Admits, AdmitsOther, authority
    <3>4. CASE Exits
      BY <3>4 DEF Exits, Reset
    <3>5. ASSUME \/ KeyArrives \/ NoticeComes \/ NoticeEnds \/ AnswerEnds
                 \/ KillsConductor \/ Launches \/ UNCHANGED voiceVars
          PROVE  active' = active
      BY <3>5 DEF KeyArrives, NoticeComes, NoticeEnds, AnswerEnds, KillsConductor, Launches,
         voiceVars, authority
    <3> QED
      BY <1>1, <2>2, <3>1, <3>2, <3>3, <3>4, <3>5 DEF VoiceNext
  <2> QED
    BY <1>1, <2>1, <2>2
<1>2. VoiceInv /\ [VoiceNext]_voiceVars
        => [\A u \in admitted \cap Utterance : active' = u => active = u]_voiceVars
  BY <1>1
<1> QED
  BY <1>2, VoiceAlways, PTL DEF VoiceSpec
===============================================================================
