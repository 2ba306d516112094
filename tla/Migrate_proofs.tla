---------------------------- MODULE Migrate_proofs ----------------------------
(***************************************************************************)
(* Proofs about Migrate, for any number of processes, any set of releases  *)
(* (also ones whose list validateMigrations rejects) and any keys.         *)
(***************************************************************************)
EXTENDS Migrate, SequenceTheorems, TLAPS

(* A version-0 database that checkDatabase refuses: not this program's.    *)
Alien(d) == d.ver = 0 /\ (d.foreign \/ d.keys \notin {0, 1})

(* Only a list that validateMigrations accepts gets as far as the file.    *)
BinInv ==
    \A p \in Openers :
        pc[p] \in {"connect", "check", "begin", "locked", "bump", "commit", "opened"} =>
            validateMigrations(bin[p])

(* The write lock is held exactly inside applyMigration's transaction.     *)
LockInv ==
    \A p \in Openers : lock = p <=> pc[p] \in {"locked", "bump", "commit"}

(* An opener that has passed checkDatabase: the database is one of this    *)
(* program and has reached the version it counts from, also when others    *)
(* have migrated it meanwhile.                                             *)
ProgressInv ==
    \A p \in Openers :
        /\ pc[p] \in {"begin", "locked", "bump", "commit", "opened"} =>
               current[p] <= live.ver /\ ~Alien(live)
        /\ pc[p] \in {"begin", "locked", "bump", "commit"} => current[p] < Last(bin[p])
        /\ pc[p] = "opened" => Last(bin[p]) <= current[p]

(* What the transaction holds: the committed database; then the next step  *)
(* in its tables; then its version too.  Nobody commits meanwhile.         *)
TxInv ==
    \A p \in Openers :
        /\ pc[p] = "locked" => tx = live
        /\ pc[p] \in {"bump", "commit"} =>
               /\ live.ver = current[p]
               /\ tx.keys = current[p] + 1
               /\ tx.rows = live.rows
               /\ ~tx.foreign
        /\ pc[p] = "commit" => tx.ver = current[p] + 1

(* The main file is behind the committed database, never ahead of it.      *)
MainInv ==
    /\ main.ver <= live.ver
    /\ Alien(main) => Alien(live)

(* Of a database that every release refuses, preflight sees the tables:    *)
(* nobody gets a writable handle, and the -wal stays as it was.            *)
Hopeless == \A ms \in Binaries : Refuses(ms, live)

HopelessInv ==
    Hopeless =>
        /\ mode # "absent"
        /\ wal \/ main = live
        /\ \A p \in Openers :
             /\ pc[p] \in {"idle", "stat", "statwal", "header", "preflight", "refused", "failed"}
             /\ pc[p] = "header" => ~wal
             /\ pc[p] = "preflight" => IF immutable[p] THEN ~wal ELSE wal \/ mode # "wal"

(* The inductive invariant.                                                *)
IInv ==
    /\ TypeOK
    /\ BinInv
    /\ LockInv
    /\ ProgressInv
    /\ TxInv
    /\ MainInv
    /\ SchemaMatchesVersion
    /\ RefusalIsJust
    /\ HopelessInv

(* The empty database is one, and a list may still be at its start.        *)
LEMMA EmptyType == Empty \in Database /\ 0 \in 0..MaxVersion
  BY MigrateAssumption DEF Empty, Database, Odd

-----------------------------------------------------------------------------
(* Migration lists.                                                        *)

(* The last element of a sequence is one of its elements.                  *)
LEMMA LastIn == ASSUME NEW S, NEW s \in Seq(S), s # <<>> PROVE Last(s) \in S
  <1>1. Len(s) \in 1..Len(s)
    OBVIOUS
  <1> QED BY <1>1, ElementOfSeq DEF Last

(* The newest version a release knows.                                     *)
LEMMA LastVersion == \A ms \in Binaries : Last(ms) \in 1..MaxVersion
  BY LastIn, MigrateAssumption

(* A list that validateMigrations accepts has every version up to its last.*)
LEMMA ValidList ==
    ASSUME NEW ms \in Binaries, validateMigrations(ms)
    PROVE  ToSet(ms) = 1..Last(ms)
  <1>1. ms \in Seq(1..MaxVersion) /\ ms # <<>>
    BY MigrateAssumption
  <1>2. Last(ms) = Len(ms) /\ DOMAIN ms = 1..Len(ms) /\ Len(ms) \in Nat
    BY <1>1 DEF Last, validateMigrations
  <1> QED BY <1>2 DEF ToSet, validateMigrations

(* What is left to do of such a list, for one that counts from cur.        *)
LEMMA DueVersions ==
    ASSUME TypeOK, NEW p \in Openers, validateMigrations(bin[p]), NEW cur \in Nat
    PROVE  /\ Due(p, cur) = {} <=> Last(bin[p]) <= cur
           /\ cur < Last(bin[p]) => Min(Due(p, cur)) = cur + 1
  <1>1. bin[p] \in Binaries /\ Last(bin[p]) \in 1..MaxVersion
    BY LastVersion DEF TypeOK
  <1>2. Due(p, cur) = (cur + 1)..Last(bin[p])
    BY <1>1, ValidList, MigrateAssumption DEF Due
  <1>3. Due(p, cur) = {} <=> Last(bin[p]) <= cur
    BY <1>1, <1>2, MigrateAssumption
  <1>4. ASSUME cur < Last(bin[p]) PROVE Min(Due(p, cur)) = cur + 1
    <2>1. cur + 1 \in Due(p, cur) /\ \A v \in Due(p, cur) : cur + 1 <= v /\ v \in Int
      BY <1>1, <1>2, <1>4, MigrateAssumption
    <2> QED BY <2>1 DEF Min
  <1> QED BY <1>3, <1>4

(* The loop of migrate goes on or returns, as the version counted says.    *)
LEMMA ContinueStep ==
    ASSUME TypeOK, NEW p \in Openers, validateMigrations(bin[p]), NEW cur \in Nat, Continue(p, cur)
    PROVE  /\ current' = [current EXCEPT ![p] = cur]
           /\ \/ cur < Last(bin[p]) /\ pc' = [pc EXCEPT ![p] = "begin"]
              \/ Last(bin[p]) <= cur /\ pc' = [pc EXCEPT ![p] = "opened"]
  <1>1. Last(bin[p]) \in 1..MaxVersion
    BY LastVersion DEF TypeOK
  <1>2. Due(p, cur) = {} <=> Last(bin[p]) <= cur
    BY DueVersions
  <1>3. CASE cur < Last(bin[p])
    <2>1. Due(p, cur) # {}
      BY <1>1, <1>2, <1>3, MigrateAssumption
    <2> QED BY <1>3, <2>1 DEF Continue, Goto
  <1>4. CASE Last(bin[p]) <= cur
    <2>1. Due(p, cur) = {}
      BY <1>2, <1>4
    <2> QED BY <1>4, <2>1 DEF Continue, Goto
  <1> QED BY <1>1, <1>3, <1>4, MigrateAssumption

(* Inside the transaction the next version is the one after current.       *)
LEMMA NextVersion ==
    ASSUME IInv, NEW p \in Openers, pc[p] \in {"locked", "bump", "commit"}
    PROVE  /\ validateMigrations(bin[p])
           /\ current[p] \in Nat
           /\ NextDue(p) = current[p] + 1
           /\ current[p] + 1 \in 1..MaxVersion
           /\ current[p] + 1 <= Last(bin[p])
  <1>1. validateMigrations(bin[p]) /\ current[p] \in Nat /\ current[p] < Last(bin[p])
    BY MigrateAssumption DEF IInv, TypeOK, BinInv, ProgressInv
  <1>2. Last(bin[p]) \in 1..MaxVersion
    BY LastVersion DEF IInv, TypeOK
  <1>3. NextDue(p) = current[p] + 1
    BY <1>1, DueVersions DEF IInv, NextDue
  <1> QED BY <1>1, <1>2, <1>3, MigrateAssumption

-----------------------------------------------------------------------------
(* The steps of migrate, with the loop and the lists worked out.           *)

(* checkDatabase refuses, or lets through a database of this program that  *)
(* is not newer than the release.                                          *)
LEMMA CheckStep ==
    ASSUME IInv, NEW p \in Openers, CheckDatabase(p)
    PROVE  /\ pc[p] = "check"
           /\ UNCHANGED <<mode, live, lock, tx, bin, immutable>>
           /\ \/ /\ Refuses(bin[p], live)
                 /\ pc' = [pc EXCEPT ![p] = "refused"]
                 /\ CloseHandle(p)
                 /\ UNCHANGED current
              \/ /\ ~Alien(live) /\ live.ver <= Last(bin[p]) /\ live.ver \in 0..MaxVersion
                 /\ current' = [current EXCEPT ![p] = live.ver]
                 /\ \/ live.ver < Last(bin[p]) /\ pc' = [pc EXCEPT ![p] = "begin"]
                    \/ Last(bin[p]) <= live.ver /\ pc' = [pc EXCEPT ![p] = "opened"]
                 /\ UNCHANGED <<main, wal>>
  <1>1. TypeOK /\ validateMigrations(bin[p]) /\ pc[p] = "check"
    BY DEF IInv, BinInv, CheckDatabase
  <1>2. live.ver \in 0..MaxVersion + 1 /\ Last(bin[p]) \in 1..MaxVersion
    BY <1>1, LastVersion DEF TypeOK, Database
  <1>3. CASE Refuses(bin[p], live)
    BY <1>1, <1>3 DEF CheckDatabase, CloseHandle, Goto, file
  <1>4. CASE ~Refuses(bin[p], live)
    <2>1. ~Alien(live) /\ live.ver <= Last(bin[p]) /\ live.ver \in 0..MaxVersion
      BY <1>2, <1>4, MigrateAssumption DEF Refuses, Alien
    <2>2. Continue(p, live.ver) /\ UNCHANGED <<file, lock, tx, bin, immutable>>
      BY <1>4 DEF CheckDatabase
    <2>3. live.ver \in Nat
      BY <2>1, MigrateAssumption
    <2> QED BY <1>1, <2>1, <2>2, <2>3, ContinueStep DEF file
  <1> QED BY <1>3, <1>4

(* Skip counts a version that another opener has committed.                *)
LEMMA SkipStep ==
    ASSUME IInv, NEW p \in Openers, Skip(p)
    PROVE  /\ pc[p] = "locked" /\ tx.ver >= current[p] + 1
           /\ UNCHANGED <<file, bin, immutable>>
           /\ lock' = NoOpener /\ tx' = Empty
           /\ current' = [current EXCEPT ![p] = current[p] + 1]
           /\ current[p] + 1 \in 1..MaxVersion
           /\ \/ current[p] + 1 < Last(bin[p]) /\ pc' = [pc EXCEPT ![p] = "begin"]
              \/ Last(bin[p]) <= current[p] + 1 /\ pc' = [pc EXCEPT ![p] = "opened"]
  <1>1. pc[p] = "locked"
    BY DEF Skip
  <1>2. /\ validateMigrations(bin[p]) /\ NextDue(p) = current[p] + 1
        /\ current[p] + 1 \in 1..MaxVersion /\ current[p] + 1 \in Nat
    BY <1>1, NextVersion
  <1>3. Continue(p, current[p] + 1)
    BY <1>2 DEF Skip
  <1> QED BY <1>1, <1>2, <1>3, ContinueStep DEF Skip, IInv

(* Commit publishes the transaction, with the version it counts.           *)
LEMMA CommitStep ==
    ASSUME IInv, NEW p \in Openers, Commit(p)
    PROVE  /\ pc[p] = "commit" /\ lock = p
           /\ UNCHANGED <<mode, main, wal, bin, immutable>>
           /\ live' = tx /\ lock' = NoOpener /\ tx' = Empty
           /\ live.ver = current[p] /\ tx.ver = current[p] + 1 /\ tx.keys = current[p] + 1
           /\ tx.rows = live.rows /\ ~tx.foreign
           /\ current' = [current EXCEPT ![p] = current[p] + 1]
           /\ current[p] + 1 \in 1..MaxVersion /\ current[p] + 1 <= Last(bin[p])
           /\ \/ current[p] + 1 < Last(bin[p]) /\ pc' = [pc EXCEPT ![p] = "begin"]
              \/ Last(bin[p]) <= current[p] + 1 /\ pc' = [pc EXCEPT ![p] = "opened"]
  <1>1. pc[p] = "commit" /\ lock = p
    BY DEF Commit, IInv, LockInv
  <1>2. /\ validateMigrations(bin[p]) /\ NextDue(p) = current[p] + 1
        /\ current[p] + 1 \in 1..MaxVersion /\ current[p] + 1 \in Nat
        /\ current[p] + 1 <= Last(bin[p])
    BY <1>1, NextVersion
  <1>3. Continue(p, current[p] + 1)
    BY <1>2 DEF Commit
  <1>4. /\ live.ver = current[p] /\ tx.ver = current[p] + 1 /\ tx.keys = current[p] + 1
        /\ tx.rows = live.rows /\ ~tx.foreign
    BY <1>1 DEF IInv, TxInv
  <1> QED BY <1>1, <1>2, <1>3, <1>4, ContinueStep DEF Commit, IInv

(* The step to the next version runs on tables that have every earlier one *)
(* and not this one, or adopts the keys table of v0.2.0.                   *)
LEMMA ApplyStep ==
    ASSUME IInv, NEW p \in Openers, Apply(p)
    PROVE  /\ pc[p] = "locked" /\ live.ver = current[p]
           /\ tx' = [ver |-> live.ver, keys |-> current[p] + 1, foreign |-> FALSE, rows |-> live.rows]
           /\ current[p] + 1 \in 1..MaxVersion
  <1>1. pc[p] = "locked"
    BY DEF Apply
  <1>2. NextDue(p) = current[p] + 1 /\ current[p] + 1 \in 1..MaxVersion /\ current[p] \in Nat
    BY <1>1, NextVersion
  <1>3. tx = live /\ live \in Database /\ current[p] <= live.ver /\ ~Alien(live)
    BY <1>1 DEF IInv, TypeOK, TxInv, ProgressInv
  <1>4. live.ver = current[p]
    BY <1>2, <1>3, MigrateAssumption DEF Apply, Database
  <1>5. tx' = Migrated(live, current[p] + 1)
    BY <1>2, <1>3 DEF Apply
  <1>6. CASE current[p] = 0
    <2>1. live.keys \in {0, 1} /\ ~live.foreign
      BY <1>3, <1>4, <1>6 DEF Alien
    <2>2. tx' = [live EXCEPT !.keys = 1]
      BY <1>5, <1>6, <2>1 DEF Migrated
    <2>3. current[p] + 1 = 1 /\ live.foreign = FALSE
      BY <1>3, <1>6, <2>1 DEF Database
    <2>4. tx' = [ver |-> live.ver, keys |-> 1, foreign |-> FALSE, rows |-> live.rows]
      BY <1>3, <2>2, <2>3 DEF Database
    <2> QED BY <1>1, <1>2, <1>4, <2>3, <2>4
  <1>7. CASE current[p] # 0
    <2>1. live.keys = live.ver /\ ~live.foreign
      BY <1>2, <1>4, <1>7, MigrateAssumption DEF IInv, SchemaMatchesVersion
    <2>2. tx' = [live EXCEPT !.keys = live.keys + 1]
      BY <1>2, <1>5, <1>7 DEF Migrated
    <2> QED BY <1>1, <1>2, <1>3, <1>4, <2>1, <2>2 DEF Database
  <1> QED BY <1>6, <1>7

(* Every step keeps the types.                                             *)
LEMMA TypeStep == IInv /\ [Next]_vars => TypeOK'
  <1> SUFFICES ASSUME IInv, [Next]_vars PROVE TypeOK'
    OBVIOUS
  <1>0. TypeOK
    BY DEF IInv
  <1> USE <1>0, MigrateAssumption, EmptyType DEF TypeOK, file
  <1>1. ASSUME NEW p \in Openers, Opening(p) PROVE TypeOK'
    <2>1. CASE Stat(p)
      BY <2>1 DEF Stat, Goto
    <2>2. CASE StatWal(p)
      BY <2>2 DEF StatWal, Goto
    <2>3. CASE ReadHeader(p)
      BY <2>3 DEF ReadHeader, Goto
    <2>4. CASE Preflight(p)
      BY <2>4 DEF Preflight, PreflightSees, Goto
    <2>5. CASE Validate(p)
      BY <2>5 DEF Validate, Goto
    <2>6. CASE Connect(p)
      BY <2>6 DEF Connect, Goto
    <2>7. CASE CheckDatabase(p)
      BY <2>7, CheckStep DEF CloseHandle, Goto
    <2>8. CASE Begin(p)
      BY <2>8 DEF Begin, Goto
    <2>9. CASE Skip(p)
      <3>1. current[p] + 1 \in 0..MaxVersion
        BY <2>9, SkipStep
      <3>2. /\ UNCHANGED <<file, bin, immutable>> /\ lock' = NoOpener /\ tx' = Empty
            /\ current' = [current EXCEPT ![p] = current[p] + 1]
            /\ pc' \in {[pc EXCEPT ![p] = l] : l \in {"begin", "opened"}}
        BY <2>9, SkipStep
      <3> QED BY <3>1, <3>2
    <2>10. CASE Apply(p)
      <3>1. /\ tx' = [ver |-> live.ver, keys |-> current[p] + 1, foreign |-> FALSE, rows |-> live.rows]
            /\ current[p] + 1 \in 1..MaxVersion
        BY <2>10, ApplyStep
      <3>2. current[p] + 1 \in Odd..MaxVersion + 1
        BY <3>1 DEF Odd
      <3>3. live.ver \in 0..MaxVersion + 1 /\ live.rows \in SUBSET Rows
        BY DEF Database
      <3>4. tx' \in Database
        BY <3>1, <3>2, <3>3 DEF Database
      <3> QED BY <2>10, <3>4 DEF Apply, Goto
    <2>11. CASE Bump(p)
      <3>1. NextDue(p) = current[p] + 1 /\ current[p] + 1 \in 1..MaxVersion
        BY <2>11, NextVersion DEF Bump
      <3>2. current[p] + 1 \in 0..MaxVersion + 1
        BY <3>1
      <3>3. tx' \in Database
        BY <2>11, <3>1, <3>2 DEF Bump, Database
      <3> QED BY <2>11, <3>3 DEF Bump, Goto
    <2>12. CASE Commit(p)
      <3>1. current[p] + 1 \in 0..MaxVersion
        BY <2>12, CommitStep
      <3>2. /\ UNCHANGED <<mode, main, wal, bin, immutable>> /\ live' = tx
            /\ lock' = NoOpener /\ tx' = Empty
            /\ current' = [current EXCEPT ![p] = current[p] + 1]
            /\ pc' \in {[pc EXCEPT ![p] = l] : l \in {"begin", "opened"}}
        BY <2>12, CommitStep
      <3> QED BY <3>1, <3>2
    <2>13. CASE Fail(p)
      BY <2>13 DEF Fail, Unlock, Ended, CloseHandle, Goto
    <2> QED BY <1>1, <2>1, <2>2, <2>3, <2>4, <2>5, <2>6, <2>7, <2>8, <2>9, <2>10, <2>11, <2>12,
       <2>13 DEF Opening, BusyTimeout
  <1>2. ASSUME NEW p \in Openers, Start(p) PROVE TypeOK'
    BY <1>2 DEF Start, Goto
  <1>3. ASSUME NEW p \in Openers, Fail(p) PROVE TypeOK'
    BY <1>3 DEF Fail, Unlock, Ended, CloseHandle, Goto
  <1>4. ASSUME NEW p \in Openers, Exit(p) PROVE TypeOK'
    BY <1>4 DEF Exit, Ended, Goto
  <1>5. ASSUME NEW p \in Openers, Crash(p) PROVE TypeOK'
    BY <1>5 DEF Crash, Unlock, Ended, Goto
  <1>6. ASSUME NEW p \in Openers, CreateKey(p) PROVE TypeOK'
    <2>1. PICK r \in Rows : live' = [live EXCEPT !.rows = live.rows \union {r}]
      BY <1>6 DEF CreateKey
    <2>2. live.rows \union {r} \in SUBSET Rows
      BY DEF Database
    <2>3. live' \in Database
      BY <2>1, <2>2 DEF Database
    <2> QED BY <1>6, <2>3 DEF CreateKey
  <1>7. ASSUME NEW p \in Openers, Close(p) PROVE TypeOK'
    BY <1>7 DEF Close, CloseHandle, Ended, Goto
  <1>8. ASSUME NEW p \in Openers, Checkpoint(p) PROVE TypeOK'
    BY <1>8 DEF Checkpoint
  <1>9. CASE UNCHANGED vars
    BY <1>9 DEF vars
  <1> QED BY <1>1, <1>2, <1>3, <1>4, <1>5, <1>6, <1>7, <1>8, <1>9 DEF Next

(* Every step keeps the lock with the opener inside its transaction, and   *)
(* rejected lists away from the file.                                      *)
LEMMA LockStep == IInv /\ [Next]_vars => (BinInv /\ LockInv)'
  <1> SUFFICES ASSUME IInv, [Next]_vars PROVE (BinInv /\ LockInv)'
    OBVIOUS
  <1>0. TypeOK /\ BinInv /\ LockInv
    BY DEF IInv
  <1> USE <1>0, MigrateAssumption DEF TypeOK, BinInv, LockInv
  <1>1. ASSUME NEW p \in Openers, Opening(p) PROVE (BinInv /\ LockInv)'
    <2>1. CASE Stat(p)
      BY <2>1 DEF Stat, Goto
    <2>2. CASE StatWal(p)
      BY <2>2 DEF StatWal, Goto
    <2>3. CASE ReadHeader(p)
      BY <2>3 DEF ReadHeader, Goto
    <2>4. CASE Preflight(p)
      BY <2>4 DEF Preflight, PreflightSees, Goto
    <2>5. CASE Validate(p)
      BY <2>5 DEF Validate, Goto
    <2>6. CASE Connect(p)
      BY <2>6 DEF Connect, Goto
    <2>7. CASE CheckDatabase(p)
      BY <2>7, CheckStep DEF CloseHandle, Goto
    <2>8. CASE Begin(p)
      BY <2>8 DEF Begin, Goto
    <2>9. CASE Skip(p)
      BY <2>9, SkipStep DEF Skip
    <2>10. CASE Apply(p)
      BY <2>10, ApplyStep DEF Apply, Goto
    <2>11. CASE Bump(p)
      BY <2>11, NextVersion DEF Bump, Goto
    <2>12. CASE Commit(p)
      BY <2>12, CommitStep DEF Commit
    <2>13. CASE Fail(p)
      BY <2>13 DEF Fail, Unlock, Ended, CloseHandle, Goto
    <2> QED BY <1>1, <2>1, <2>2, <2>3, <2>4, <2>5, <2>6, <2>7, <2>8, <2>9, <2>10, <2>11, <2>12,
       <2>13 DEF Opening, BusyTimeout
  <1>2. ASSUME NEW p \in Openers, Start(p) PROVE (BinInv /\ LockInv)'
    BY <1>2 DEF Start, Goto
  <1>3. ASSUME NEW p \in Openers, Fail(p) PROVE (BinInv /\ LockInv)'
    BY <1>3 DEF Fail, Unlock, Ended, CloseHandle, Goto
  <1>4. ASSUME NEW p \in Openers, Exit(p) PROVE (BinInv /\ LockInv)'
    BY <1>4 DEF Exit, Ended, Goto
  <1>5. ASSUME NEW p \in Openers, Crash(p) PROVE (BinInv /\ LockInv)'
    BY <1>5 DEF Crash, Unlock, Ended, Goto
  <1>6. ASSUME NEW p \in Openers, CreateKey(p) PROVE (BinInv /\ LockInv)'
    BY <1>6 DEF CreateKey
  <1>7. ASSUME NEW p \in Openers, Close(p) PROVE (BinInv /\ LockInv)'
    BY <1>7 DEF Close, CloseHandle, Ended, Goto
  <1>8. ASSUME NEW p \in Openers, Checkpoint(p) PROVE (BinInv /\ LockInv)'
    BY <1>8 DEF Checkpoint
  <1>9. CASE UNCHANGED vars
    BY <1>9 DEF vars
  <1> QED BY <1>1, <1>2, <1>3, <1>4, <1>5, <1>6, <1>7, <1>8, <1>9 DEF Next

(* Only a commit and CreateKey change the committed database.              *)
LEMMA LiveChanges ==
    IInv /\ [Next]_vars => live' = live \/ \E p \in Openers : Commit(p) \/ CreateKey(p)
  <1> SUFFICES ASSUME IInv, [Next]_vars, ~ \E p \in Openers : Commit(p) \/ CreateKey(p)
               PROVE  live' = live
    OBVIOUS
  <1> USE DEF file
  <1>1. ASSUME NEW p \in Openers, Opening(p) \/ Fail(p) PROVE live' = live
    BY <1>1 DEF Opening, Stat, StatWal, ReadHeader, Preflight, Validate, Connect, CheckDatabase,
       CloseHandle, Begin, BusyTimeout, Skip, Apply, Bump, Fail
  <1>2. ASSUME NEW p \in Openers, Start(p) \/ Exit(p) \/ Crash(p) \/ Close(p) \/ Checkpoint(p)
        PROVE  live' = live
    BY <1>2 DEF Start, Exit, Crash, Close, CloseHandle, Checkpoint
  <1>3. CASE UNCHANGED vars
    BY <1>3 DEF vars
  <1> QED BY <1>1, <1>2, <1>3 DEF Next

(* The committed database only grows: its version and its keys, and an     *)
(* alien database stays as it is.                                          *)
LEMMA LiveGrows ==
    IInv /\ [Next]_vars =>
        /\ live.ver <= live'.ver
        /\ live.rows \subseteq live'.rows
        /\ Alien(live') <=> Alien(live)
        /\ \A ms \in Binaries : Refuses(ms, live) => Refuses(ms, live')
        /\ Hopeless' = Hopeless
  <1> SUFFICES ASSUME IInv, [Next]_vars
               PROVE  /\ live.ver <= live'.ver
                      /\ live.rows \subseteq live'.rows
                      /\ Alien(live') <=> Alien(live)
                      /\ \A ms \in Binaries : Refuses(ms, live) => Refuses(ms, live')
                      /\ Hopeless' = Hopeless
    OBVIOUS
  <1>0. live \in Database /\ live.ver \in 0..MaxVersion + 1
    BY DEF IInv, TypeOK, Database
  <1>1. CASE live' = live
    BY <1>0, <1>1, MigrateAssumption DEF Hopeless, Refuses, Alien
  <1>2. ASSUME NEW p \in Openers, CreateKey(p)
        PROVE  /\ live'.ver = live.ver /\ live'.keys = live.keys /\ live'.foreign = live.foreign
               /\ live.rows \subseteq live'.rows
    BY <1>0, <1>2 DEF CreateKey, Database
  <1>3. CASE \E p \in Openers : CreateKey(p)
    BY <1>0, <1>2, <1>3, MigrateAssumption DEF Hopeless, Refuses, Alien
  <1>4. ASSUME NEW p \in Openers, Commit(p)
        PROVE  /\ live.ver <= live'.ver
               /\ live.rows \subseteq live'.rows
               /\ ~Alien(live) /\ ~Alien(live')
               /\ \A ms \in Binaries : Refuses(ms, live) => Refuses(ms, live')
               /\ Hopeless' = Hopeless
    <2>1. /\ live' = tx /\ live.ver = current[p] /\ tx.ver = current[p] + 1 /\ tx.rows = live.rows
          /\ current[p] + 1 \in 1..MaxVersion /\ current[p] + 1 <= Last(bin[p]) /\ pc[p] = "commit"
      BY <1>4, CommitStep
    <2>2. ~Alien(live)
      BY <2>1 DEF IInv, ProgressInv
    <2>3. bin[p] \in Binaries /\ \A ms \in Binaries : Last(ms) \in 1..MaxVersion
      BY LastVersion DEF IInv, TypeOK
    <2>4. live.ver <= live'.ver /\ live'.ver # 0 /\ live.rows = live'.rows
      BY <1>0, <2>1, MigrateAssumption
    <2>5. ~Alien(live')
      BY <2>4 DEF Alien
    <2>6. ~Refuses(bin[p], live)
      BY <1>0, <2>1, <2>2, <2>3, MigrateAssumption DEF Refuses, Alien
    <2>7. ~Refuses(bin[p], live')
      BY <2>1, <2>3, <2>4, MigrateAssumption DEF Refuses
    <2>8. ASSUME NEW ms \in Binaries, Refuses(ms, live) PROVE Refuses(ms, live')
      BY <1>0, <2>1, <2>2, <2>3, <2>8, MigrateAssumption DEF Refuses, Alien
    <2> QED BY <2>2, <2>3, <2>4, <2>5, <2>6, <2>7, <2>8 DEF Hopeless
  <1>5. CASE \E p \in Openers : Commit(p)
    BY <1>0, <1>4, <1>5
  <1> QED BY <1>1, <1>3, <1>5, LiveChanges

(* Versions are numbers, before and after a step.                          *)
LEMMA VersionTypes ==
    IInv /\ [Next]_vars => {live.ver, main.ver, live'.ver, main'.ver} \subseteq Nat
  <1> SUFFICES ASSUME IInv, [Next]_vars
               PROVE  {live.ver, main.ver, live'.ver, main'.ver} \subseteq Nat
    OBVIOUS
  <1>1. {live, main, live', main'} \subseteq Database
    BY TypeStep DEF IInv, TypeOK
  <1> QED BY <1>1, MigrateAssumption DEF Database

(* Every step keeps an opener that has passed checkDatabase at or behind   *)
(* the committed version.                                                  *)
LEMMA ProgressStep == IInv /\ [Next]_vars => ProgressInv'
  <1> SUFFICES ASSUME IInv, [Next]_vars PROVE ProgressInv'
    OBVIOUS
  <1>0. /\ TypeOK /\ LockInv /\ ProgressInv /\ TxInv
        /\ live.ver \in Nat /\ live'.ver \in Nat /\ live.ver <= live'.ver
        /\ Alien(live') <=> Alien(live)
    BY VersionTypes, LiveGrows DEF IInv
  <1> USE <1>0, MigrateAssumption DEF TypeOK, ProgressInv
  <1>1. ASSUME NEW p \in Openers, Opening(p) PROVE ProgressInv'
    <2>1. CASE Stat(p)
      BY <2>1 DEF Stat, Goto
    <2>2. CASE StatWal(p)
      BY <2>2 DEF StatWal, Goto
    <2>3. CASE ReadHeader(p)
      BY <2>3 DEF ReadHeader, Goto
    <2>4. CASE Preflight(p)
      BY <2>4 DEF Preflight, PreflightSees, Goto
    <2>5. CASE Validate(p)
      BY <2>5 DEF Validate, Goto
    <2>6. CASE Connect(p)
      BY <2>6 DEF Connect, Goto
    <2>7. CASE CheckDatabase(p)
      BY <2>7, CheckStep
    <2>8. CASE Begin(p)
      BY <2>8 DEF Begin, Goto
    <2>9. CASE Skip(p)
      <3>1. pc[p] = "locked" => tx = live
        BY DEF TxInv
      <3> QED BY <2>9, <3>1, SkipStep DEF file
    <2>10. CASE Apply(p)
      BY <2>10 DEF Apply, Goto, file
    <2>11. CASE Bump(p)
      BY <2>11 DEF Bump, Goto, file
    <2>12. CASE Commit(p)
      <3>1. /\ live' = tx /\ tx.ver = current[p] + 1 /\ bin' = bin
            /\ current' = [current EXCEPT ![p] = current[p] + 1]
            /\ current[p] \in Nat /\ pc[p] = "commit"
            /\ \/ current[p] + 1 < Last(bin[p]) /\ pc' = [pc EXCEPT ![p] = "begin"]
               \/ Last(bin[p]) <= current[p] + 1 /\ pc' = [pc EXCEPT ![p] = "opened"]
        BY <2>12, CommitStep
      <3>2. ~Alien(live') /\ current'[p] <= live'.ver
        BY <3>1
      <3>3. ASSUME NEW q \in Openers, q # p
            PROVE  current'[q] = current[q] /\ pc'[q] = pc[q]
        BY <3>1, <3>3
      <3> QED BY <3>1, <3>2, <3>3
    <2>13. CASE Fail(p)
      BY <2>13 DEF Fail, Unlock, Ended, CloseHandle, Goto
    <2> QED BY <1>1, <2>1, <2>2, <2>3, <2>4, <2>5, <2>6, <2>7, <2>8, <2>9, <2>10, <2>11, <2>12,
       <2>13 DEF Opening, BusyTimeout
  <1>2. ASSUME NEW p \in Openers, Start(p) PROVE ProgressInv'
    BY <1>2 DEF Start, Goto
  <1>3. ASSUME NEW p \in Openers, Fail(p) PROVE ProgressInv'
    BY <1>3 DEF Fail, Unlock, Ended, CloseHandle, Goto
  <1>4. ASSUME NEW p \in Openers, Exit(p) PROVE ProgressInv'
    BY <1>4 DEF Exit, Ended, Goto
  <1>5. ASSUME NEW p \in Openers, Crash(p) PROVE ProgressInv'
    BY <1>5 DEF Crash, Unlock, Ended, Goto
  <1>6. ASSUME NEW p \in Openers, CreateKey(p) PROVE ProgressInv'
    BY <1>6 DEF CreateKey
  <1>7. ASSUME NEW p \in Openers, Close(p) PROVE ProgressInv'
    BY <1>7 DEF Close, CloseHandle, Ended, Goto
  <1>8. ASSUME NEW p \in Openers, Checkpoint(p) PROVE ProgressInv'
    BY <1>8 DEF Checkpoint
  <1>9. CASE UNCHANGED vars
    BY <1>9 DEF vars
  <1> QED BY <1>1, <1>2, <1>3, <1>4, <1>5, <1>6, <1>7, <1>8, <1>9 DEF Next

(* Every step keeps the transaction what the next commit needs.            *)
LEMMA TxStep == IInv /\ [Next]_vars => TxInv'
  <1> SUFFICES ASSUME IInv, [Next]_vars PROVE TxInv'
    OBVIOUS
  <1>0. TypeOK /\ LockInv /\ TxInv
    BY DEF IInv
  <1> USE <1>0, MigrateAssumption DEF TypeOK, LockInv, TxInv, file
  <1>1. ASSUME NEW p \in Openers, Opening(p) PROVE TxInv'
    <2>1. CASE Stat(p)
      BY <2>1 DEF Stat, Goto
    <2>2. CASE StatWal(p)
      BY <2>2 DEF StatWal, Goto
    <2>3. CASE ReadHeader(p)
      BY <2>3 DEF ReadHeader, Goto
    <2>4. CASE Preflight(p)
      BY <2>4 DEF Preflight, PreflightSees, Goto
    <2>5. CASE Validate(p)
      BY <2>5 DEF Validate, Goto
    <2>6. CASE Connect(p)
      BY <2>6 DEF Connect, Goto
    <2>7. CASE CheckDatabase(p)
      <3>1. /\ pc[p] = "check" /\ UNCHANGED <<live, lock, tx, bin>>
            /\ pc' \in {[pc EXCEPT ![p] = l] : l \in {"refused", "begin", "opened"}}
            /\ \A q \in Openers : q # p => current'[q] = current[q]
        BY <2>7, CheckStep
      <3> QED BY <3>1
    <2>8. CASE Begin(p)
      BY <2>8 DEF Begin, Goto
    <2>9. CASE Skip(p)
      <3>1. /\ pc[p] = "locked" /\ live' = live
            /\ pc' \in {[pc EXCEPT ![p] = l] : l \in {"begin", "opened"}}
        BY <2>9, SkipStep
      <3>2. ASSUME NEW q \in Openers, q # p PROVE pc[q] \notin {"locked", "bump", "commit"}
        BY <3>1, <3>2
      <3> QED BY <3>1, <3>2
    <2>10. CASE Apply(p)
      <3>1. /\ pc[p] = "locked" /\ live' = live /\ current' = current
            /\ pc' = [pc EXCEPT ![p] = "bump"]
        BY <2>10 DEF Apply, Goto
      <3>2. /\ live.ver = current[p] /\ tx'.keys = current[p] + 1
            /\ tx'.rows = live.rows /\ ~tx'.foreign
        BY <2>10, ApplyStep
      <3>3. ASSUME NEW q \in Openers, q # p PROVE pc[q] \notin {"locked", "bump", "commit"}
        BY <3>1, <3>3
      <3> QED BY <3>1, <3>2, <3>3
    <2>11. CASE Bump(p)
      <3>1. /\ pc[p] = "bump" /\ UNCHANGED <<live, current>>
            /\ tx' = [tx EXCEPT !.ver = NextDue(p)]
            /\ pc' = [pc EXCEPT ![p] = "commit"]
        BY <2>11 DEF Bump, Goto
      <3>2. NextDue(p) = current[p] + 1
        BY <3>1, NextVersion
      <3>3. tx \in [ver : 0..MaxVersion + 1, keys : Odd..MaxVersion + 1, foreign : BOOLEAN, rows : SUBSET Rows]
        BY DEF Database
      <3>4. /\ tx'.ver = current[p] + 1 /\ tx'.keys = tx.keys
            /\ tx'.rows = tx.rows /\ tx'.foreign = tx.foreign
        BY <3>1, <3>2, <3>3
      <3>5. ASSUME NEW q \in Openers, q # p PROVE pc[q] \notin {"locked", "bump", "commit"}
        BY <3>1, <3>5
      <3> QED BY <3>1, <3>4, <3>5
    <2>12. CASE Commit(p)
      <3>1. /\ pc[p] = "commit"
            /\ pc' \in {[pc EXCEPT ![p] = l] : l \in {"begin", "opened"}}
        BY <2>12, CommitStep
      <3>2. ASSUME NEW q \in Openers, q # p PROVE pc[q] \notin {"locked", "bump", "commit"}
        BY <3>1, <3>2
      <3> QED BY <3>1, <3>2
    <2>13. CASE Fail(p)
      BY <2>13 DEF Fail, Unlock, Ended, CloseHandle, Goto
    <2> QED BY <1>1, <2>1, <2>2, <2>3, <2>4, <2>5, <2>6, <2>7, <2>8, <2>9, <2>10, <2>11, <2>12,
       <2>13 DEF Opening, BusyTimeout
  <1>2. ASSUME NEW p \in Openers, Start(p) PROVE TxInv'
    BY <1>2 DEF Start, Goto
  <1>3. ASSUME NEW p \in Openers, Fail(p) PROVE TxInv'
    BY <1>3 DEF Fail, Unlock, Ended, CloseHandle, Goto
  <1>4. ASSUME NEW p \in Openers, Exit(p) PROVE TxInv'
    BY <1>4 DEF Exit, Ended, Goto
  <1>5. ASSUME NEW p \in Openers, Crash(p) PROVE TxInv'
    BY <1>5 DEF Crash, Unlock, Ended, Goto
  <1>6. ASSUME NEW p \in Openers, CreateKey(p) PROVE TxInv'
    BY <1>6 DEF CreateKey
  <1>7. ASSUME NEW p \in Openers, Close(p) PROVE TxInv'
    BY <1>7 DEF Close, CloseHandle, Ended, Goto
  <1>8. ASSUME NEW p \in Openers, Checkpoint(p) PROVE TxInv'
    BY <1>8 DEF Checkpoint
  <1>9. CASE UNCHANGED vars
    BY <1>9 DEF vars
  <1> QED BY <1>1, <1>2, <1>3, <1>4, <1>5, <1>6, <1>7, <1>8, <1>9 DEF Next

(* Every step keeps both databases between two versions' steps.            *)
LEMMA SchemaStep == IInv /\ [Next]_vars => (MainInv /\ SchemaMatchesVersion)'
  <1> SUFFICES ASSUME IInv, [Next]_vars PROVE (MainInv /\ SchemaMatchesVersion)'
    OBVIOUS
  <1>0. /\ TypeOK /\ MainInv /\ SchemaMatchesVersion
        /\ live.ver \in Nat /\ live'.ver \in Nat /\ live.ver <= live'.ver
        /\ Alien(live') <=> Alien(live)
    BY VersionTypes, LiveGrows DEF IInv
  <1> USE <1>0, MigrateAssumption DEF TypeOK, MainInv, SchemaMatchesVersion, file
  <1>1. ASSUME NEW p \in Openers, Opening(p) PROVE (MainInv /\ SchemaMatchesVersion)'
    <2>1. CASE Stat(p)
      BY <2>1 DEF Stat, Goto
    <2>2. CASE StatWal(p)
      BY <2>2 DEF StatWal, Goto
    <2>3. CASE ReadHeader(p)
      BY <2>3 DEF ReadHeader, Goto
    <2>4. CASE Preflight(p)
      BY <2>4 DEF Preflight, Goto
    <2>5. CASE Validate(p)
      BY <2>5 DEF Validate, Goto
    <2>6. CASE Connect(p)
      BY <2>6 DEF Connect, Goto
    <2>7. CASE CheckDatabase(p)
      <3>1. live' = live /\ main' \in {main, live}
        BY <2>7 DEF CheckDatabase, CloseHandle
      <3> QED BY <3>1
    <2>8. CASE Begin(p)
      BY <2>8 DEF Begin, Goto
    <2>9. CASE Skip(p)
      BY <2>9, SkipStep
    <2>10. CASE Apply(p)
      BY <2>10, ApplyStep DEF Apply, Goto
    <2>11. CASE Bump(p)
      BY <2>11, NextVersion DEF Bump, Goto
    <2>12. CASE Commit(p)
      <3>1. /\ main' = main /\ live' = tx /\ live'.ver = live'.keys /\ ~live'.foreign
            /\ live'.ver # 0 /\ ~Alien(live')
        BY <2>12, CommitStep DEF Alien
      <3>2. main.ver \in Nat
        BY VersionTypes
      <3>3. main'.ver <= live'.ver /\ (Alien(main') => Alien(live'))
        BY <3>1, <3>2
      <3> QED BY <3>1, <3>3
    <2>13. CASE Fail(p)
      BY <2>13 DEF Fail, Unlock, Ended, CloseHandle, Goto
    <2> QED BY <1>1, <2>1, <2>2, <2>3, <2>4, <2>5, <2>6, <2>7, <2>8, <2>9, <2>10, <2>11, <2>12,
       <2>13 DEF Opening, BusyTimeout
  <1>2. ASSUME NEW p \in Openers, Start(p) PROVE (MainInv /\ SchemaMatchesVersion)'
    BY <1>2 DEF Start, Goto
  <1>3. ASSUME NEW p \in Openers, Fail(p) PROVE (MainInv /\ SchemaMatchesVersion)'
    BY <1>3 DEF Fail, Unlock, Ended, CloseHandle, Goto
  <1>4. ASSUME NEW p \in Openers, Exit(p) PROVE (MainInv /\ SchemaMatchesVersion)'
    BY <1>4 DEF Exit, Ended, Goto
  <1>5. ASSUME NEW p \in Openers, Crash(p) PROVE (MainInv /\ SchemaMatchesVersion)'
    BY <1>5 DEF Crash, Unlock, Ended, Goto
  <1>6. ASSUME NEW p \in Openers, CreateKey(p) PROVE (MainInv /\ SchemaMatchesVersion)'
    BY <1>6 DEF CreateKey
  <1>7. ASSUME NEW p \in Openers, Close(p) PROVE (MainInv /\ SchemaMatchesVersion)'
    BY <1>7 DEF Close, CloseHandle, Ended, Goto
  <1>8. ASSUME NEW p \in Openers, Checkpoint(p) PROVE (MainInv /\ SchemaMatchesVersion)'
    BY <1>8 DEF Checkpoint
  <1>9. CASE UNCHANGED vars
    BY <1>9 DEF vars
  <1> QED BY <1>1, <1>2, <1>3, <1>4, <1>5, <1>6, <1>7, <1>8, <1>9 DEF Next

(* Every step keeps a refusal justified.                                   *)
LEMMA RefusalStep == IInv /\ [Next]_vars => RefusalIsJust'
  <1> SUFFICES ASSUME IInv, [Next]_vars PROVE RefusalIsJust'
    OBVIOUS
  <1>0. /\ TypeOK /\ MainInv /\ RefusalIsJust
        /\ \A ms \in Binaries : Refuses(ms, live) => Refuses(ms, live')
    BY LiveGrows DEF IInv
  <1> USE <1>0, MigrateAssumption DEF TypeOK, MainInv, RefusalIsJust, file
  <1>1. ASSUME NEW p \in Openers, Opening(p) PROVE RefusalIsJust'
    <2>1. CASE Stat(p)
      BY <2>1 DEF Stat, Goto
    <2>2. CASE StatWal(p)
      BY <2>2 DEF StatWal, Goto
    <2>3. CASE ReadHeader(p)
      BY <2>3 DEF ReadHeader, Goto
    <2>4. CASE Preflight(p)
      <3>1. Refuses(bin[p], main) => Refuses(bin[p], live)
        BY LastVersion, VersionTypes DEF Refuses, Alien
      <3> QED BY <2>4, <3>1 DEF Preflight, PreflightSees, Goto
    <2>5. CASE Validate(p)
      BY <2>5 DEF Validate, Goto
    <2>6. CASE Connect(p)
      BY <2>6 DEF Connect, Goto
    <2>7. CASE CheckDatabase(p)
      BY <2>7, CheckStep
    <2>8. CASE Begin(p)
      BY <2>8 DEF Begin, Goto
    <2>9. CASE Skip(p)
      BY <2>9, SkipStep
    <2>10. CASE Apply(p)
      BY <2>10, ApplyStep DEF Apply, Goto
    <2>11. CASE Bump(p)
      BY <2>11, NextVersion DEF Bump, Goto
    <2>12. CASE Commit(p)
      BY <2>12, CommitStep
    <2>13. CASE Fail(p)
      BY <2>13 DEF Fail, Unlock, Ended, CloseHandle, Goto
    <2> QED BY <1>1, <2>1, <2>2, <2>3, <2>4, <2>5, <2>6, <2>7, <2>8, <2>9, <2>10, <2>11, <2>12,
       <2>13 DEF Opening, BusyTimeout
  <1>2. ASSUME NEW p \in Openers, Start(p) PROVE RefusalIsJust'
    BY <1>2 DEF Start, Goto
  <1>3. ASSUME NEW p \in Openers, Fail(p) PROVE RefusalIsJust'
    BY <1>3 DEF Fail, Unlock, Ended, CloseHandle, Goto
  <1>4. ASSUME NEW p \in Openers, Exit(p) PROVE RefusalIsJust'
    BY <1>4 DEF Exit, Ended, Goto
  <1>5. ASSUME NEW p \in Openers, Crash(p) PROVE RefusalIsJust'
    BY <1>5 DEF Crash, Unlock, Ended, Goto
  <1>6. ASSUME NEW p \in Openers, CreateKey(p) PROVE RefusalIsJust'
    BY <1>6 DEF CreateKey
  <1>7. ASSUME NEW p \in Openers, Close(p) PROVE RefusalIsJust'
    BY <1>7 DEF Close, CloseHandle, Ended, Goto
  <1>8. ASSUME NEW p \in Openers, Checkpoint(p) PROVE RefusalIsJust'
    BY <1>8 DEF Checkpoint
  <1>9. CASE UNCHANGED vars
    BY <1>9 DEF vars
  <1> QED BY <1>1, <1>2, <1>3, <1>4, <1>5, <1>6, <1>7, <1>8, <1>9 DEF Next

(* No step writes to a file that every release refuses: nobody is past its *)
(* preflight, and preflight finds the -wal where it expects one.           *)
LEMMA Untouched == IInv /\ [Next]_vars /\ Hopeless => UNCHANGED file
  <1> SUFFICES ASSUME IInv, [Next]_vars, Hopeless PROVE UNCHANGED file
    OBVIOUS
  <1>0. TypeOK /\ HopelessInv
    BY DEF IInv
  <1> USE <1>0 DEF TypeOK, HopelessInv, file
  <1>1. ASSUME NEW p \in Openers, Fail(p) PROVE UNCHANGED file
    BY <1>1 DEF Fail, HasHandle
  <1>2. ASSUME NEW p \in Openers, Opening(p) PROVE UNCHANGED file
    <2>1. CASE Preflight(p)
      BY <2>1 DEF Preflight
    <2>2. CASE Stat(p) \/ StatWal(p) \/ ReadHeader(p) \/ BusyTimeout(p)
      BY <1>1, <2>2 DEF Stat, StatWal, ReadHeader, BusyTimeout
    <2>3. CASE \/ Validate(p) \/ Connect(p) \/ CheckDatabase(p)
               \/ Begin(p) \/ Skip(p) \/ Apply(p) \/ Bump(p) \/ Commit(p)
      BY <2>3 DEF Validate, Connect, CheckDatabase, Begin, Skip, Apply, Bump, Commit
    <2> QED BY <1>2, <2>1, <2>2, <2>3 DEF Opening
  <1>3. ASSUME NEW p \in Openers, Start(p) \/ Exit(p) \/ Crash(p) PROVE UNCHANGED file
    BY <1>3 DEF Start, Exit, Crash
  <1>4. ASSUME NEW p \in Openers, CreateKey(p) \/ Close(p) \/ Checkpoint(p) PROVE UNCHANGED file
    BY <1>4 DEF CreateKey, Close, Checkpoint, HasHandle
  <1>5. CASE UNCHANGED vars
    BY <1>5 DEF vars
  <1> QED BY <1>1, <1>2, <1>3, <1>4, <1>5 DEF Next

(* Every step keeps all openers of such a file before or at their refusal. *)
LEMMA HopelessStep == IInv /\ [Next]_vars => HopelessInv'
  <1> SUFFICES ASSUME IInv, [Next]_vars, Hopeless
               PROVE  /\ mode' # "absent"
                      /\ wal' \/ main' = live'
                      /\ \A q \in Openers :
                           /\ pc'[q] \in {"idle", "stat", "statwal", "header", "preflight", "refused", "failed"}
                           /\ pc'[q] = "header" => ~wal'
                           /\ pc'[q] = "preflight" => IF immutable'[q] THEN ~wal' ELSE wal' \/ mode' # "wal"
    BY LiveGrows DEF HopelessInv
  <1>0. TypeOK /\ HopelessInv /\ UNCHANGED file
    BY Untouched DEF IInv
  <1>a. UNCHANGED <<mode, main, wal, live>>
    BY <1>0 DEF file
  <1> USE <1>0, <1>a DEF TypeOK, HopelessInv
  <1> DEFINE Held(q) ==
        /\ pc'[q] \in {"idle", "stat", "statwal", "header", "preflight", "refused", "failed"}
        /\ pc'[q] = "header" => ~wal
        /\ pc'[q] = "preflight" => IF immutable'[q] THEN ~wal ELSE wal \/ mode # "wal"
  <1>1. SUFFICES \A q \in Openers : Held(q)
    OBVIOUS
  <1>2. ASSUME NEW p \in Openers, Fail(p) PROVE \A q \in Openers : Held(q)
    BY <1>2 DEF Fail, Ended, Goto
  <1>3. ASSUME NEW p \in Openers, Opening(p) PROVE \A q \in Openers : Held(q)
    <2>1. CASE Preflight(p)
      <3>1. Refuses(bin[p], PreflightSees(p))
        BY <2>1 DEF Preflight, PreflightSees, Hopeless
      <3> QED BY <2>1, <3>1 DEF Preflight, Goto
    <2>2. CASE Stat(p)
      BY <2>2 DEF Stat, Goto
    <2>3. CASE StatWal(p)
      BY <2>3 DEF StatWal, Goto
    <2>4. CASE ReadHeader(p)
      BY <2>4 DEF ReadHeader, Goto
    <2>5. CASE BusyTimeout(p)
      BY <1>2, <2>5 DEF BusyTimeout
    <2>6. CASE \/ Validate(p) \/ Connect(p) \/ CheckDatabase(p)
               \/ Begin(p) \/ Skip(p) \/ Apply(p) \/ Bump(p) \/ Commit(p)
      BY <2>6 DEF Validate, Connect, CheckDatabase, Begin, Skip, Apply, Bump, Commit
    <2> QED BY <1>3, <2>1, <2>2, <2>3, <2>4, <2>5, <2>6 DEF Opening
  <1>4. ASSUME NEW p \in Openers, Start(p) \/ Exit(p) \/ Crash(p) PROVE \A q \in Openers : Held(q)
    BY <1>4 DEF Start, Exit, Crash, Ended, Goto
  <1>5. ASSUME NEW p \in Openers, CreateKey(p) \/ Close(p) \/ Checkpoint(p)
        PROVE  \A q \in Openers : Held(q)
    BY <1>5 DEF CreateKey, Close, Checkpoint, HasHandle
  <1>6. CASE UNCHANGED vars
    BY <1>6 DEF vars
  <1> QED BY <1>2, <1>3, <1>4, <1>5, <1>6 DEF Next

-----------------------------------------------------------------------------
(* The initial states satisfy the inductive invariant: whatever file is    *)
(* found, nobody has looked at it yet.                                     *)
LEMMA InitIInv == Init => IInv
  <1> SUFFICES ASSUME Init PROVE IInv
    OBVIOUS
  <1>1. live \in Database /\ live \in Found /\ main \in {live, Empty}
    BY DEF Init, Found
  <1>2. bin \in [Openers -> Binaries]
    BY MigrateAssumption DEF Init
  <1>3. TypeOK
    BY <1>1, <1>2, EmptyType DEF Init, TypeOK
  <1>4. BinInv /\ LockInv /\ ProgressInv /\ TxInv /\ RefusalIsJust
    BY MigrateAssumption DEF Init, BinInv, LockInv, ProgressInv, TxInv, RefusalIsJust
  <1>5. live.ver \in Nat
    BY <1>1, MigrateAssumption DEF Database
  <1>6. MainInv
    BY <1>1, <1>5 DEF MainInv, Empty, Alien
  <1>7. SchemaMatchesVersion
    BY <1>1, <1>5 DEF SchemaMatchesVersion, Found, Empty
  <1>8. \A ms \in Binaries : ~Refuses(ms, Empty)
    BY LastVersion, MigrateAssumption DEF Refuses, Empty
  <1>9. HopelessInv
    BY <1>8, MigrateAssumption DEF Init, HopelessInv, Hopeless
  <1> QED BY <1>3, <1>4, <1>6, <1>7, <1>9 DEF IInv

(* The inductive invariant holds of every reachable state.                 *)
THEOREM Invariance == Spec => []IInv
  <1>1. IInv /\ [Next]_vars => IInv'
    BY TypeStep, LockStep, ProgressStep, TxStep, SchemaStep, RefusalStep, HopelessStep DEF IInv
  <1> QED BY <1>1, InitIInv, PTL DEF Spec

(* Type correctness of the file and of NewSQLite's locals: no schema step  *)
(* runs twice, so the tables stay within the versions there are.           *)
THEOREM TypeCorrect == Spec => []TypeOK
  BY Invariance, PTL DEF IInv

(* user_version always says which schema steps are in the tables, in the   *)
(* main file and in the committed database, through crashes, failures and  *)
(* racing openers of different releases.                                   *)
THEOREM SchemaInStep == Spec => []SchemaMatchesVersion
  BY Invariance, PTL DEF IInv

(* A refusal by checkDatabase stays right for as long as it stands.        *)
THEOREM RefusalsAreJust == Spec => []RefusalIsJust
  BY Invariance, PTL DEF IInv

(* A store that NewSQLite returned has every step of its binary.           *)
THEOREM OpenedMigrated == Spec => []OpenedIsMigrated
  <1>1. IInv => OpenedIsMigrated
    <2> SUFFICES ASSUME IInv, NEW p \in Openers, pc[p] = "opened"
                 PROVE  live.ver >= Last(bin[p]) /\ live.keys >= Last(bin[p])
      BY DEF OpenedIsMigrated
    <2>1. live.ver \in Nat /\ current[p] \in Nat
      BY MigrateAssumption DEF IInv, TypeOK, Database
    <2>2. Last(bin[p]) \in 1..MaxVersion
      BY LastVersion DEF IInv, TypeOK
    <2>3. current[p] <= live.ver /\ Last(bin[p]) <= current[p]
      BY DEF IInv, ProgressInv
    <2>4. live.ver > 0 => live.keys = live.ver
      BY DEF IInv, SchemaMatchesVersion
    <2> QED BY <2>1, <2>2, <2>3, <2>4, MigrateAssumption
  <1> QED BY <1>1, Invariance, PTL

(* No step takes a committed key away.                                     *)
THEOREM KeysAreKept == Spec => KeysSurvive
  <1>1. IInv /\ [Next]_vars => [live.rows \subseteq live'.rows]_vars
    BY LiveGrows
  <1> QED BY <1>1, Invariance, PTL DEF Spec, KeysSurvive

(* No step writes to a file that no release accepts.                       *)
THEOREM RefusedFileIsKept == Spec => RefusedIsUntouched
  <1>1. IInv /\ [Next]_vars => [(\A ms \in Binaries : Refuses(ms, live)) => UNCHANGED file]_vars
    BY Untouched DEF Hopeless
  <1> QED BY <1>1, Invariance, PTL DEF Spec, RefusedIsUntouched
=============================================================================
