------------------------------- MODULE Migrate -------------------------------
(***************************************************************************)
(* Opening the key store: NewSQLite with its read-only preflight, its      *)
(* schema migrations, and several processes that open one file at once,    *)
(* of the same or of different releases (a restart overlap, a rolling      *)
(* deploy).  Any step may fail, and a process may be killed at any step.   *)
(*                                                                         *)
(* A database is abstracted to its user_version, its keys table as the     *)
(* number of schema steps whose effect is in it (1 is the v0.2.0 shape),   *)
(* whether it has tables of another application, and its rows.             *)
(*                                                                         *)
(* External: SQLite.  A WAL-mode file has the main file and, beside it,    *)
(* perhaps a -wal with commits the main file lacks; BEGIN IMMEDIATE holds  *)
(* the only write lock; a transaction commits as a whole; the last handle  *)
(* that closes moves the -wal into the main file and deletes it.           *)
(***************************************************************************)
EXTENDS Integers, FiniteSetsExt, SequencesExt

CONSTANTS
    Openers,        \* processes
    NoOpener,       \* nobody holds the write lock
    Binaries,       \* the releases: each a migration list, as its versions
    MaxVersion,     \* the newest version any of them knows
    Rows            \* key records

ASSUME MigrateAssumption ==
    /\ NoOpener \notin Openers
    /\ MaxVersion \in Nat \ {0}
    /\ Binaries # {}
    /\ \A ms \in Binaries : ms # <<>> /\ ms \in Seq(1..MaxVersion)

VARIABLES
    mode,           \* journal mode in the header: "absent" (or no bytes), "rollback", "wal"
    main,           \* the database in the main file
    wal,            \* there is a -wal beside it
    live,           \* the committed database, -wal included
    lock,           \* who is inside BEGIN IMMEDIATE
    tx,             \* the database as its transaction sees it
    pc,             \* where NewSQLite stands in each process
    bin,            \* its migration list
    immutable,      \* isCleanWALDatabase
    current         \* migrate's local

file == <<mode, main, wal, live>>
vars == <<file, lock, tx, pc, bin, immutable, current>>

Odd == -1       \* a keys table of another shape

Database == [ver : 0..MaxVersion + 1, keys : Odd..MaxVersion + 1, foreign : BOOLEAN, rows : SUBSET Rows]

Empty == [ver |-> 0, keys |-> 0, foreign |-> FALSE, rows |-> {}]

(* Files an opener may find: databases of wirefan, at any version up to    *)
(* one that no release here knows, and version-0 files of others.          *)
Found ==
    {d \in Database :
        \/ d.ver = 0 /\ d.keys \in {0, 1, Odd}
        \/ d.ver > 0 /\ d.keys = d.ver /\ ~d.foreign}

Init ==
    /\ live \in {d \in Found : d.keys = 0 => d.rows = {}}
    /\ \/ mode = "absent" /\ live = Empty /\ main = live /\ wal = FALSE
       \/ mode = "rollback" /\ main = live /\ wal = FALSE
       \/ mode = "wal" /\ main = live /\ wal = FALSE
       \/ mode = "wal" /\ main = Empty /\ wal = TRUE      \* its last writer was killed
    /\ lock = NoOpener
    /\ tx = Empty
    /\ pc = [p \in Openers |-> "idle"]
    /\ bin \in [Openers -> {CHOOSE ms \in Binaries : TRUE}]
    /\ immutable = [p \in Openers |-> FALSE]
    /\ current = [p \in Openers |-> 0]

Goto(p, l) == pc' = [pc EXCEPT ![p] = l]

validateMigrations(ms) == \A i \in DOMAIN ms : ms[i] = i

(* checkDatabase over one snapshot: from the future, or version 0 with     *)
(* tables that are neither none nor exactly a v0.2.0 keys table.           *)
Refuses(ms, d) ==
    \/ d.ver > Last(ms)
    \/ d.ver = 0 /\ (d.foreign \/ d.keys \notin {0, 1})

-----------------------------------------------------------------------------
(* preflight.                                                              *)

Start(p) ==
    /\ pc[p] = "idle"
    /\ \E ms \in Binaries : bin' = [bin EXCEPT ![p] = ms]
    /\ Goto(p, "stat")
    /\ UNCHANGED <<file, lock, tx, immutable, current>>

(* A bug: no preflight, the writable handle is opened straight away.       *)
FaultyStat(p) ==
    /\ pc[p] = "stat"
    /\ Goto(p, "validate")
    /\ UNCHANGED <<file, lock, tx, bin, immutable, current>>

Stat(p) ==
    /\ pc[p] = "stat"
    /\ Goto(p, IF mode = "absent" THEN "validate" ELSE "statwal")
    /\ UNCHANGED <<file, lock, tx, bin, immutable, current>>

(* isCleanWALDatabase: the -wal is looked for first, then the header read. *)
StatWal(p) ==
    /\ pc[p] = "statwal"
    /\ immutable' = [immutable EXCEPT ![p] = ~wal]
    /\ Goto(p, IF wal THEN "preflight" ELSE "header")
    /\ UNCHANGED <<file, lock, tx, bin, current>>

ReadHeader(p) ==
    /\ pc[p] = "header"
    /\ immutable' = [immutable EXCEPT ![p] = mode = "wal"]
    /\ Goto(p, "preflight")
    /\ UNCHANGED <<file, lock, tx, bin, current>>

(* readOnlyDSN: with immutable=1 the main file alone, else with its -wal.  *)
PreflightSees(p) == IF immutable[p] THEN main ELSE live

(* checkDatabase over the read-only handle, which makes an empty -wal if   *)
(* it expected one that has gone since.                                    *)
Preflight(p) ==
    /\ pc[p] = "preflight"
    /\ wal' = (wal \/ (mode = "wal" /\ ~immutable[p]))
    /\ Goto(p, IF Refuses(bin[p], PreflightSees(p)) THEN "refused" ELSE "validate")
    /\ immutable' = [immutable EXCEPT ![p] = FALSE]
    /\ UNCHANGED <<mode, main, live, lock, tx, bin, current>>

-----------------------------------------------------------------------------
(* migrate over the writable handle.                                       *)

HasHandle(p) ==
    pc[p] \in {"check", "begin", "locked", "bump", "commit", "opened"}

CloseHandle(p) ==
    /\ IF \E q \in Openers \ {p} : HasHandle(q)
         THEN UNCHANGED <<main, wal>>
         ELSE main' = live /\ wal' = FALSE
    /\ UNCHANGED <<mode, live>>

(* The versions of the list still to be applied, and the first of them.    *)
Due(p, cur) == {v \in ToSet(bin[p]) : v > cur}
NextDue(p) == Min(Due(p, current[p]))

Continue(p, cur) ==
    /\ current' = [current EXCEPT ![p] = cur]
    /\ Goto(p, IF Due(p, cur) = {} THEN "opened" ELSE "begin")

Validate(p) ==
    /\ pc[p] = "validate"
    /\ Goto(p, IF validateMigrations(bin[p]) THEN "connect" ELSE "failed")
    /\ UNCHANGED <<file, lock, tx, bin, immutable, current>>

(* The handle's first connection switches the file to WAL, and so creates  *)
(* it if it is missing.                                                    *)
Connect(p) ==
    /\ pc[p] = "connect"
    /\ mode' = "wal"
    /\ wal' = TRUE
    /\ Goto(p, "check")
    /\ UNCHANGED <<main, live, lock, tx, bin, immutable, current>>

(* A bug: the version and the tables are read from two snapshots.          *)
FaultyCheckDatabase(p) ==
    /\ pc[p] = "check"
    /\ \/ /\ Refuses(bin[p], [live EXCEPT !.ver = main.ver])
          /\ Goto(p, "refused")
          /\ CloseHandle(p)
          /\ UNCHANGED current
       \/ /\ ~Refuses(bin[p], [live EXCEPT !.ver = main.ver])
          /\ Continue(p, live.ver)
          /\ UNCHANGED file
    /\ UNCHANGED <<lock, tx, bin, immutable>>

CheckDatabase(p) ==
    /\ pc[p] = "check"
    /\ \/ /\ Refuses(bin[p], live)
          /\ Goto(p, "refused")
          /\ CloseHandle(p)
          /\ UNCHANGED current
       \/ /\ ~Refuses(bin[p], live)
          /\ Continue(p, live.ver)
          /\ UNCHANGED file
    /\ UNCHANGED <<lock, tx, bin, immutable>>

(* applyMigration: BEGIN IMMEDIATE, which gives up after the busy timeout. *)
Begin(p) ==
    /\ pc[p] = "begin"
    /\ lock = NoOpener
    /\ lock' = p
    /\ tx' = live
    /\ Goto(p, "locked")
    /\ UNCHANGED <<file, bin, immutable, current>>

(* A bug: the early return is not followed by the deferred ROLLBACK.       *)
FaultySkip(p) ==
    /\ pc[p] = "locked"
    /\ tx.ver >= NextDue(p)
    /\ Continue(p, NextDue(p))
    /\ UNCHANGED <<file, lock, tx, bin, immutable>>

(* The version is read again under the lock: another opener was faster.    *)
Skip(p) ==
    /\ pc[p] = "locked"
    /\ tx.ver >= NextDue(p)
    /\ lock' = NoOpener
    /\ tx' = Empty
    /\ Continue(p, NextDue(p))
    /\ UNCHANGED <<file, bin, immutable>>

(* A bug: the baseline drops the table it should adopt.                    *)
FaultyMigrated(d, v) ==
    IF v = 1 THEN [d EXCEPT !.keys = 1, !.rows = {}] ELSE [d EXCEPT !.keys = @ + 1]

(* What the step to version v does: CREATE TABLE IF NOT EXISTS, or a later *)
(* step, which must not run twice.                                         *)
Migrated(d, v) ==
    IF v = 1 THEN [d EXCEPT !.keys = IF @ = 0 THEN 1 ELSE @] ELSE [d EXCEPT !.keys = @ + 1]

(* A bug: the version is not read again.                                   *)
FaultyApply(p) ==
    /\ pc[p] = "locked"
    /\ tx' = Migrated(tx, NextDue(p))
    /\ Goto(p, "bump")
    /\ UNCHANGED <<file, lock, bin, immutable, current>>

Apply(p) ==
    /\ pc[p] = "locked"
    /\ tx.ver < NextDue(p)
    /\ tx' = Migrated(tx, NextDue(p))
    /\ Goto(p, "bump")
    /\ UNCHANGED <<file, lock, bin, immutable, current>>

Bump(p) ==
    /\ pc[p] = "bump"
    /\ tx' = [tx EXCEPT !.ver = NextDue(p)]
    /\ Goto(p, "commit")
    /\ UNCHANGED <<file, lock, bin, immutable, current>>

(* A bug: an error of COMMIT is not looked at.                             *)
FaultyCommit(p) ==
    /\ pc[p] = "commit"
    /\ live' \in {tx, live}
    /\ lock' = NoOpener
    /\ tx' = Empty
    /\ Continue(p, NextDue(p))
    /\ UNCHANGED <<mode, main, wal, bin, immutable>>

Commit(p) ==
    /\ pc[p] = "commit"
    /\ live' = tx
    /\ lock' = NoOpener
    /\ tx' = Empty
    /\ Continue(p, NextDue(p))
    /\ UNCHANGED <<mode, main, wal, bin, immutable>>

-----------------------------------------------------------------------------
(* Failures, the opened store, and its end.                                *)

Unlock(p) ==
    /\ lock' = IF lock = p THEN NoOpener ELSE lock
    /\ tx' = IF lock = p THEN Empty ELSE tx

Ended(p) ==
    /\ immutable' = [immutable EXCEPT ![p] = FALSE]
    /\ current' = [current EXCEPT ![p] = 0]

(* A system call or a statement fails: the transaction is rolled back, the *)
(* handle closed.  BEGIN IMMEDIATE fails when the lock stays taken.        *)
Fail(p) ==
    /\ pc[p] \in {"stat", "statwal", "header", "preflight", "connect",
                  "check", "begin", "locked", "bump", "commit"}
    /\ Unlock(p)
    /\ IF HasHandle(p) THEN CloseHandle(p) ELSE UNCHANGED file
    /\ Ended(p)
    /\ Goto(p, "failed")
    /\ UNCHANGED bin

BusyTimeout(p) == pc[p] = "begin" /\ lock # NoOpener /\ Fail(p)

Exit(p) ==
    /\ pc[p] \in {"refused", "failed"}
    /\ Ended(p)
    /\ Goto(p, "idle")
    /\ UNCHANGED <<file, lock, tx, bin>>

(* The process is killed: its transaction is gone, its -wal stays.         *)
Crash(p) ==
    /\ pc[p] # "idle"
    /\ Unlock(p)
    /\ Ended(p)
    /\ Goto(p, "idle")
    /\ UNCHANGED <<file, bin>>

CreateKey(p) ==
    /\ pc[p] = "opened"
    /\ lock = NoOpener
    /\ \E r \in Rows \ live.rows : live' = [live EXCEPT !.rows = @ \union {r}]
    /\ UNCHANGED <<mode, main, wal, lock, tx, pc, bin, immutable, current>>

Close(p) ==
    /\ pc[p] = "opened"
    /\ CloseHandle(p)
    /\ Ended(p)
    /\ Goto(p, "idle")
    /\ UNCHANGED <<lock, tx, bin>>

(* SQLite checkpoints on its own when the -wal has grown.                  *)
Checkpoint(p) ==
    /\ HasHandle(p)
    /\ main # live
    /\ main' = live
    /\ UNCHANGED <<mode, wal, live, lock, tx, pc, bin, immutable, current>>

-----------------------------------------------------------------------------
Opening(p) ==
    \/ Stat(p) \/ StatWal(p) \/ ReadHeader(p) \/ Preflight(p)
    \/ Validate(p) \/ Connect(p) \/ CheckDatabase(p)
    \/ Begin(p) \/ BusyTimeout(p) \/ Skip(p) \/ Apply(p) \/ Bump(p) \/ Commit(p)

Next ==
    \E p \in Openers :
        \/ Start(p) \/ Opening(p) \/ Fail(p) \/ Exit(p) \/ Crash(p)
        \/ CreateKey(p) \/ Close(p) \/ Checkpoint(p)

(* A process that is not killed goes on; waiting for the lock ends.        *)
Spec == Init /\ [][Next]_vars /\ \A p \in Openers : WF_vars(Opening(p))

-----------------------------------------------------------------------------
(* The shape of the state.                                                 *)
TypeOK ==
    /\ mode \in {"absent", "rollback", "wal"}
    /\ {main, live, tx} \subseteq Database
    /\ wal \in BOOLEAN
    /\ lock \in Openers \union {NoOpener}
    /\ pc \in [Openers -> {"idle", "stat", "statwal", "header", "preflight", "validate", "connect",
                           "check", "begin", "locked", "bump", "commit", "opened", "refused", "failed"}]
    /\ bin \in [Openers -> Binaries]
    /\ immutable \in [Openers -> BOOLEAN]
    /\ current \in [Openers -> 0..MaxVersion]

(* A crash, a failure or a second opener never leaves the database between *)
(* versions: user_version says which steps are in the tables, each of them *)
(* once, and it never appears on a database of another application.        *)
SchemaMatchesVersion ==
    \A d \in {main, live} :
        /\ d.ver > 0 => d.keys = d.ver /\ ~d.foreign
        /\ d.ver = 0 => d.keys \in {0, 1, Odd}

(* A file that no release here accepts is never written to, neither the    *)
(* main file with its journal-mode bytes nor the -wal: preflight sees it   *)
(* first, also when its tables are only in the -wal.                       *)
RefusedIsUntouched ==
    [][(\A ms \in Binaries : Refuses(ms, live)) => UNCHANGED file]_vars

(* No false refusal: whoever has refused still has reason to, although the *)
(* database may have been migrated while it was looking.                   *)
RefusalIsJust ==
    \A p \in Openers : pc[p] = "refused" => Refuses(bin[p], live)

(* When NewSQLite has returned a store, every step of this binary is in    *)
(* the committed database, whoever applied it.                             *)
OpenedIsMigrated ==
    \A p \in Openers : pc[p] = "opened" => live.ver >= Last(bin[p]) /\ live.keys >= Last(bin[p])

(* A committed key is never lost, by an adoption, a later step, a crash,   *)
(* or a checkpoint.                                                        *)
KeysSurvive ==
    [][live.rows \subseteq live'.rows]_vars

(* NewSQLite returns, and not with the write lock: no opener is stuck      *)
(* behind another one, and CreateKey can run afterwards.                   *)
OpenerSettles ==
    \A p \in Openers :
        pc[p] = "stat" ~> (pc[p] \in {"idle", "opened", "refused", "failed"} /\ lock # p)
=============================================================================
