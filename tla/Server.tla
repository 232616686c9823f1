------------------------------- MODULE Server -------------------------------
(***************************************************************************)
(* The process around the database: the read-write lock on the handle      *)
(* (api/router.go, api/middleware.go), the requests that take it section   *)
(* by section, backups on demand and by schedule, the restore that swaps   *)
(* the database file (api/utility.go), shutdown (main.go) and crashes.     *)
(*                                                                         *)
(* What a file holds is abstracted to which version of the data it is; a   *)
(* change acknowledged makes a new one. The write-ahead log is a version   *)
(* built on a base; read over another base it gives neither.               *)
(***************************************************************************)
EXTENDS Naturals, Sequences, FiniteSets

CONSTANTS
  Clients,      \* HTTP requests and rounds of the backup loop in flight at once
  None,         \* nobody
  Kinds,        \* the kinds of request the clients send
  Names,        \* files of the backups directory
  Uploads,      \* kinds of file an administrator may upload to restore
  MaxVersions,  \* the number of versions of the data: a bound
  MaxCrashes    \* the number of crashes: a bound

VARIABLES
  proc,     \* whether the process is up, stopping or down; how often it crashed
  handle,   \* h.db: main's own, reopened by a restore, closed, or nil
  disk,     \* the database file, its write-ahead log and the safety copy
  snaps,    \* the backups directory
  lock,     \* dbMu
  pc,       \* where each request is
  acked,    \* the version last acknowledged to a client
  made      \* the number of versions made so far

vars == <<proc, handle, disk, snaps, lock, pc, acked, made>>

ASSUME ConstantsAssumption ==
  /\ None \notin Clients
  /\ MaxVersions \in Nat \ {0} /\ MaxCrashes \in Nat
  /\ Kinds \subseteq {"read", "change", "backup", "restore", "sso", "tick"}
  /\ Uploads \subseteq {"garbage", "newer", "stuck"} /\ Names \cap Uploads = {}

-----------------------------------------------------------------------------
(* Files.                                                                  *)

Db(v) == [kind |-> "db", v |-> v]
Odd(kind) == [kind |-> kind, v |-> 0]
NoFile == Odd("none")

\* "cut": partly written; "garbage": no database of this program; "newer": of a
\* schema the migrations do not know; "stuck": one of its pending migrations
\* fails after others were applied, which leaves it "half" migrated.
OddKinds == {"none", "empty", "cut", "garbage", "newer", "stuck", "half", "mixed"}
Content == {Db(v) : v \in 1..MaxVersions} \cup {Odd(k) : k \in OddKinds}

\* What a connection reads: the file, or what the log makes of its base.
Overlay(file, wal) ==
  IF wal.to = NoFile THEN file ELSE IF wal.base = file THEN wal.to ELSE Odd("mixed")

NoWal == [base |-> NoFile, to |-> NoFile]
Served == Overlay(disk.main, disk.wal)

\* The log after a commit of version v, and after a Close, which checkpoints.
Committed(v) == [disk EXCEPT !.wal = [base |-> disk.main, to |-> Db(v)]]
Checkpointed == [disk EXCEPT !.main = Served, !.wal = NoWal]

\* NewDatabase: what opens, migrates and answers a ping. Pages of two
\* databases together may or may not.
Opens(file) == file.kind \in {"db", "mixed"}
FailsToOpen(file) == file.kind # "db"

\* validateRestoreCandidate: a sound database with a users table.
Valid(file) == file.kind \in {"db", "newer", "stuck", "mixed"}

-----------------------------------------------------------------------------
(* Requests: the sections each kind goes through, in the order of the      *)
(* middleware that wraps its route.                                        *)

Sections(kind) ==
  CASE kind = "read"    -> <<"auth", "handler">>
    [] kind = "change"  -> <<"auth", "org", "handler", "audit">>
    [] kind = "backup"  -> <<"auth", "snapshot", "audit">>
    [] kind = "restore" -> <<"auth", "swap", "audit">>
    [] kind = "sso"     -> <<"precheck", "provision">>
    [] kind = "tick"    -> <<"snapshot">>
    [] OTHER            -> <<"idle">>

WriteSections == {"swap", "provision"}

\* step: how far a restore is; src: the file it restores or a backup writes.
Idle == [kind |-> "idle", at |-> 1, step |-> "begin", src |-> None]
Section(c) == Sections(pc[c].kind)[pc[c].at]
Begin(kind, src) == [kind |-> kind, at |-> 1, step |-> "begin", src |-> src]

Onward(c) == IF pc[c].at = Len(Sections(pc[c].kind)) THEN Idle
             ELSE [pc[c] EXCEPT !.at = @ + 1, !.step = "begin"]

Source(c) == IF pc[c].src \in Names THEN snaps[pc[c].src] ELSE Odd(pc[c].src)

-----------------------------------------------------------------------------
(* sync.RWMutex: a writer that has announced itself holds back new readers *)
(* and waits for those inside; when it unlocks, all it held back enter.    *)

Free == [readers |-> {}, blocked |-> {}, pending |-> None, writer |-> None]

RLock(c) == lock' = IF lock.writer = None /\ lock.pending = None
                    THEN [lock EXCEPT !.readers = @ \cup {c}]
                    ELSE [lock EXCEPT !.blocked = @ \cup {c}]
RUnlock(c) == lock' = [lock EXCEPT !.readers = @ \ {c}]
Unlock == lock' = [lock EXCEPT !.writer = None, !.readers = lock.blocked, !.blocked = {}]

Announce(c) ==
  /\ Section(c) \in WriteSections
  /\ pc[c].step = IF Section(c) = "swap" THEN "checked" ELSE "begin"
  /\ lock.pending = None /\ lock.writer = None
  /\ lock' = [lock EXCEPT !.pending = c]
  /\ UNCHANGED <<proc, handle, disk, snaps, pc, acked, made>>

Acquire(c) ==
  /\ lock.pending = c /\ lock.readers = {}
  /\ lock' = [lock EXCEPT !.pending = None, !.writer = c]
  /\ UNCHANGED <<proc, handle, disk, snaps, pc, acked, made>>

-----------------------------------------------------------------------------
(* Sections under the read lock.                                           *)

\* A request arrives, or the backup loop wakes up in the configured hour with no
\* backup of today.
Arrive(c, kind, src) ==
  /\ proc.run = "up" /\ pc[c] = Idle /\ kind \in Kinds
  /\ src \in CASE kind = "restore"          -> Names \cup Uploads
               [] kind \in {"backup", "tick"} -> Names
               [] OTHER                     -> {None}
  /\ kind \in {"change", "sso"} => made < MaxVersions
  /\ kind = "tick" => \A d \in Clients : pc[d].kind # "tick"
  /\ pc' = [pc EXCEPT ![c] = Begin(kind, src)]
  /\ UNCHANGED <<proc, handle, disk, snaps, lock, acked, made>>

Enter(c) ==
  /\ pc[c] # Idle /\ Section(c) \notin WriteSections
  /\ c \notin lock.readers \cup lock.blocked
  /\ RLock(c)
  /\ UNCHANGED <<proc, handle, disk, snaps, pc, acked, made>>

\* VACUUM INTO a file that is removed first: whole, partly written or absent.
Snapshots == IF handle \in {"own", "reopened"} THEN {Served, Odd("cut"), NoFile} ELSE {NoFile}

Commit == /\ made < MaxVersions
          /\ made' = made + 1 /\ acked' = Db(made + 1) /\ disk' = Committed(made + 1)

\* A backup: the request goes on, or ends with an error.
SnapshotTaken(c) ==
  /\ Section(c) = "snapshot"
  /\ \E file \in Snapshots :
       /\ snaps' = [snaps EXCEPT ![pc[c].src] = file]
       /\ pc' = [pc EXCEPT ![c] = IF file = Served THEN Onward(c) ELSE Idle]
  /\ UNCHANGED <<disk, acked, made>>

\* The handler of a change commits what it changes.
Changed(c) ==
  /\ Section(c) = "handler" /\ pc[c].kind = "change" /\ handle \in {"own", "reopened"}
  /\ Commit
  /\ pc' = [pc EXCEPT ![c] = Onward(c)]
  /\ UNCHANGED snaps

\* Nothing is changed that counts here: a read, a check passed, an event of the
\* activity history.
Passed(c) ==
  /\ Section(c) # "snapshot" /\ (Section(c) = "handler" => pc[c].kind = "read")
  /\ pc' = [pc EXCEPT ![c] = Onward(c)]
  /\ UNCHANGED <<snaps, disk, acked, made>>

\* A refusal or an error ends the request.
Refused(c) ==
  /\ Section(c) \in {"auth", "org", "handler"}
  /\ pc' = [pc EXCEPT ![c] = Idle]
  /\ UNCHANGED <<snaps, disk, acked, made>>

\* Mutant of Leave: the handler takes the read lock again to check the
\* membership, and waits behind a writer that waits for it.
LeaveNested(c) ==
  /\ c \in lock.readers
  /\ Section(c) = "handler" => lock.pending = None
  /\ RUnlock(c)
  /\ SnapshotTaken(c) \/ Changed(c) \/ Passed(c) \/ Refused(c)
  /\ UNCHANGED <<proc, handle>>

\* The section does its work and unlocks.
Leave(c) ==
  /\ c \in lock.readers
  /\ RUnlock(c)
  /\ SnapshotTaken(c) \/ Changed(c) \/ Passed(c) \/ Refused(c)
  /\ UNCHANGED <<proc, handle>>

\* Retention drops old backups under no lock.
Retention(name) ==
  /\ proc.run # "down" /\ snaps[name] # NoFile
  /\ snaps' = [snaps EXCEPT ![name] = NoFile]
  /\ UNCHANGED <<proc, handle, disk, lock, pc, acked, made>>

\* A sign-in through SSO provisions the user or syncs its role.
Provision(c) ==
  /\ lock.writer = c /\ Section(c) = "provision"
  /\ pc' = [pc EXCEPT ![c] = Onward(c)]
  /\ Unlock
  /\ IF handle \in {"own", "reopened"} THEN Commit \/ UNCHANGED <<disk, acked, made>>
     ELSE UNCHANGED <<disk, acked, made>>
  /\ UNCHANGED <<proc, handle, snaps>>

-----------------------------------------------------------------------------
(* Restore. The file is checked under no lock, then swapped under the      *)
(* write lock, a step at a time for the crash that may fall between any    *)
(* two.                                                                    *)

Swapping(c, step) == lock.writer = c /\ Section(c) = "swap" /\ pc[c].step = step
Step(c, step) == pc' = [pc EXCEPT ![c].step = step]
GiveUp(c) == pc' = [pc EXCEPT ![c] = Idle] /\ Unlock

RestoreCheck(c) ==
  /\ pc[c].step = "begin" /\ Section(c) = "swap"
  /\ IF Valid(Source(c)) THEN Step(c, "checked") ELSE pc' = [pc EXCEPT ![c] = Idle]
  /\ UNCHANGED <<proc, handle, disk, snaps, lock, acked, made>>

\* Mutant of RestoreSafety: an error of the safety backup is only logged.
RestoreSafetyUnchecked(c) ==
  /\ Swapping(c, "checked")
  /\ \E file \in Snapshots :
       /\ disk' = [disk EXCEPT !.safety = file]
       /\ Step(c, "saved") /\ UNCHANGED lock
  /\ acked' = IF disk.safety = NoFile THEN acked ELSE Served
  /\ UNCHANGED <<proc, handle, snaps, made>>

\* Mutant of RestoreSafety: the file is copied without its log.
RestoreSafetyFileCopy(c) ==
  /\ Swapping(c, "checked")
  /\ disk' = [disk EXCEPT !.safety = disk.main]
  /\ Step(c, "saved") /\ UNCHANGED lock
  /\ acked' = IF disk.safety = NoFile THEN acked ELSE Served
  /\ UNCHANGED <<proc, handle, snaps, made>>

\* The safety copy replaces the one a crashed restore may have left: what that
\* one held and is no longer served is given up here.
RestoreSafety(c) ==
  /\ Swapping(c, "checked")
  /\ \E file \in Snapshots :
       /\ disk' = [disk EXCEPT !.safety = file]
       /\ IF file = Served THEN Step(c, "saved") /\ UNCHANGED lock ELSE GiveUp(c)
  /\ acked' = IF disk.safety = NoFile THEN acked ELSE Served
  /\ UNCHANGED <<proc, handle, snaps, made>>

RestoreClose(c) ==
  /\ Swapping(c, "saved")
  /\ \/ /\ handle' = "nil" /\ disk' = Checkpointed
        /\ Step(c, "closed") /\ UNCHANGED lock
     \/ handle' = "closed" /\ GiveUp(c) /\ UNCHANGED disk
  /\ UNCHANGED <<proc, snaps, acked, made>>

\* The log is gone; copyFile opens the source, then truncates.
RestoreTruncate(c) ==
  /\ Swapping(c, "closed")
  /\ IF Source(c) = NoFile THEN Step(c, "undo") /\ UNCHANGED disk
     ELSE Step(c, "copying") /\ disk' = [disk EXCEPT !.main = Odd("empty"), !.wal = NoWal]
  /\ UNCHANGED <<proc, handle, snaps, lock, acked, made>>

RestoreCopy(c) ==
  /\ Swapping(c, "copying")
  /\ \/ disk' = [disk EXCEPT !.main = Source(c)] /\ Step(c, "copied")
     \/ disk' = [disk EXCEPT !.main = Odd("cut")] /\ Step(c, "undo")
  /\ UNCHANGED <<proc, handle, snaps, lock, acked, made>>

RestoreOpen(c) ==
  /\ Swapping(c, "copied")
  /\ \/ /\ Opens(Served)
        /\ handle' = "reopened" /\ acked' = disk.main
        /\ disk' = [disk EXCEPT !.safety = NoFile]
        /\ pc' = [pc EXCEPT ![c] = Onward(c)] /\ Unlock
     \/ /\ FailsToOpen(Served)
        /\ disk' = IF disk.main = Odd("stuck")
                   THEN [disk EXCEPT !.wal = [base |-> disk.main, to |-> Odd("half")]] ELSE disk
        /\ Step(c, "undo")
        /\ UNCHANGED <<handle, lock, acked>>
  /\ UNCHANGED <<proc, snaps, made>>

\* recoverFromSafety: the safety copy over the file, whatever log is beside it.
RollbackCopy(c) ==
  /\ Swapping(c, "undo")
  /\ disk' = [disk EXCEPT !.main = disk.safety]
  /\ Step(c, "undone")
  /\ UNCHANGED <<proc, handle, snaps, lock, acked, made>>

RollbackOpen(c) ==
  /\ Swapping(c, "undone") /\ Opens(Served)
  /\ handle' = "reopened"
  /\ disk' = [disk EXCEPT !.safety = NoFile]
  /\ GiveUp(c)
  /\ UNCHANGED <<proc, snaps, acked, made>>

-----------------------------------------------------------------------------
(* The process.                                                            *)

\* Everything in memory goes; every file stays as it is.
Down == /\ handle' = "nil" /\ lock' = Free
        /\ pc' = [c \in Clients |-> Idle]
        /\ UNCHANGED <<snaps, acked, made>>

Crash ==
  /\ proc.run # "down" /\ proc.crashes < MaxCrashes
  /\ proc' = [run |-> "down", crashes |-> proc.crashes + 1]
  /\ Down /\ UNCHANGED disk

\* os.Exit: the rollback failed too.
RollbackFails(c) ==
  /\ \/ Swapping(c, "undo") /\ disk' = [disk EXCEPT !.main = Odd("cut")]
     \/ Swapping(c, "undone") /\ FailsToOpen(Served) /\ UNCHANGED disk
  /\ proc' = [proc EXCEPT !.run = "down"]
  /\ Down

\* SIGTERM: no new requests, those in flight finish, main closes its handle.
Shutdown ==
  /\ proc.run = "up"
  /\ proc' = [proc EXCEPT !.run = "stopping"]
  /\ UNCHANGED <<handle, disk, snaps, lock, pc, acked, made>>

Exit ==
  /\ proc.run = "stopping" /\ \A c \in Clients : pc[c] = Idle
  /\ proc' = [proc EXCEPT !.run = "down"]
  /\ disk' = IF handle = "own" THEN Checkpointed ELSE disk
  /\ Down

\* An empty file is taken for a fresh install; one that does not open keeps
\* the server down.
Start ==
  /\ proc.run = "down"
  /\ proc' = [proc EXCEPT !.run = "up"]
  /\ handle' = "own"
  /\ \/ Opens(Served) /\ UNCHANGED <<disk, made>>
     \/ Served.kind = "empty" /\ made < MaxVersions /\ made' = made + 1 /\ disk' = Committed(made + 1)
  /\ UNCHANGED <<snaps, lock, pc, acked>>

-----------------------------------------------------------------------------

Init ==
  /\ proc = [run |-> "up", crashes |-> 0]
  /\ handle = "own"
  /\ disk = [main |-> Db(1), wal |-> NoWal, safety |-> NoFile]
  /\ snaps = [n \in Names |-> NoFile]
  /\ lock = Free
  /\ pc = [c \in Clients |-> Idle]
  /\ acked = Db(1) /\ made = 1

Swap(c) ==
  \/ RestoreCheck(c) \/ RestoreSafety(c) \/ RestoreClose(c) \/ RestoreTruncate(c)
  \/ RestoreCopy(c) \/ RestoreOpen(c) \/ RollbackCopy(c) \/ RollbackOpen(c) \/ RollbackFails(c)

Proceed(c) == Enter(c) \/ Leave(c) \/ Acquire(c) \/ Provision(c) \/ Swap(c)

Next ==
  \/ \E c \in Clients, kind \in Kinds, src \in Names \cup Uploads \cup {None} : Arrive(c, kind, src)
  \/ \E c \in Clients : Proceed(c) \/ Announce(c)
  \/ \E name \in Names : Retention(name)
  \/ Crash \/ Shutdown \/ Exit \/ Start

\* A request in flight keeps running, and sync.RWMutex starves no writer. That
\* requests arrive, that the backup loop wakes up and that the process is stopped
\* or started again is up to others.
Fairness == \A c \in Clients : WF_vars(Proceed(c)) /\ SF_vars(Announce(c))

Spec == Init /\ [][Next]_vars /\ Fairness

-----------------------------------------------------------------------------
(* Properties.                                                             *)

TypeOK ==
  /\ proc \in [run : {"up", "stopping", "down"}, crashes : 0..MaxCrashes]
  /\ handle \in {"own", "reopened", "closed", "nil"}
  /\ disk \in [main : Content, wal : [base : Content, to : Content], safety : Content]
  /\ snaps \in [Names -> Content]
  /\ lock \in [readers : SUBSET Clients, blocked : SUBSET Clients,
               pending : Clients \cup {None}, writer : Clients \cup {None}]
  /\ acked \in Content /\ made \in 1..MaxVersions

\* The data last acknowledged are on disk at every moment of a restore and
\* after a crash in it: served by the file with its log, or in the safety copy.
AcknowledgedHeld == acked \in {Served, disk.safety}

\* Once no restore is in progress or was cut short, what is served is what
\* was last acknowledged: a failed restore is rolled back (api/utility.go:300).
ServesAcknowledged ==
  (proc.run # "down" /\ lock.writer = None /\ disk.safety = NoFile) => Served = acked

\* Every request that arrives ends: no reader and writer wait on each other
\* (api/middleware.go:305), and a shutdown that waits for them completes.
RequestsEnd == \A c \in Clients : pc[c] # Idle ~> pc[c] = Idle
=============================================================================
