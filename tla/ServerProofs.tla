---------------------------- MODULE ServerProofs ----------------------------
(***************************************************************************)
(* What holds of the process and of those it serves.                       *)
(*                                                                         *)
(* Server: what was acknowledged survives restores, crashes and shutdowns, *)
(* for any number of requests, backups, versions and crashes, as long as   *)
(* no file is uploaded whose migration fails half way ("stuck"), which the *)
(* run server_rollback shows to break it. The argument is what each step   *)
(* of a restore knows of the files, and that the write lock keeps everyone *)
(* else from them.                                                         *)
(*                                                                         *)
(* Access: sessions need what a parked sign-in or renewal carries: the     *)
(* version and the count it carries were read together. The last admins    *)
(* need what a parked change or removal of a user has checked. The menu of *)
(* the browser is held against the tables of the gates, role by role.      *)
(***************************************************************************)
EXTENDS Server, Access, TLAPS, FiniteSetTheorems


(* The lock and the requests.                                              *)

LockInv ==
  /\ lock \in [readers : SUBSET Clients, blocked : SUBSET Clients,
               pending : Clients \cup {None}, writer : Clients \cup {None}]
  /\ lock.pending # None => lock.writer = None
  /\ lock.writer # None => lock.readers = {}

Steps == {"begin", "checked", "saved", "closed", "copying", "copied", "undo", "undone"}

Place == [kind : Kinds \cup {"idle"}, at : Nat \ {0}, step : Steps,
          src : Names \cup Uploads \cup {None}]

\* A restore that holds the write lock and has made its safety copy.
Late(c) == pc[c].step \notin {"begin", "checked"}

PcInv ==
  /\ pc \in [Clients -> Place]
  /\ \A c \in Clients :
       /\ pc[c].at <= Len(Sections(pc[c].kind))
       /\ pc[c].kind = "restore" => pc[c].src \in Names \cup Uploads
       /\ Late(c) => lock.writer = c /\ Section(c) = "swap"

\* Nothing of a process that is down remains.
DownInv ==
  /\ proc = [run |-> proc.run, crashes |-> proc.crashes]
  /\ proc.run = "down" => lock = Free /\ \A c \in Clients : pc[c] = Idle

-----------------------------------------------------------------------------
(* The files.                                                              *)

DiskType == disk = [main |-> disk.main, wal |-> disk.wal, safety |-> disk.safety]

\* No backup is of a kind whose migration gets stuck.
SnapsInv == snaps = [n \in Names |-> snaps[n]] /\ \A n \in Names : snaps[n].kind # "stuck"

\* While a restore is at work the database file may be anything; at any other
\* time the process serves what opens.
AtWork == \E c \in Clients : pc[c].step \in {"copying", "copied", "undo", "undone"}
ServedInv == proc.run # "down" /\ ~AtWork => Opens(Served)

\* What each step of a restore knows.
SwapInv ==
  \A c \in Clients : LET step == pc[c].step IN
    /\ Late(c) => disk.safety = acked
    /\ step = "saved" => Served = acked
    /\ Late(c) /\ step # "saved" => disk.wal = NoWal
    /\ step \in {"closed", "undone"} => disk.main = acked
    /\ step = "copied" => disk.main.kind # "stuck"

AckedInv == Opens(acked) /\ AcknowledgedHeld

\* The inductive invariant.
IInv ==
  /\ LockInv /\ PcInv /\ DownInv
  /\ DiskType /\ SnapsInv /\ ServedInv /\ SwapInv /\ AckedInv

-----------------------------------------------------------------------------
(* Facts about the sections, the lock and the files.                       *)

LEMMA SectionsOf ==
  ASSUME NEW k \in Kinds \cup {"idle"}
  PROVE  /\ Len(Sections(k)) \in Nat \ {0}
         /\ \A i \in 1..Len(Sections(k)) : Sections(k)[i] = "swap" => k = "restore"
<1>1. k \in {"read", "change", "backup", "restore", "sso", "tick", "idle"}
  BY ConstantsAssumption
<1>2. CASE k = "read"
  BY <1>2 DEF Sections
<1>3. CASE k = "change"
  BY <1>3 DEF Sections
<1>4. CASE k = "backup"
  BY <1>4 DEF Sections
<1>5. CASE k = "restore"
  BY <1>5 DEF Sections
<1>6. CASE k = "sso"
  BY <1>6 DEF Sections
<1>7. CASE k = "tick"
  BY <1>7 DEF Sections
<1>8. CASE k = "idle"
  BY <1>8 DEF Sections
<1> QED
  BY <1>1, <1>2, <1>3, <1>4, <1>5, <1>6, <1>7, <1>8

LEMMA IdleSection == Sections("idle") = <<"idle">>
  BY DEF Sections

\* Where a request may be.
Placed(p) ==
  /\ p \in Place /\ p.at <= Len(Sections(p.kind))
  /\ p.kind = "restore" => p.src \in Names \cup Uploads

Early(p) == Placed(p) /\ p.step \in {"begin", "checked"}

LEMMA IdleEarly == Early(Idle)
  BY IdleSection DEF Early, Placed, Place, Steps, Idle

LEMMA OnwardEarly ==
  ASSUME PcInv, NEW c \in Clients
  PROVE  Early(Onward(c))
<1>1. CASE pc[c].at = Len(Sections(pc[c].kind))
  BY <1>1, IdleEarly DEF Onward
<1>2. CASE pc[c].at # Len(Sections(pc[c].kind))
  <2> DEFINE n == pc[c].at + 1
  <2>1. Placed(pc[c]) /\ Len(Sections(pc[c].kind)) \in Nat
    BY SectionsOf DEF PcInv, Placed, Place
  <2>2. n \in Nat \ {0} /\ n <= Len(Sections(pc[c].kind))
    BY <1>2, <2>1 DEF Placed, Place
  <2>3. Onward(c) = [pc[c] EXCEPT !.at = n, !.step = "begin"]
    BY <1>2, Zenon DEF Onward
  <2> HIDE DEF n
  <2>4. Onward(c) = [kind |-> pc[c].kind, at |-> n, step |-> "begin", src |-> pc[c].src]
    BY <2>1, <2>3, Zenon DEF Placed, Place
  <2> QED
    BY <2>1, <2>2, <2>4 DEF Early, Placed, Place, Steps
<1> QED
  BY <1>1, <1>2

\* Whoever is late holds the write lock, so at most one is, and none inside a
\* read section.
LEMMA OnlyWriterLate ==
  ASSUME PcInv, NEW c \in Clients, Late(c)
  PROVE  lock.writer = c
  BY DEF PcInv

LEMMA NoneLate ==
  ASSUME IInv, lock.writer = None
  PROVE  ~AtWork /\ \A c \in Clients : ~Late(c)
  BY ConstantsAssumption DEF IInv, PcInv, AtWork, Late

LEMMA ReaderAlone ==
  ASSUME IInv, NEW c \in lock.readers
  PROVE  lock.writer = None /\ proc.run # "down"
  BY DEF IInv, LockInv, DownInv, Free

\* When nobody is late, the restores know nothing.
LEMMA QuietSwap ==
  ASSUME \A c \in Clients : ~Late(c)'
  PROVE  SwapInv' /\ ~AtWork'
  BY DEF SwapInv, AtWork, Late

\* The files after a change is committed, and after a checkpoint.
LEMMA CommitServes ==
  ASSUME DiskType, Commit
  PROVE  /\ DiskType' /\ Served' = acked' /\ Opens(acked')
         /\ disk'.safety = disk.safety
<1> DEFINE v == made + 1
           w == [base |-> disk.main, to |-> Db(v)]
<1>1. acked' = Db(v) /\ disk' = [disk EXCEPT !.wal = w]
  BY DEF Commit, Committed
<1>2. disk' = [main |-> disk.main, wal |-> w, safety |-> disk.safety]
  BY <1>1, Zenon DEF DiskType
<1>3. Db(v) # NoFile
  BY DEF Db, NoFile, Odd
<1>4. Served' = Db(v)
  BY <1>2, <1>3 DEF Served, Overlay
<1>5. Opens(Db(v))
  BY DEF Opens, Db
<1> QED
  BY <1>1, <1>2, <1>4, <1>5 DEF DiskType, Opens

LEMMA CheckpointServes ==
  ASSUME DiskType, disk' = Checkpointed
  PROVE  /\ DiskType' /\ Served' = Served
         /\ disk'.main = Served /\ disk'.wal = NoWal /\ disk'.safety = disk.safety
<1>1. disk' = [main |-> Served, wal |-> NoWal, safety |-> disk.safety]
  BY Zenon DEF DiskType, Checkpointed
<1>2. DiskType' /\ disk'.main = Served /\ disk'.wal = NoWal /\ disk'.safety = disk.safety
  BY <1>1 DEF DiskType
<1>3. Served' = Served
  BY <1>2 DEF Served, Overlay, NoWal
<1> QED
  BY <1>2, <1>3

\* A request moves to a place where it is not late.
LEMMA PcMoves ==
  ASSUME PcInv, NEW c \in Clients, NEW p, Early(p), pc' = [pc EXCEPT ![c] = p],
         lock.writer \notin {c, None} => lock'.writer = lock.writer
  PROVE  PcInv' /\ ~Late(c)' /\ \A d \in Clients \ {c} : pc'[d] = pc[d]
<1>1. pc'[c] = p /\ \A d \in Clients \ {c} : pc'[d] = pc[d]
  BY DEF PcInv
<1>2. pc' \in [Clients -> Place]
  BY DEF PcInv, Early, Placed
<1>3. ~Late(c)'
  BY <1>1 DEF Late, Early
<1>4. \A d \in Clients \ {c} : Late(d)' => lock'.writer = d /\ Section(d)' = "swap"
  BY <1>1, ConstantsAssumption DEF PcInv, Late, Section
<1> QED
  BY <1>1, <1>2, <1>3, <1>4 DEF PcInv, Early, Placed

\* A restore that holds the write lock takes its next step.
LEMMA PcSteps ==
  ASSUME PcInv, NEW c \in Clients, NEW s \in Steps, Step(c, s), Section(c) = "swap",
         s \notin {"begin", "checked"} => lock.writer = c,
         lock'.writer = lock.writer
  PROVE  PcInv' /\ pc'[c].step = s /\ \A d \in Clients \ {c} : pc'[d] = pc[d]
<1> DEFINE p == [pc[c] EXCEPT !.step = s]
<1>1. pc[c] \in Place
  BY DEF PcInv
<1>2. p = [kind |-> pc[c].kind, at |-> pc[c].at, step |-> s, src |-> pc[c].src]
  BY <1>1 DEF Place
<1>3. pc' = [pc EXCEPT ![c] = p]
  BY DEF Step
<1> HIDE DEF p
<1>4. pc'[c] = p /\ \A d \in Clients \ {c} : pc'[d] = pc[d]
  BY <1>3 DEF PcInv
<1>5. p \in Place /\ pc' \in [Clients -> Place]
  BY <1>1, <1>2, <1>3 DEF PcInv, Place
<1>6. /\ pc'[c].kind = pc[c].kind /\ pc'[c].at = pc[c].at
      /\ pc'[c].src = pc[c].src /\ pc'[c].step = s
  BY <1>2, <1>4
<1>7. Section(c)' = Section(c)
  BY <1>6 DEF Section
<1>8. \A d \in Clients \ {c} : Late(d)' => lock'.writer = d /\ Section(d)' = "swap"
  BY <1>4 DEF PcInv, Late, Section
<1> QED
  BY <1>4, <1>5, <1>6, <1>7, <1>8 DEF PcInv, Late

LEMMA NotDown ==
  ASSUME IInv, NEW c \in Clients, pc[c] # Idle \/ lock.writer = c \/ lock.pending = c
  PROVE  proc.run # "down"
  BY ConstantsAssumption DEF IInv, DownInv, Free

LEMMA SectionNotIdle ==
  ASSUME NEW c \in Clients, Section(c) # "idle"
  PROVE  pc[c] # Idle
  BY IdleSection DEF Section, Idle

\* The lock, one operation at a time.
LEMMA LockKept ==
  ASSUME LockInv, NEW c \in Clients
  PROVE  /\ RLock(c) => LockInv' /\ lock'.writer = lock.writer
         /\ RUnlock(c) => LockInv' /\ lock'.writer = lock.writer
         /\ Unlock => LockInv' /\ lock'.writer = None
<1> DEFINE r == lock.readers b == lock.blocked p == lock.pending w == lock.writer
<1>1. lock = [readers |-> r, blocked |-> b, pending |-> p, writer |-> w]
  BY DEF LockInv
<1>2. ASSUME RLock(c) PROVE LockInv' /\ lock'.writer = w
  <2>1. CASE w = None /\ p = None
    BY <1>1, <1>2, <2>1 DEF LockInv, RLock
  <2>2. CASE ~(w = None /\ p = None)
    BY <1>1, <1>2, <2>2 DEF LockInv, RLock
  <2> QED
    BY <2>1, <2>2
<1>3. ASSUME RUnlock(c) PROVE LockInv' /\ lock'.writer = w
  BY <1>1, <1>3 DEF LockInv, RUnlock
<1>4. ASSUME Unlock PROVE LockInv' /\ lock'.writer = None
  <2>1. lock' = [readers |-> b, blocked |-> {}, pending |-> p, writer |-> None]
    BY <1>1, <1>4, Zenon DEF Unlock
  <2> QED
    BY <2>1 DEF LockInv
<1> QED
  BY <1>2, <1>3, <1>4

\* What no step but a restore's or the process's disturbs.
LEMMA FilesStay ==
  ASSUME IInv, UNCHANGED <<disk, acked>>
  PROVE  DiskType' /\ AckedInv' /\ Served' = Served
  BY DEF IInv, DiskType, AckedInv, AcknowledgedHeld, Served, Opens

\* Restores that stay where they are, if late, know what they knew.
LEMMA QuietStep ==
  ASSUME IInv, UNCHANGED <<disk, acked>>, proc'.run # "down" => proc.run # "down",
         \A c \in Clients : Late(c) \/ Late(c)' => pc'[c].step = pc[c].step
  PROVE  DiskType' /\ ServedInv' /\ SwapInv' /\ AckedInv'
<1>1. DiskType' /\ AckedInv' /\ Served' = Served
  BY FilesStay
<1>2. SwapInv'
  BY <1>1 DEF IInv, SwapInv, Late
<1>3. AtWork' <=> AtWork
  BY DEF AtWork, Late
<1>4. ServedInv'
  BY <1>1, <1>3 DEF IInv, ServedInv, Opens
<1> QED
  BY <1>1, <1>2, <1>4

-----------------------------------------------------------------------------
(* Every action.                                                           *)

LEMMA ArriveIInv ==
  ASSUME IInv, NEW c \in Clients, NEW kind \in Kinds, NEW src \in Names \cup Uploads \cup {None},
         Arrive(c, kind, src)
  PROVE  IInv'
<1>1. Early(Begin(kind, src))
  <2>1. kind = "restore" => src \in Names \cup Uploads
    BY DEF Arrive
  <2>2. Len(Sections(kind)) \in Nat \ {0}
    BY SectionsOf
  <2> QED
    BY <2>1, <2>2 DEF Early, Placed, Place, Steps, Begin
<1>2. pc' = [pc EXCEPT ![c] = Begin(kind, src)] /\ lock' = lock
  BY DEF Arrive
<1>3. PcInv' /\ ~Late(c)' /\ \A d \in Clients \ {c} : pc'[d] = pc[d]
  BY <1>1, <1>2, PcMoves DEF IInv
<1>4. ~Late(c)
  BY DEF Arrive, Late, Idle
<1>5. DiskType' /\ ServedInv' /\ SwapInv' /\ AckedInv'
  BY <1>3, <1>4, QuietStep DEF Arrive, Late
<1> QED
  BY <1>2, <1>3, <1>5 DEF IInv, Arrive, LockInv, DownInv, SnapsInv

LEMMA EnterIInv ==
  ASSUME IInv, NEW c \in Clients, Enter(c)
  PROVE  IInv'
<1>1. LockInv' /\ lock'.writer = lock.writer
  BY LockKept DEF IInv, Enter
<1>2. PcInv'
  BY <1>1 DEF IInv, PcInv, Enter, Late, Section
<1>3. DiskType' /\ ServedInv' /\ SwapInv' /\ AckedInv'
  BY QuietStep DEF Enter
<1>4. proc.run # "down" /\ proc' = proc
  BY NotDown DEF Enter
<1> QED
  BY <1>1, <1>2, <1>3, <1>4 DEF IInv, DownInv, SnapsInv, Enter

LEMMA AnnounceIInv ==
  ASSUME IInv, NEW c \in Clients, Announce(c)
  PROVE  IInv'
<1>1. LockInv' /\ lock'.writer = lock.writer
  BY DEF IInv, LockInv, Announce
<1>2. PcInv'
  BY <1>1 DEF IInv, PcInv, Announce, Late, Section
<1>3. DiskType' /\ ServedInv' /\ SwapInv' /\ AckedInv'
  BY QuietStep DEF Announce
<1>4. proc.run # "down" /\ proc' = proc
  BY SectionNotIdle, NotDown DEF Announce, WriteSections
<1> QED
  BY <1>1, <1>2, <1>3, <1>4 DEF IInv, DownInv, SnapsInv, Announce

LEMMA AcquireIInv ==
  ASSUME IInv, NEW c \in Clients, Acquire(c)
  PROVE  IInv'
<1>1. lock.writer = None /\ lock.pending = c
  BY ConstantsAssumption DEF IInv, LockInv, Acquire
<1>2. LockInv'
  <2> DEFINE r == lock.readers b == lock.blocked
  <2>1. lock = [readers |-> r, blocked |-> b, pending |-> c, writer |-> None]
    BY <1>1 DEF IInv, LockInv
  <2>2. lock' = [readers |-> r, blocked |-> b, pending |-> None, writer |-> c]
    BY <2>1, Zenon DEF Acquire
  <2>3. r = {}
    BY DEF Acquire
  <2> QED
    BY <2>1, <2>2, <2>3 DEF IInv, LockInv
<1>3. \A d \in Clients : ~Late(d) /\ ~Late(d)'
  BY <1>1, NoneLate DEF Acquire, Late
<1>4. PcInv'
  BY <1>3 DEF IInv, PcInv, Acquire, Late
<1>5. DiskType' /\ ServedInv' /\ SwapInv' /\ AckedInv'
  BY QuietStep DEF Acquire
<1>6. proc.run # "down" /\ proc' = proc
  BY <1>1, NotDown DEF Acquire
<1> QED
  BY <1>2, <1>4, <1>5, <1>6 DEF IInv, DownInv, SnapsInv, Acquire

\* Under the read lock nobody is late, so a change may be committed.
LEMMA LeaveIInv ==
  ASSUME IInv, NEW c \in Clients, Leave(c)
  PROVE  IInv'
<1>1. lock.writer = None /\ proc.run # "down" /\ proc' = proc
  BY ReaderAlone DEF Leave
<1>2. LockInv' /\ lock'.writer = lock.writer
  BY LockKept DEF IInv, Leave
<1>3. PICK p : Early(p) /\ pc' = [pc EXCEPT ![c] = p]
  BY OnwardEarly, IdleEarly DEF IInv, Leave, SnapshotTaken, Changed, Passed, Refused
<1>4. PcInv' /\ ~Late(c)' /\ \A d \in Clients \ {c} : pc'[d] = pc[d]
  BY <1>2, <1>3, PcMoves DEF IInv
<1>5. ~AtWork /\ \A d \in Clients : ~Late(d)
  BY <1>1, NoneLate
<1>6. SwapInv' /\ ~AtWork'
  BY <1>4, <1>5, QuietSwap DEF Late
<1>7. Opens(Served)
  BY <1>1, <1>5 DEF IInv, ServedInv
<1>8. DiskType' /\ Opens(Served') /\ AckedInv'
  <2>1. CASE Commit
    BY <2>1, CommitServes DEF IInv, AckedInv, AcknowledgedHeld, Opens
  <2>2. CASE UNCHANGED <<disk, acked>>
    BY <1>7, <2>2, FilesStay DEF Opens
  <2> QED
    BY <2>1, <2>2 DEF Leave, SnapshotTaken, Changed, Passed, Refused
<1>9. SnapsInv'
  <2>1. \A file \in Snapshots : file.kind # "stuck"
    BY <1>7 DEF Snapshots, Opens, NoFile, Odd
  <2>2. CASE SnapshotTaken(c)
    BY <2>1, <2>2 DEF IInv, SnapsInv, SnapshotTaken
  <2>3. CASE UNCHANGED snaps
    BY <2>3 DEF IInv, SnapsInv
  <2> QED
    BY <2>2, <2>3 DEF Leave, Changed, Passed, Refused
<1>10. ServedInv'
  BY <1>8 DEF ServedInv, Opens
<1> QED
  BY <1>1, <1>2, <1>4, <1>6, <1>8, <1>9, <1>10 DEF IInv, DownInv

LEMMA RetentionIInv ==
  ASSUME IInv, NEW name \in Names, Retention(name)
  PROVE  IInv'
<1>1. SnapsInv'
  BY DEF IInv, SnapsInv, Retention, NoFile, Odd
<1>2. DiskType' /\ ServedInv' /\ SwapInv' /\ AckedInv'
  BY QuietStep DEF Retention
<1>3. PcInv' /\ LockInv' /\ DownInv'
  BY DEF IInv, PcInv, LockInv, DownInv, Retention, Late, Section
<1> QED
  BY <1>1, <1>2, <1>3 DEF IInv

LEMMA ProvisionIInv ==
  ASSUME IInv, NEW c \in Clients, Provision(c)
  PROVE  IInv'
<1>1. lock.writer = c /\ proc.run # "down" /\ proc' = proc
  BY NotDown DEF Provision
<1>2. LockInv' /\ lock'.writer = None
  BY LockKept DEF IInv, Provision
<1>3. PcInv' /\ ~Late(c)' /\ \A d \in Clients \ {c} : pc'[d] = pc[d]
  BY <1>1, OnwardEarly, PcMoves DEF IInv, Provision
<1>4. \A d \in Clients : ~Late(d)
  BY <1>1 DEF IInv, PcInv, Provision
<1>5. ~AtWork
  BY <1>4 DEF AtWork, Late
<1>6. SwapInv' /\ ~AtWork'
  BY <1>3, <1>4, QuietSwap DEF Late
<1>7. Opens(Served)
  BY <1>1, <1>5 DEF IInv, ServedInv
<1>8. DiskType' /\ Opens(Served') /\ AckedInv'
  <2>1. CASE Commit
    BY <2>1, CommitServes DEF IInv, AckedInv, AcknowledgedHeld, Opens
  <2>2. CASE UNCHANGED <<disk, acked>>
    BY <1>7, <2>2, FilesStay DEF Opens
  <2> QED
    BY <2>1, <2>2 DEF Provision
<1>9. ServedInv'
  BY <1>8 DEF ServedInv, Opens
<1> QED
  BY <1>1, <1>2, <1>3, <1>6, <1>8, <1>9 DEF IInv, DownInv, SnapsInv, Provision

-----------------------------------------------------------------------------
(* The steps of a restore.                                                 *)

LEMMA RestoreCheckIInv ==
  ASSUME IInv, NEW c \in Clients, RestoreCheck(c)
  PROVE  IInv'
<1>1. proc.run # "down" /\ proc' = proc /\ lock' = lock
  BY SectionNotIdle, NotDown DEF RestoreCheck
<1>2. PcInv' /\ ~Late(c)' /\ \A d \in Clients \ {c} : pc'[d] = pc[d]
  <2>1. CASE Step(c, "checked")
    BY <1>1, <2>1, PcSteps DEF IInv, RestoreCheck, Late, Steps
  <2>2. CASE pc' = [pc EXCEPT ![c] = Idle]
    BY <1>1, <2>2, PcMoves, IdleEarly DEF IInv
  <2> QED
    BY <2>1, <2>2 DEF RestoreCheck
<1>3. ~Late(c)
  BY DEF RestoreCheck, Late
<1>4. DiskType' /\ ServedInv' /\ SwapInv' /\ AckedInv'
  BY <1>2, <1>3, QuietStep DEF RestoreCheck, Late
<1> QED
  BY <1>1, <1>2, <1>4 DEF IInv, LockInv, DownInv, SnapsInv, RestoreCheck

\* A restore at work: it holds the lock, so nobody else is late.
LEMMA Alone ==
  ASSUME IInv, NEW c \in Clients, lock.writer = c
  PROVE  proc.run # "down" /\ \A d \in Clients \ {c} : ~Late(d)
  BY NotDown, OnlyWriterLate DEF IInv

\* What it gives up or completes leaves nobody late.
LEMMA Ends ==
  ASSUME IInv, NEW c \in Clients, lock.writer = c, NEW p, Early(p),
         pc' = [pc EXCEPT ![c] = p], Unlock
  PROVE  LockInv' /\ PcInv' /\ SwapInv' /\ ~AtWork'
<1>1. LockInv' /\ lock'.writer = None
  BY LockKept DEF IInv
<1>2. PcInv' /\ ~Late(c)' /\ \A d \in Clients \ {c} : pc'[d] = pc[d]
  BY PcMoves DEF IInv
<1>3. \A d \in Clients : ~Late(d)'
  BY <1>2, Alone DEF Late
<1> QED
  BY <1>1, <1>2, <1>3, QuietSwap

\* What it knows after a step is all that is known.
LEMMA Goes ==
  ASSUME IInv, NEW c \in Clients, NEW s \in Steps \ {"begin", "checked"}, lock.writer = c,
         Section(c) = "swap", Step(c, s), UNCHANGED lock,
         disk'.safety = acked',
         s = "saved" => Served' = acked',
         s # "saved" => disk'.wal = NoWal,
         s \in {"closed", "undone"} => disk'.main = acked',
         s = "copied" => disk'.main.kind # "stuck"
  PROVE  /\ LockInv' /\ PcInv' /\ SwapInv'
         /\ AtWork' <=> s \in {"copying", "copied", "undo", "undone"}
<1>1. PcInv' /\ pc'[c].step = s /\ \A d \in Clients \ {c} : pc'[d] = pc[d]
  BY PcSteps DEF IInv
<1>2. \A d \in Clients \ {c} : ~Late(d)'
  BY <1>1, Alone DEF Late
<1>3. LockInv'
  BY DEF IInv, LockInv
<1>4. AtWork' <=> s \in {"copying", "copied", "undo", "undone"}
  BY <1>1, <1>2 DEF AtWork, Late
<1>5. SwapInv'
  BY <1>1, <1>2 DEF SwapInv, Late
<1> QED
  BY <1>1, <1>3, <1>4, <1>5

LEMMA RestoreSafetyIInv ==
  ASSUME IInv, NEW c \in Clients, RestoreSafety(c)
  PROVE  IInv'
<1>1. PICK file \in Snapshots :
        /\ disk' = [disk EXCEPT !.safety = file]
        /\ IF file = Served THEN Step(c, "saved") /\ UNCHANGED lock ELSE GiveUp(c)
  BY DEF RestoreSafety
<1>2. /\ lock.writer = c /\ Section(c) = "swap" /\ pc[c].step = "checked"
      /\ proc.run # "down" /\ proc' = proc /\ snaps' = snaps
  BY Alone DEF RestoreSafety, Swapping
<1>3. ~AtWork
  BY <1>2, Alone DEF AtWork, Late
<1>4. Opens(Served)
  BY <1>2, <1>3 DEF IInv, ServedInv
<1>5. disk' = [main |-> disk.main, wal |-> disk.wal, safety |-> file]
  BY <1>1 DEF IInv, DiskType
<1>6. DiskType' /\ Served' = Served /\ disk'.safety = file
  BY <1>5 DEF DiskType, Served
<1>7. acked' = Served
  BY DEF RestoreSafety, IInv, AckedInv, AcknowledgedHeld, Opens, NoFile, Odd
<1>8. AckedInv'
  BY <1>4, <1>6, <1>7 DEF AckedInv, AcknowledgedHeld, Opens
<1>9. LockInv' /\ PcInv' /\ SwapInv' /\ ~AtWork'
  <2>1. CASE file = Served
    BY <1>1, <1>2, <1>6, <1>7, <2>1, Goes DEF Steps
  <2>2. CASE file # Served
    BY <1>1, <1>2, <2>2, Ends, IdleEarly DEF GiveUp
  <2> QED
    BY <2>1, <2>2
<1>10. ServedInv'
  BY <1>4, <1>6 DEF ServedInv, Opens
<1> QED
  BY <1>2, <1>6, <1>8, <1>9, <1>10 DEF IInv, DownInv, SnapsInv

LEMMA RestoreCloseIInv ==
  ASSUME IInv, NEW c \in Clients, RestoreClose(c)
  PROVE  IInv'
<1>1. /\ lock.writer = c /\ Section(c) = "swap" /\ pc[c].step = "saved"
      /\ proc.run # "down" /\ proc' = proc /\ snaps' = snaps /\ acked' = acked
  BY Alone DEF RestoreClose, Swapping
<1>2. ~AtWork
  BY <1>1, Alone DEF AtWork, Late
<1>3. Opens(Served) /\ Served = acked /\ disk.safety = acked
  BY <1>1, <1>2 DEF IInv, ServedInv, SwapInv, Late
<1>4. CASE disk' = Checkpointed /\ Step(c, "closed") /\ UNCHANGED lock
  <2>1. /\ DiskType' /\ Served' = Served
        /\ disk'.main = Served /\ disk'.wal = NoWal /\ disk'.safety = disk.safety
    BY <1>4, CheckpointServes DEF IInv
  <2>2. LockInv' /\ PcInv' /\ SwapInv' /\ ~AtWork'
    BY <1>1, <1>3, <1>4, <2>1, Goes DEF Steps
  <2> QED
    BY <1>1, <1>3, <2>1, <2>2
    DEF IInv, DownInv, SnapsInv, ServedInv, AckedInv, AcknowledgedHeld, Opens
<1>5. CASE GiveUp(c) /\ UNCHANGED disk
  <2>1. LockInv' /\ PcInv' /\ SwapInv' /\ ~AtWork'
    BY <1>1, <1>5, Ends, IdleEarly DEF GiveUp
  <2>2. DiskType' /\ AckedInv' /\ Served' = Served
    BY <1>1, <1>5, FilesStay
  <2> QED
    BY <1>1, <1>3, <2>1, <2>2 DEF IInv, DownInv, SnapsInv, ServedInv, Opens
<1> QED
  BY <1>4, <1>5 DEF RestoreClose

LEMMA RestoreTruncateIInv ==
  ASSUME IInv, NEW c \in Clients, RestoreTruncate(c)
  PROVE  IInv'
<1>1. /\ lock.writer = c /\ Section(c) = "swap" /\ pc[c].step = "closed"
      /\ proc.run # "down" /\ UNCHANGED <<proc, snaps, acked, lock>>
  BY Alone DEF RestoreTruncate, Swapping
<1>2. disk.safety = acked /\ disk.wal = NoWal
  BY <1>1 DEF IInv, SwapInv, Late
<1>3. DiskType' /\ disk'.safety = disk.safety /\ disk'.wal = NoWal
  <2>1. CASE disk' = [disk EXCEPT !.main = Odd("empty"), !.wal = NoWal]
    <3>1. disk' = [main |-> Odd("empty"), wal |-> NoWal, safety |-> disk.safety]
      BY <2>1, Zenon DEF IInv, DiskType
    <3> QED
      BY <3>1 DEF DiskType
  <2>2. CASE disk' = disk
    BY <1>2, <2>2 DEF IInv, DiskType
  <2> QED
    BY <2>1, <2>2 DEF RestoreTruncate
<1>4. LockInv' /\ PcInv' /\ SwapInv' /\ AtWork'
  <2>1. CASE Step(c, "undo")
    BY <1>1, <1>2, <1>3, <2>1, Goes DEF Steps
  <2>2. CASE Step(c, "copying")
    BY <1>1, <1>2, <1>3, <2>2, Goes DEF Steps
  <2> QED
    BY <2>1, <2>2 DEF RestoreTruncate
<1> QED
  BY <1>1, <1>2, <1>3, <1>4
  DEF IInv, DownInv, SnapsInv, ServedInv, AckedInv, AcknowledgedHeld, Opens

\* The file restored is a backup, or an upload that does not get stuck.
LEMMA SourceNotStuck ==
  ASSUME IInv, "stuck" \notin Uploads, NEW c \in Clients, Section(c) = "swap"
  PROVE  Source(c).kind # "stuck"
<1>1. pc[c] \in Place /\ pc[c].at \in 1..Len(Sections(pc[c].kind))
  <2>1. pc[c] \in Place /\ pc[c].at <= Len(Sections(pc[c].kind))
    BY DEF IInv, PcInv
  <2>2. Len(Sections(pc[c].kind)) \in Nat /\ pc[c].at \in Nat \ {0}
    BY <2>1, SectionsOf DEF Place
  <2> QED
    BY <2>1, <2>2
<1>2. pc[c].kind = "restore"
  BY <1>1, SectionsOf DEF Section, Place
<1>3. pc[c].src \in Names \cup Uploads
  BY <1>2 DEF IInv, PcInv
<1> QED
  BY <1>3 DEF Source, IInv, SnapsInv, Odd

LEMMA RestoreCopyIInv ==
  ASSUME IInv, "stuck" \notin Uploads, NEW c \in Clients, RestoreCopy(c)
  PROVE  IInv'
<1>1. /\ lock.writer = c /\ Section(c) = "swap" /\ pc[c].step = "copying"
      /\ proc.run # "down" /\ UNCHANGED <<proc, snaps, acked, lock>>
  BY Alone DEF RestoreCopy, Swapping
<1>2. disk.safety = acked /\ disk.wal = NoWal
  BY <1>1 DEF IInv, SwapInv, Late
<1>3. PICK file :
        /\ disk' = [disk EXCEPT !.main = file]
        /\ \/ file = Source(c) /\ Step(c, "copied")
           \/ Step(c, "undo")
  BY DEF RestoreCopy
<1>4. disk' = [main |-> file, wal |-> disk.wal, safety |-> disk.safety]
  BY <1>3 DEF IInv, DiskType
<1>5. DiskType' /\ disk'.main = file /\ disk'.safety = acked /\ disk'.wal = NoWal
  BY <1>2, <1>4 DEF DiskType
<1>6. LockInv' /\ PcInv' /\ SwapInv' /\ AtWork'
  <2>1. CASE file = Source(c) /\ Step(c, "copied")
    BY <1>1, <1>5, <2>1, SourceNotStuck, Goes DEF Steps
  <2>2. CASE Step(c, "undo")
    BY <1>1, <1>5, <2>2, Goes DEF Steps
  <2> QED
    BY <1>3, <2>1, <2>2
<1> QED
  BY <1>1, <1>5, <1>6
  DEF IInv, DownInv, SnapsInv, ServedInv, AckedInv, AcknowledgedHeld, Opens

LEMMA RestoreOpenIInv ==
  ASSUME IInv, NEW c \in Clients, RestoreOpen(c)
  PROVE  IInv'
<1>1. /\ lock.writer = c /\ Section(c) = "swap" /\ pc[c].step = "copied"
      /\ proc.run # "down" /\ UNCHANGED <<proc, snaps>>
  BY Alone DEF RestoreOpen, Swapping
<1>2. disk.safety = acked /\ disk.wal = NoWal /\ disk.main.kind # "stuck"
  BY <1>1 DEF IInv, SwapInv, Late
<1>3. Served = disk.main
  BY <1>2 DEF Served, Overlay, NoWal
<1>4. CASE /\ Opens(Served) /\ acked' = disk.main /\ disk' = [disk EXCEPT !.safety = NoFile]
           /\ pc' = [pc EXCEPT ![c] = Onward(c)] /\ Unlock
  <2>1. disk' = [main |-> disk.main, wal |-> disk.wal, safety |-> NoFile]
    BY <1>4 DEF IInv, DiskType
  <2>2. DiskType' /\ Served' = disk.main
    BY <1>2, <2>1 DEF DiskType, Served, Overlay, NoWal
  <2>3. LockInv' /\ PcInv' /\ SwapInv' /\ ~AtWork'
    BY <1>1, <1>4, OnwardEarly, Ends DEF IInv
  <2> QED
    BY <1>1, <1>3, <1>4, <2>2, <2>3
    DEF IInv, DownInv, SnapsInv, ServedInv, AckedInv, AcknowledgedHeld, Opens
<1>5. CASE Step(c, "undo") /\ UNCHANGED <<lock, acked>> /\ disk' = disk
  <2>1. LockInv' /\ PcInv' /\ SwapInv' /\ AtWork'
    BY <1>1, <1>2, <1>5, Goes DEF Steps
  <2> QED
    BY <1>1, <1>5, <2>1, FilesStay DEF IInv, DownInv, SnapsInv, ServedInv
<1>6. disk.main # Odd("stuck")
  BY <1>2 DEF Odd
<1> QED
  BY <1>4, <1>5, <1>6 DEF RestoreOpen

LEMMA RollbackCopyIInv ==
  ASSUME IInv, NEW c \in Clients, RollbackCopy(c)
  PROVE  IInv'
<1>1. /\ lock.writer = c /\ Section(c) = "swap" /\ pc[c].step = "undo"
      /\ proc.run # "down" /\ UNCHANGED <<proc, snaps, acked, lock>>
  BY Alone DEF RollbackCopy, Swapping
<1>2. disk.safety = acked /\ disk.wal = NoWal
  BY <1>1 DEF IInv, SwapInv, Late
<1>3. disk' = [main |-> disk.safety, wal |-> disk.wal, safety |-> disk.safety]
  BY DEF RollbackCopy, IInv, DiskType
<1>4. DiskType' /\ disk'.main = acked /\ disk'.safety = acked /\ disk'.wal = NoWal
  BY <1>2, <1>3 DEF DiskType
<1>5. LockInv' /\ PcInv' /\ SwapInv' /\ AtWork'
  BY <1>1, <1>4, Goes DEF RollbackCopy, Steps
<1> QED
  BY <1>1, <1>4, <1>5
  DEF IInv, DownInv, SnapsInv, ServedInv, AckedInv, AcknowledgedHeld, Opens

LEMMA RollbackOpenIInv ==
  ASSUME IInv, NEW c \in Clients, RollbackOpen(c)
  PROVE  IInv'
<1>1. /\ lock.writer = c /\ Section(c) = "swap" /\ pc[c].step = "undone" /\ Opens(Served)
      /\ proc.run # "down" /\ UNCHANGED <<proc, snaps, acked>>
  BY Alone DEF RollbackOpen, Swapping
<1>2. disk.wal = NoWal /\ disk.main = acked
  BY <1>1 DEF IInv, SwapInv, Late
<1>3. disk' = [main |-> disk.main, wal |-> disk.wal, safety |-> NoFile]
  BY DEF RollbackOpen, IInv, DiskType
<1>4. DiskType' /\ Served' = acked /\ Opens(acked)
  BY <1>2, <1>3 DEF DiskType, Served, Overlay, NoWal, IInv, AckedInv
<1>5. LockInv' /\ PcInv' /\ SwapInv' /\ ~AtWork'
  BY <1>1, IdleEarly, Ends DEF RollbackOpen, GiveUp
<1> QED
  BY <1>1, <1>4, <1>5
  DEF IInv, DownInv, SnapsInv, ServedInv, AckedInv, AcknowledgedHeld, Opens

-----------------------------------------------------------------------------
(* The process.                                                            *)

LEMMA NothingRuns ==
  lock = Free /\ pc = [c \in Clients |-> Idle] => LockInv /\ PcInv /\ SwapInv /\ ~AtWork
<1> SUFFICES ASSUME lock = Free, pc = [c \in Clients |-> Idle]
             PROVE  LockInv /\ PcInv /\ SwapInv /\ ~AtWork
  OBVIOUS
<1>1. \A c \in Clients : ~Late(c) /\ pc[c] = Idle
  BY DEF Late, Idle
<1>2. SwapInv /\ ~AtWork
  BY <1>1 DEF SwapInv, AtWork, Late
<1>3. PcInv
  BY <1>1, IdleEarly DEF PcInv, Early, Placed
<1>4. LockInv
  BY DEF LockInv, Free
<1> QED
  BY <1>2, <1>3, <1>4

\* Everything in memory goes; what the files held is still acknowledged.
LEMMA GoesDown ==
  ASSUME IInv, Down, proc'.run = "down", proc' = [run |-> proc'.run, crashes |-> proc'.crashes],
         DiskType', acked \in {Served', disk'.safety}
  PROVE  IInv'
<1>1. (lock = Free /\ pc = [c \in Clients |-> Idle])'
  BY DEF Down
<1>2. LockInv' /\ PcInv' /\ SwapInv' /\ ~AtWork'
  BY <1>1, NothingRuns, PTL
<1>3. DownInv'
  BY DEF DownInv, Down
<1>4. AckedInv'
  BY DEF IInv, AckedInv, AcknowledgedHeld, Down, Opens
<1> QED
  BY <1>2, <1>3, <1>4 DEF IInv, SnapsInv, ServedInv, Down

LEMMA CrashIInv ==
  ASSUME IInv, Crash
  PROVE  IInv'
<1>1. DiskType' /\ acked \in {Served', disk'.safety}
  BY DEF Crash, IInv, DiskType, AckedInv, AcknowledgedHeld, Served
<1> QED
  BY <1>1, GoesDown DEF Crash

LEMMA RollbackFailsIInv ==
  ASSUME IInv, NEW c \in Clients, RollbackFails(c)
  PROVE  IInv'
<1>1. disk.safety = acked
  BY DEF RollbackFails, Swapping, IInv, SwapInv, Late
<1>2. CASE disk' = [disk EXCEPT !.main = Odd("cut")]
  <2>1. disk' = [main |-> Odd("cut"), wal |-> disk.wal, safety |-> disk.safety]
    BY <1>2 DEF IInv, DiskType
  <2> QED
    BY <1>1, <2>1, GoesDown DEF RollbackFails, IInv, DownInv, DiskType
<1>3. CASE UNCHANGED disk
  BY <1>1, <1>3, GoesDown DEF RollbackFails, IInv, DownInv, DiskType
<1> QED
  BY <1>2, <1>3 DEF RollbackFails

LEMMA ExitIInv ==
  ASSUME IInv, Exit
  PROVE  IInv'
<1>1. DiskType' /\ Served' = Served /\ disk'.safety = disk.safety
  <2>1. CASE disk' = Checkpointed
    BY <2>1, CheckpointServes DEF IInv
  <2>2. CASE disk' = disk
    BY <2>2 DEF IInv, DiskType, Served
  <2> QED
    BY <2>1, <2>2 DEF Exit
<1> QED
  BY <1>1, GoesDown DEF Exit, IInv, DownInv, AckedInv, AcknowledgedHeld

LEMMA ShutdownIInv ==
  ASSUME IInv, Shutdown
  PROVE  IInv'
<1>1. DiskType' /\ ServedInv' /\ SwapInv' /\ AckedInv'
  BY QuietStep DEF Shutdown
<1>2. LockInv' /\ PcInv' /\ SnapsInv'
  BY DEF IInv, LockInv, PcInv, SnapsInv, Shutdown, Late, Section
<1>3. DownInv'
  BY DEF IInv, DownInv, Shutdown
<1> QED
  BY <1>1, <1>2, <1>3 DEF IInv

\* An empty file is what a restore left that was cut short: what was
\* acknowledged is in the safety copy, and stays there.
LEMMA StartIInv ==
  ASSUME IInv, Start
  PROVE  IInv'
<1>1. LockInv' /\ PcInv' /\ SnapsInv'
  BY DEF IInv, LockInv, PcInv, SnapsInv, Start, Late, Section
<1>2. \A c \in Clients : ~Late(c)'
  BY DEF Start, IInv, DownInv, Late, Idle
<1>3. SwapInv' /\ ~AtWork'
  BY <1>2, QuietSwap
<1>4. DownInv'
  BY DEF IInv, DownInv, Start
<1>5. CASE Opens(Served) /\ UNCHANGED disk
  <2>1. DiskType' /\ AckedInv' /\ Served' = Served
    BY <1>5, FilesStay DEF Start
  <2> QED
    BY <1>1, <1>3, <1>4, <1>5, <2>1 DEF IInv, ServedInv, Opens
<1>6. CASE Served.kind = "empty" /\ disk' = Committed(made + 1)
  <2> DEFINE v == made + 1
             w == [base |-> disk.main, to |-> Db(v)]
  <2>1. disk' = [main |-> disk.main, wal |-> w, safety |-> disk.safety]
    BY <1>6, Zenon DEF Committed, IInv, DiskType
  <2>2. Db(v) # NoFile /\ Opens(Db(v))
    BY DEF Db, NoFile, Odd, Opens
  <2>3. DiskType' /\ Served' = Db(v) /\ disk'.safety = disk.safety
    BY <2>1, <2>2 DEF DiskType, Served, Overlay
  <2>4. acked = disk.safety /\ acked' = acked
    BY <1>6 DEF IInv, AckedInv, AcknowledgedHeld, Opens, Start
  <2>5. AckedInv'
    BY <2>3, <2>4 DEF IInv, AckedInv, AcknowledgedHeld, Opens
  <2> QED
    BY <1>1, <1>3, <1>4, <2>2, <2>3, <2>5 DEF IInv, ServedInv, Opens
<1> QED
  BY <1>5, <1>6 DEF Start

-----------------------------------------------------------------------------

LEMMA InitIInv == Init => IInv
<1> SUFFICES ASSUME Init PROVE IInv
  OBVIOUS
<1>1. LockInv /\ PcInv /\ SwapInv /\ ~AtWork
  BY NothingRuns DEF Init
<1>2. disk.main = Db(1) /\ disk.wal = NoWal /\ DiskType
  BY DEF Init, DiskType
<1>3. Served = Db(1) /\ Opens(Db(1)) /\ acked = Db(1)
  BY <1>2 DEF Init, Served, Overlay, NoWal, Opens, Db
<1>4. SnapsInv
  BY DEF Init, SnapsInv, NoFile, Odd
<1>5. DownInv
  BY DEF Init, DownInv
<1> QED
  BY <1>1, <1>2, <1>3, <1>4, <1>5 DEF IInv, ServedInv, AckedInv, AcknowledgedHeld

LEMMA StepIInv ==
  ASSUME "stuck" \notin Uploads, IInv, [Next]_vars
  PROVE  IInv'
<1>1. ASSUME NEW c \in Clients, NEW kind \in Kinds, NEW src \in Names \cup Uploads \cup {None},
             Arrive(c, kind, src)
      PROVE  IInv'
  BY <1>1, ArriveIInv
<1>2. ASSUME NEW c \in Clients, Enter(c) \/ Leave(c) \/ Acquire(c) \/ Provision(c) \/ Announce(c)
      PROVE  IInv'
  BY <1>2, EnterIInv, LeaveIInv, AcquireIInv, ProvisionIInv, AnnounceIInv
<1>3. ASSUME NEW c \in Clients, Swap(c) PROVE IInv'
  BY <1>3, RestoreCheckIInv, RestoreSafetyIInv, RestoreCloseIInv, RestoreTruncateIInv,
     RestoreCopyIInv, RestoreOpenIInv, RollbackCopyIInv, RollbackOpenIInv, RollbackFailsIInv
  DEF Swap
<1>4. ASSUME NEW name \in Names, Retention(name) PROVE IInv'
  BY <1>4, RetentionIInv
<1>5. CASE Crash \/ Shutdown \/ Exit \/ Start
  BY <1>5, CrashIInv, ShutdownIInv, ExitIInv, StartIInv
<1>6. CASE UNCHANGED vars
  <2>1. DiskType' /\ ServedInv' /\ SwapInv' /\ AckedInv'
    BY <1>6, QuietStep DEF vars
  <2>2. LockInv' /\ PcInv' /\ DownInv' /\ SnapsInv'
    BY <1>6 DEF vars, IInv, LockInv, PcInv, DownInv, SnapsInv, Late, Section
  <2> QED
    BY <2>1, <2>2 DEF IInv
<1> QED
  BY <1>1, <1>2, <1>3, <1>4, <1>5, <1>6 DEF Next, Proceed

\* The invariant of the files and of the lock holds in every reachable state,
\* whatever requests, restores, crashes and shutdowns cross (api/utility.go,
\* api/middleware.go, main.go).
THEOREM ServerInvariant ==
  ASSUME "stuck" \notin Uploads
  PROVE  Spec => []IInv
<1>1. IInv /\ [Next]_vars => IInv'
  BY StepIInv
<1> QED
  BY <1>1, InitIInv, PTL DEF Spec

\* What was last acknowledged is on disk at every moment of a restore, after a
\* crash at any step of one and after any number of restarts: it is what the
\* file holds with its log, or the safety copy (handleRestore).
THEOREM ServerAcknowledgedHeld ==
  ASSUME "stuck" \notin Uploads
  PROVE  Spec => []AcknowledgedHeld
<1>1. IInv => AcknowledgedHeld
  BY DEF IInv, AckedInv
<1> QED
  BY <1>1, ServerInvariant, PTL

\* Where no safety copy is left behind, the process serves what was
\* acknowledged: a restore that failed was rolled back (api/utility.go:300).
THEOREM ServerServesAcknowledged ==
  ASSUME "stuck" \notin Uploads
  PROVE  Spec => []ServesAcknowledged
<1>1. IInv => ServesAcknowledged
  BY DEF IInv, AckedInv, AcknowledgedHeld, ServesAcknowledged, Opens, NoFile, Odd
<1> QED
  BY <1>1, ServerInvariant, PTL

-----------------------------------------------------------------------------
(* Users, sessions and members: types.                                     *)

Seen == [admins : SUBSET Users, orgAdmins : [Orgs -> SUBSET Users]]

Request ==
  [op : {"idle"}]
    \cup [op : {"login"}, user : Users, version : Nat, auth : Nat]
    \cup [op : {"renew"}, token : Token, version : Nat]
    \cup [op : {"update"}, user : Users, role : {"admin", "user", Absent},
          active : {"yes", "no", Absent}, password : BOOLEAN, seen : Seen]
    \cup [op : {"delete"}, user : Users, seen : Seen]
    \cup [op : {"found"}, user : Users, org : Orgs]
    \cup [op : {"members"}, org : Orgs, user : Users, role : OrgRoles \cup {Absent}]

AccessTyped ==
  /\ users \in [Users -> User]
  /\ members \in [Orgs -> [Users -> Roles \cup {Absent}]]
  /\ live \subseteq Orgs
  /\ tokens \subseteq Token
  /\ clock \in Nat
  /\ req \in [Callers -> Request]

-----------------------------------------------------------------------------
(* Sessions.                                                               *)

\* The stored version counts the sign-outs and password changes.
VersionCounts == \A u \in Users : users[u].version = users[u].auth

\* A token was signed with the version of its user at the time it goes back
\* to, and not long after its user signed in.
Sound(t) == t.version = t.auth /\ t.start = t.since /\ t.issued < t.start + MaxAge

TokensSound == \A t \in tokens : Sound(t)

\* What a parked sign-in or renewal is going to sign, at time now.
SessionSound(r, now) ==
  /\ r.op = "login" => r.version = r.auth
  /\ r.op = "renew" =>
       /\ Sound(r.token) /\ r.version = r.token.version
       /\ now < r.token.start + MaxAge

ParkedSound == \A c \in Callers : SessionSound(req[c], clock)

-----------------------------------------------------------------------------
(* Admins.                                                                 *)

\* Nobody is a member of an organization there is not.
NoMembersWithoutOrg == \A o \in Orgs \ live : \A u \in Users : members[o][u] = Absent

\* The admins seen went on without user u: it was none of them, or not the only.
NotLast(u, admins) == u \in admins => ~(admins \subseteq {u})

\* What a parked change or removal of a user has checked: an admin it takes
\* away is not the only one it saw.
OrgsKept(r) == \A o \in Orgs : NotLast(r.user, r.seen.orgAdmins[o])

Checks(r) ==
  /\ r.op = "update" =>
       /\ r.role = "user" \/ r.active = "no" => NotLast(r.user, r.seen.admins)
       /\ r.active = "no" => OrgsKept(r)
  /\ r.op = "delete" => NotLast(r.user, r.seen.admins) /\ OrgsKept(r)

ParkedChecked == \A c \in Callers : Checks(req[c])

\* The inductive invariant, a part for each variable; no step that changes one
\* variable needs more of the others than their types, but for the parked
\* requests, whose part says what the check that parked them had learned.
UsersInv == users \in [Users -> User] /\ VersionCounts
TokensInv == tokens \subseteq Token /\ TokensSound
MembersInv ==
  /\ live \subseteq Orgs /\ members \in [Orgs -> [Users -> Roles \cup {Absent}]]
  /\ NoMembersWithoutOrg
ReqInv == req \in [Callers -> Request] /\ ParkedSound /\ ParkedChecked

AccessIInv == UsersInv /\ TokensInv /\ MembersInv /\ clock \in Nat /\ ReqInv

-----------------------------------------------------------------------------

LEMMA AccessInitIInv == AccessInit => AccessIInv
<1> SUFFICES ASSUME AccessInit PROVE AccessIInv
  OBVIOUS
<1>1. NoUser \in User /\ [NoUser EXCEPT !.state = "active", !.platform = TRUE] \in User
  BY DEF NoUser, User
<1>2. \A u \in Users : users[u] \in User /\ users[u].version = users[u].auth
  BY <1>1 DEF AccessInit, NoUser
<1>3. AccessTyped
  BY <1>1 DEF AccessInit, AccessTyped, Request, NoRequest
<1>4. ParkedSound /\ ParkedChecked
  BY DEF AccessInit, ParkedSound, ParkedChecked, SessionSound, Checks, NoRequest
<1>5. VersionCounts /\ TokensSound /\ NoMembersWithoutOrg
  BY <1>2 DEF AccessInit, VersionCounts, TokensSound, NoMembersWithoutOrg
<1> QED
  BY <1>3, <1>4, <1>5 DEF AccessIInv, AccessTyped, UsersInv, TokensInv, MembersInv, ReqInv

-----------------------------------------------------------------------------
(* Requests: what is parked and resumed, whatever else a step does.        *)

LEMMA Parks ==
  ASSUME ReqInv, NEW c \in Callers, NEW r \in Request, SessionSound(r, clock), Checks(r),
         Park(c, r), clock' = clock
  PROVE  ReqInv'
  BY DEF ReqInv, Park, ParkedSound, ParkedChecked, SessionSound, Sound, Checks, OrgsKept, NotLast

LEMMA Resumes ==
  ASSUME ReqInv, NEW c \in Callers, req' = [req EXCEPT ![c] = NoRequest], clock' = clock
  PROVE  ReqInv'
<1>1. NoRequest \in Request /\ SessionSound(NoRequest, clock) /\ Checks(NoRequest)
  BY DEF NoRequest, Request, SessionSound, Checks
<1> QED
  BY <1>1 DEF ReqInv, ParkedSound, ParkedChecked, SessionSound, Sound, Checks, OrgsKept, NotLast

LEMMA Stays ==
  ASSUME ReqInv, UNCHANGED <<req, clock>>
  PROVE  ReqInv'
  BY DEF ReqInv, ParkedSound, ParkedChecked, SessionSound, Sound, Checks, OrgsKept, NotLast

-----------------------------------------------------------------------------
(* The other variables.                                                    *)

\* One user's row is replaced.
LEMMA UsersChange ==
  ASSUME UsersInv, NEW u \in Users, NEW r \in User, r.version = r.auth,
         users' = [users EXCEPT ![u] = r]
  PROVE  UsersInv'
  BY DEF UsersInv, VersionCounts

\* One token is signed; some have expired.
LEMMA HoldKeeps ==
  ASSUME TokensInv, NEW t \in Token, Sound(t), Hold(t)
  PROVE  TokensInv'
  BY DEF TokensInv, TokensSound, Hold, Sound

\* One membership is changed, in an organization there is.
LEMMA MembersChange ==
  ASSUME MembersInv, NEW o \in live, NEW u \in Users, NEW role \in Roles \cup {Absent},
         members' = [members EXCEPT ![o][u] = role], live' = live
  PROVE  MembersInv'
  BY DEF MembersInv, NoMembersWithoutOrg

LEMMA UsersStay == ASSUME UsersInv, users' = users PROVE UsersInv'
  BY DEF UsersInv, VersionCounts
LEMMA TokensStay == ASSUME TokensInv, tokens' = tokens PROVE TokensInv'
  BY DEF TokensInv, TokensSound, Sound
LEMMA MembersStay == ASSUME MembersInv, UNCHANGED <<members, live>> PROVE MembersInv'
  BY DEF MembersInv, NoMembersWithoutOrg

\* A checked request leaves another admin, because one is only taken away
\* where more than one was counted.
LEMMA MoreThanOne ==
  ASSUME NEW S, NEW u, u \in S => Cardinality(S) > 1
  PROVE  NotLast(u, S)
<1>1. Cardinality({u}) = 1
  BY FS_Singleton
<1>2. u \in S /\ S \subseteq {u} => S = {u}
  OBVIOUS
<1> QED
  BY <1>1, <1>2 DEF NotLast

-----------------------------------------------------------------------------
(* Sessions, one action at a time.                                         *)

LEMMA LoginReadIInv ==
  ASSUME AccessIInv, NEW c \in Callers, NEW u \in Users, LoginRead(c, u)
  PROVE  AccessIInv'
<1> DEFINE r == [op |-> "login", user |-> u, version |-> users[u].version, auth |-> users[u].auth]
<1>1. r \in Request
  BY DEF AccessIInv, UsersInv, User, Request
<1>2. SessionSound(r, clock) /\ Checks(r)
  BY DEF AccessIInv, UsersInv, VersionCounts, SessionSound, Checks
<1>3. ReqInv'
  BY <1>1, <1>2, Parks DEF AccessIInv, LoginRead
<1> QED
  BY <1>3, UsersStay, TokensStay, MembersStay DEF AccessIInv, LoginRead

LEMMA LoginIssueIInv ==
  ASSUME AccessIInv, NEW c \in Callers, LoginIssue(c)
  PROVE  AccessIInv'
<1> DEFINE t == [user |-> req[c].user, version |-> req[c].version, start |-> clock,
                 issued |-> clock, since |-> clock, auth |-> req[c].auth]
<1>1. req[c] \in Request /\ req[c].op = "login"
  BY DEF AccessIInv, ReqInv, LoginIssue, Resume
<1>2. t \in Token
  BY <1>1 DEF AccessIInv, Request, Token
<1>3. Sound(t)
  BY <1>1, AccessAssumption DEF AccessIInv, ReqInv, ParkedSound, SessionSound, Sound
<1>4. TokensInv'
  BY <1>2, <1>3, HoldKeeps DEF AccessIInv, LoginIssue
<1>5. ReqInv'
  BY Resumes DEF AccessIInv, LoginIssue, Resume
<1> QED
  BY <1>4, <1>5, UsersStay, MembersStay DEF AccessIInv, LoginIssue

LEMMA OidcCallbackIInv ==
  ASSUME AccessIInv, NEW c \in Callers, NEW u \in Users, NEW isAdmin \in BOOLEAN,
         OidcCallback(c, u, isAdmin)
  PROVE  AccessIInv'
<1> DEFINE row == IF Active(u) THEN users[u] ELSE [NoUser EXCEPT !.state = "active"]
           blocked == row.platform /\ ~isAdmin /\ Cardinality(PlatformAdmins) <= 1
           synced == [row EXCEPT !.platform = IF blocked THEN TRUE ELSE isAdmin]
           r == [op |-> "login", user |-> u, version |-> synced.version, auth |-> synced.auth]
<1>1. users[u] \in User /\ users[u].version = users[u].auth
  BY DEF AccessIInv, UsersInv, VersionCounts
<1>2. row \in User /\ row.version = row.auth
  BY <1>1 DEF NoUser, User
<1>3. synced \in User /\ synced.version = synced.auth
<2> HIDE DEF row
<2>1. (IF blocked THEN TRUE ELSE isAdmin) \in BOOLEAN
  OBVIOUS
<2> QED
  BY <1>2, <2>1 DEF User
<1> HIDE DEF synced
<1>4. users' = [users EXCEPT ![u] = synced] /\ Park(c, r)
  BY DEF OidcCallback, synced
<1>5. UsersInv'
  BY <1>3, <1>4, UsersChange DEF AccessIInv
<1>6. r \in Request /\ SessionSound(r, clock) /\ Checks(r)
  BY <1>3 DEF Request, SessionSound, Checks, User
<1>7. ReqInv'
  BY <1>4, <1>6, Parks DEF AccessIInv, OidcCallback
<1> QED
  BY <1>5, <1>7, TokensStay, MembersStay DEF AccessIInv, OidcCallback

\* Signing out and a change of password count in both.
LEMMA Revoking ==
  ASSUME NEW row \in User, row.version = row.auth,
         NEW r, r = [row EXCEPT !.version = @ + 1, !.auth = @ + 1]
  PROVE  r \in User /\ r.version = r.auth
<1> DEFINE n == row.version + 1
           m == row.auth + 1
<1>1. n \in Nat /\ m = n
  BY DEF User
<1> HIDE DEF n, m
<1>2. r = [row EXCEPT !.version = n, !.auth = m]
  BY Zenon DEF n, m
<1>3. r = [state |-> row.state, platform |-> row.platform, version |-> n, auth |-> m]
  BY <1>2, Zenon DEF User
<1> QED
  BY <1>1, <1>3 DEF User

LEMMA LogoutIInv ==
  ASSUME AccessIInv, NEW t \in tokens, Logout(t)
  PROVE  AccessIInv'
<1>1. t.user \in Users
  BY DEF AccessIInv, TokensInv, Token
<1> DEFINE u == t.user
           r == [users[u] EXCEPT !.version = @ + 1, !.auth = @ + 1]
<1>2. users[u] \in User /\ users[u].version = users[u].auth
  BY <1>1 DEF AccessIInv, UsersInv, VersionCounts
<1>3. r \in User /\ r.version = r.auth
  BY <1>2, Revoking
<1>4. users' = users \/ users' = [users EXCEPT ![u] = r]
  BY DEF Logout
<1>5. UsersInv'
  BY <1>1, <1>3, <1>4, UsersChange, UsersStay DEF AccessIInv
<1> QED
  BY <1>5, Stays, TokensStay, MembersStay DEF AccessIInv, Logout

LEMMA AuthenticateIInv ==
  ASSUME AccessIInv, NEW c \in Callers, NEW t \in tokens, Authenticate(c, t)
  PROVE  AccessIInv'
<1> DEFINE r == [op |-> "renew", token |-> t, version |-> users[t.user].version]
<1>1. t \in Token /\ Sound(t)
  BY DEF AccessIInv, TokensInv, TokensSound
<1>2. users[t.user] \in User /\ users[t.user].version = t.version
  BY <1>1 DEF AccessIInv, UsersInv, Token, Authenticate, Accepted
<1>3. r \in Request
  BY <1>1, <1>2 DEF Request, User
<1>4. clock < t.start + MaxAge
  BY <1>1, AccessAssumption DEF Authenticate, AccessIInv, Token
<1>5. SessionSound(r, clock) /\ Checks(r)
  BY <1>1, <1>2, <1>4 DEF SessionSound, Checks
<1>6. ReqInv'
  BY <1>3, <1>5, Parks DEF AccessIInv, Authenticate
<1> QED
  BY <1>6, UsersStay, TokensStay, MembersStay DEF AccessIInv, Authenticate

LEMMA RenewIInv ==
  ASSUME AccessIInv, NEW c \in Callers, Renew(c)
  PROVE  AccessIInv'
<1> DEFINE t == req[c].token
           r == [t EXCEPT !.issued = clock, !.version = req[c].version]
<1>1. req[c] \in Request /\ req[c].op = "renew"
  BY DEF AccessIInv, ReqInv, Renew, Resume
<1>2. t \in Token /\ req[c].version \in Nat
  BY <1>1 DEF Request
<1>3. Sound(t) /\ req[c].version = t.version /\ clock < t.start + MaxAge
  BY <1>1 DEF AccessIInv, ReqInv, ParkedSound, SessionSound
<1> HIDE DEF t
<1>4. r \in Token /\ Sound(r)
  BY <1>2, <1>3 DEF Token, Sound, AccessIInv
<1>5. Hold(r)
  BY DEF Renew, t
<1>6. TokensInv'
  BY <1>4, <1>5, HoldKeeps DEF AccessIInv
<1>7. ReqInv'
  BY Resumes DEF AccessIInv, Renew, Resume
<1> QED
  BY <1>6, <1>7, UsersStay, MembersStay DEF AccessIInv, Renew

LEMMA TickIInv ==
  ASSUME AccessIInv, Tick
  PROVE  AccessIInv'
<1>1. \A c \in Callers : req'[c] = NoRequest
  BY DEF Tick
<1>2. ReqInv'
  BY <1>1 DEF AccessIInv, ReqInv, Tick, ParkedSound, ParkedChecked, SessionSound, Checks, NoRequest
<1>3. clock' \in Nat
  BY DEF Tick, AccessIInv
<1> QED
  BY <1>2, <1>3, UsersStay, TokensStay, MembersStay DEF AccessIInv, Tick

-----------------------------------------------------------------------------
(* Accounts.                                                               *)

LEMMA Activated ==
  ASSUME NEW row \in User, NEW p \in BOOLEAN,
         NEW r, r = [row EXCEPT !.state = "active", !.platform = p]
  PROVE  r = [state |-> "active", platform |-> p, version |-> row.version, auth |-> row.auth]
  BY Zenon DEF User

LEMMA CreateUserIInv ==
  ASSUME AccessIInv, NEW by \in Users, NEW u \in Users, NEW admin \in BOOLEAN, CreateUser(by, u, admin)
  PROVE  AccessIInv'
<1> DEFINE r == [NoUser EXCEPT !.state = "active", !.platform = admin]
<1>1. NoUser \in User /\ NoUser.version = 0 /\ NoUser.auth = 0
  BY DEF NoUser, User
<1>2. r = [state |-> "active", platform |-> admin, version |-> NoUser.version, auth |-> NoUser.auth]
  BY <1>1, Activated
<1>3. r \in User /\ r.version = r.auth
  BY <1>1, <1>2 DEF User
<1>4. UsersInv'
  BY <1>3, UsersChange DEF AccessIInv, CreateUser
<1> QED
  BY <1>4, Stays, TokensStay, MembersStay DEF AccessIInv, CreateUser

\* What a change or a removal checked of the platform and the organizations.
LEMMA CheckedSeen == Checked \in Seen
  BY DEF Checked, Seen, PlatformAdmins, OrgAdmins

\* A user who is the sole admin of no organization is not the only admin seen.
LEMMA NotSoleAdmin ==
  ASSUME AccessIInv, NEW u \in Users, SoleAdminOf(u) = {}, NEW o \in Orgs
  PROVE  NotLast(u, Checked.orgAdmins[o])
<1>1. CASE o \in live
  BY <1>1 DEF SoleAdminOf, Checked, NotLast, OrgAdmins
<1>2. CASE o \notin live
  <2>1. members[o][u] = Absent
    BY <1>2 DEF AccessIInv, MembersInv, NoMembersWithoutOrg
  <2>2. Absent # "admin"
    BY AccessAssumption DEF Roles
  <2> QED
    BY <2>1, <2>2 DEF Checked, NotLast, OrgAdmins
<1> QED
  BY <1>1, <1>2

LEMMA UpdateUserReadIInv ==
  ASSUME AccessIInv, NEW c \in Callers, NEW by \in Users, NEW u \in Users,
         NEW role \in {"admin", "user", Absent}, NEW active \in {"yes", "no", Absent},
         NEW password \in BOOLEAN, UpdateUserRead(c, by, u, role, active, password)
  PROVE  AccessIInv'
<1> DEFINE r == [op |-> "update", user |-> u, role |-> role, active |-> active,
                 password |-> password, seen |-> Checked]
<1>1. r \in Request
  BY CheckedSeen DEF Request
<1>2. ASSUME role = "user" \/ active = "no", u \in PlatformAdmins
      PROVE  Cardinality(PlatformAdmins) > 1
  BY <1>2 DEF UpdateUserRead, PlatformAdmins
<1>3. role = "user" \/ active = "no" => NotLast(u, PlatformAdmins)
  BY <1>2, MoreThanOne
<1>4. ASSUME active = "no", NEW o \in Orgs
      PROVE  NotLast(u, Checked.orgAdmins[o])
  <2>1. CASE Active(u)
    BY <1>4, <2>1, NotSoleAdmin DEF UpdateUserRead
  <2>2. CASE ~Active(u)
    BY <2>2 DEF Checked, OrgAdmins, NotLast
  <2> QED
    BY <2>1, <2>2
<1>5. Checked.admins = PlatformAdmins
  BY DEF Checked
<1>6. SessionSound(r, clock) /\ Checks(r)
  BY <1>3, <1>4, <1>5 DEF SessionSound, Checks, OrgsKept
<1>7. ReqInv'
  BY <1>1, <1>6, Parks DEF AccessIInv, UpdateUserRead
<1> QED
  BY <1>7, UsersStay, TokensStay, MembersStay DEF AccessIInv, UpdateUserRead

\* What the transaction makes of a row.
LEMMA UpdatedRow ==
  ASSUME NEW row \in User, NEW r \in Request, r.op = "update"
  PROVE  /\ Updated(row, r) \in User
         /\ row.version = row.auth => Updated(row, r).version = Updated(row, r).auth
         /\ row.state = "active" /\ r.active # "no" => Updated(row, r).state = "active"
         /\ row.platform /\ r.role # "user" => Updated(row, r).platform
<1> DEFINE state == CASE r.active = "yes" -> "active" [] r.active = "no" -> "inactive"
                      [] OTHER -> row.state
           platform == IF r.role = Absent THEN row.platform ELSE r.role = "admin"
           version == IF r.password THEN row.version + 1 ELSE row.version
           auth == IF r.password THEN row.auth + 1 ELSE row.auth
<1>1. r.active \in {"yes", "no", Absent} /\ r.role \in {"admin", "user", Absent}
  BY DEF Request
<1>2. /\ state \in {"absent", "active", "inactive", "deleted"}
      /\ row.state = "active" /\ r.active # "no" => state = "active"
  BY DEF User
<1>3. platform \in BOOLEAN /\ (row.platform /\ r.role # "user" => platform)
  BY <1>1 DEF User
<1>4. version \in Nat /\ auth \in Nat /\ (row.version = row.auth => version = auth)
  BY DEF User
<1>5. Updated(row, r) =
        [row EXCEPT !.state = state, !.platform = platform, !.version = version, !.auth = auth]
  BY Zenon DEF Updated
<1> HIDE DEF state, platform, version, auth
<1>6. Updated(row, r) =
        [state |-> state, platform |-> platform, version |-> version, auth |-> auth]
  BY <1>5, Zenon DEF User
<1> QED
  BY <1>2, <1>3, <1>4, <1>6 DEF User

LEMMA UpdateUserWriteIInv ==
  ASSUME AccessIInv, NEW c \in Callers, UpdateUserWrite(c)
  PROVE  AccessIInv'
<1> DEFINE u == req[c].user
<1>1. req[c] \in Request /\ req[c].op = "update"
  BY DEF AccessIInv, ReqInv, UpdateUserWrite, Resume
<1>2. u \in Users
  BY <1>1 DEF Request
<1>3. users[u] \in User /\ users[u].version = users[u].auth
  BY <1>2 DEF AccessIInv, UsersInv, VersionCounts
<1> DEFINE r == Updated(users[u], req[c])
<1>4. r \in User /\ r.version = r.auth
  BY <1>1, <1>3, UpdatedRow
<1>5. users' = users \/ users' = [users EXCEPT ![u] = r]
  BY DEF UpdateUserWrite
<1> HIDE DEF r
<1>6. UsersInv'
  BY <1>2, <1>4, <1>5, UsersChange, UsersStay DEF AccessIInv
<1>7. ReqInv'
  BY Resumes DEF AccessIInv, UpdateUserWrite, Resume
<1> QED
  BY <1>6, <1>7, TokensStay, MembersStay DEF AccessIInv, UpdateUserWrite

LEMMA DeleteUserReadIInv ==
  ASSUME AccessIInv, NEW c \in Callers, NEW by \in Users, NEW u \in Users, DeleteUserRead(c, by, u)
  PROVE  AccessIInv'
<1> DEFINE r == [op |-> "delete", user |-> u, seen |-> Checked]
<1>1. r \in Request
  BY CheckedSeen DEF Request
<1>2. NotLast(u, PlatformAdmins)
  BY MoreThanOne DEF DeleteUserRead
<1>3. \A o \in Orgs : NotLast(u, Checked.orgAdmins[o])
  BY NotSoleAdmin DEF DeleteUserRead
<1>4. Checked.admins = PlatformAdmins
  BY DEF Checked
<1>5. SessionSound(r, clock) /\ Checks(r)
  BY <1>2, <1>3, <1>4 DEF SessionSound, Checks, OrgsKept
<1>6. ReqInv'
  BY <1>1, <1>5, Parks DEF AccessIInv, DeleteUserRead
<1> QED
  BY <1>6, UsersStay, TokensStay, MembersStay DEF AccessIInv, DeleteUserRead

LEMMA DeleteUserWriteIInv ==
  ASSUME AccessIInv, NEW c \in Callers, DeleteUserWrite(c)
  PROVE  AccessIInv'
<1> DEFINE u == req[c].user
           r == [users[u] EXCEPT !.state = "deleted"]
<1>1. req[c] \in Request /\ req[c].op = "delete"
  BY DEF AccessIInv, ReqInv, DeleteUserWrite, Resume
<1>2. u \in Users
  BY <1>1 DEF Request
<1>3. users[u] \in User /\ users[u].version = users[u].auth
  BY <1>2 DEF AccessIInv, UsersInv, VersionCounts
<1>4. r \in User /\ r.version = r.auth
  BY <1>3 DEF User
<1>5. users' = users \/ users' = [users EXCEPT ![u] = r]
  BY DEF DeleteUserWrite
<1>6. UsersInv'
  BY <1>2, <1>4, <1>5, UsersChange, UsersStay DEF AccessIInv
<1>7. MembersInv'
  BY DEF AccessIInv, MembersInv, NoMembersWithoutOrg, DeleteUserWrite
<1>8. ReqInv'
  BY Resumes DEF AccessIInv, DeleteUserWrite, Resume
<1> QED
  BY <1>6, <1>7, <1>8, TokensStay DEF AccessIInv, DeleteUserWrite

-----------------------------------------------------------------------------
(* Membership.                                                             *)

LEMMA CreateOrganizationIInv ==
  ASSUME AccessIInv, NEW c \in Callers, NEW by \in Users, NEW o \in Orgs, CreateOrganization(c, by, o)
  PROVE  AccessIInv'
<1> DEFINE r == [op |-> "found", user |-> by, org |-> o]
<1>1. r \in Request /\ SessionSound(r, clock) /\ Checks(r)
  BY DEF Request, SessionSound, Checks
<1>2. ReqInv'
  BY <1>1, Parks DEF AccessIInv, CreateOrganization
<1>3. MembersInv'
  BY DEF AccessIInv, MembersInv, NoMembersWithoutOrg, CreateOrganization
<1> QED
  BY <1>2, <1>3, UsersStay, TokensStay DEF AccessIInv, CreateOrganization

LEMMA AddCreatorIInv ==
  ASSUME AccessIInv, NEW c \in Callers, AddCreator(c)
  PROVE  AccessIInv'
<1>1. req[c] \in Request /\ req[c].op = "found"
  BY DEF AccessIInv, ReqInv, AddCreator, Resume
<1>2. req[c].user \in Users
  BY <1>1 DEF Request
<1>3. "admin" \in Roles \cup {Absent}
  BY DEF Roles
<1>4. MembersInv'
  BY <1>2, <1>3, MembersChange, MembersStay DEF AccessIInv, AddCreator
<1>5. ReqInv'
  BY Resumes DEF AccessIInv, AddCreator, Resume
<1> QED
  BY <1>4, <1>5, UsersStay, TokensStay DEF AccessIInv, AddCreator

LEMMA DeleteOrganizationIInv ==
  ASSUME AccessIInv, NEW by \in Users, NEW o \in Orgs, DeleteOrganization(by, o)
  PROVE  AccessIInv'
<1>1. MembersInv'
  BY DEF AccessIInv, MembersInv, NoMembersWithoutOrg, DeleteOrganization
<1> QED
  BY <1>1, Stays, UsersStay, TokensStay DEF AccessIInv, DeleteOrganization

LEMMA ManageMembersIInv ==
  ASSUME AccessIInv, NEW c \in Callers, NEW by \in Users, NEW o \in Orgs, NEW u \in Users,
         NEW role \in OrgRoles \cup {Absent}, ManageMembers(c, by, o, u, role)
  PROVE  AccessIInv'
<1> DEFINE r == [op |-> "members", org |-> o, user |-> u, role |-> role]
<1>1. r \in Request /\ SessionSound(r, clock) /\ Checks(r)
  BY DEF Request, SessionSound, Checks
<1>2. ReqInv'
  BY <1>1, Parks DEF AccessIInv, ManageMembers
<1> QED
  BY <1>2, UsersStay, TokensStay, MembersStay DEF AccessIInv, ManageMembers

LEMMA WriteMemberIInv ==
  ASSUME AccessIInv, NEW c \in Callers, WriteMember(c)
  PROVE  AccessIInv'
<1>1. req[c] \in Request /\ req[c].op = "members"
  BY DEF AccessIInv, ReqInv, WriteMember, Resume
<1>2. req[c].user \in Users /\ req[c].role \in Roles \cup {Absent}
  BY <1>1, AccessAssumption DEF Request
<1>3. MembersInv'
  BY <1>2, MembersChange DEF AccessIInv, WriteMember
<1>4. ReqInv'
  BY Resumes DEF AccessIInv, WriteMember, Resume
<1> QED
  BY <1>3, <1>4, UsersStay, TokensStay DEF AccessIInv, WriteMember

LEMMA FailIInv ==
  ASSUME AccessIInv, NEW c \in Callers, Fail(c)
  PROVE  AccessIInv'
<1>1. ReqInv'
  BY Resumes DEF AccessIInv, Fail
<1> QED
  BY <1>1, UsersStay, TokensStay, MembersStay DEF AccessIInv, Fail

-----------------------------------------------------------------------------

LEMMA AccessStepIInv == AccessIInv /\ [AccessNext]_accessVars => AccessIInv'
<1> SUFFICES ASSUME AccessIInv, [AccessNext]_accessVars PROVE AccessIInv'
  OBVIOUS
<1>1. CASE Tick
  BY <1>1, TickIInv
<1>2. ASSUME NEW t \in tokens, Logout(t) PROVE AccessIInv'
  BY <1>2, LogoutIInv
<1>3. ASSUME NEW by \in Users, NEW u \in Users, NEW admin \in BOOLEAN, CreateUser(by, u, admin)
      PROVE  AccessIInv'
  BY <1>3, CreateUserIInv
<1>4. ASSUME NEW by \in Users, NEW o \in Orgs, DeleteOrganization(by, o) PROVE AccessIInv'
  BY <1>4, DeleteOrganizationIInv
<1>5. ASSUME NEW c \in Callers,
             LoginIssue(c) \/ Renew(c) \/ UpdateUserWrite(c) \/ DeleteUserWrite(c)
               \/ AddCreator(c) \/ WriteMember(c) \/ Fail(c)
      PROVE  AccessIInv'
  BY <1>5, LoginIssueIInv, RenewIInv, UpdateUserWriteIInv, DeleteUserWriteIInv,
     AddCreatorIInv, WriteMemberIInv, FailIInv
<1>6. ASSUME NEW c \in Callers, NEW t \in tokens, Authenticate(c, t) PROVE AccessIInv'
  BY <1>6, AuthenticateIInv
<1>7. ASSUME NEW c \in Callers, NEW u \in Users, LoginRead(c, u) PROVE AccessIInv'
  BY <1>7, LoginReadIInv
<1>8. ASSUME NEW c \in Callers, NEW u \in Users, NEW isAdmin \in BOOLEAN, OidcCallback(c, u, isAdmin)
      PROVE  AccessIInv'
  BY <1>8, OidcCallbackIInv
<1>9. ASSUME NEW c \in Callers, NEW by \in Users, NEW u \in Users, DeleteUserRead(c, by, u)
      PROVE  AccessIInv'
  BY <1>9, DeleteUserReadIInv
<1>10. ASSUME NEW c \in Callers, NEW by \in Users, NEW u \in Users,
              NEW role \in {"admin", "user", Absent}, NEW active \in {"yes", "no", Absent},
              NEW password \in BOOLEAN, UpdateUserRead(c, by, u, role, active, password)
       PROVE  AccessIInv'
  BY <1>10, UpdateUserReadIInv
<1>11. ASSUME NEW c \in Callers, NEW by \in Users, NEW o \in Orgs, CreateOrganization(c, by, o)
       PROVE  AccessIInv'
  BY <1>11, CreateOrganizationIInv
<1>12. ASSUME NEW c \in Callers, NEW by \in Users, NEW u \in Users, NEW o \in Orgs,
              NEW role \in OrgRoles \cup {Absent}, ManageMembers(c, by, o, u, role)
       PROVE  AccessIInv'
  BY <1>12, ManageMembersIInv
<1>13. CASE UNCHANGED accessVars
  BY <1>13, Stays, UsersStay, TokensStay, MembersStay DEF AccessIInv, accessVars
<1> QED
  BY <1>1, <1>2, <1>3, <1>4, <1>5, <1>6, <1>7, <1>8, <1>9, <1>10, <1>11, <1>12, <1>13 DEF AccessNext

\* Whatever users, organizations and requests there are, the parts of the
\* invariant hold in every reachable state (api/users.go, api/auth.go,
\* api/oidc.go, db/organization_user.go).
THEOREM AccessInvariant == AccessSpec => []AccessIInv
  BY AccessInitIInv, AccessStepIInv, PTL DEF AccessSpec

\* Every variable keeps its type.
THEOREM AccessTypeOK == AccessSpec => []AccessTyped
<1>1. AccessIInv => AccessTyped
  BY DEF AccessIInv, AccessTyped, UsersInv, TokensInv, MembersInv, ReqInv
<1> QED
  BY <1>1, AccessInvariant, PTL

\* No token that goes back to an ended session is accepted, whatever sign-ins,
\* renewals, sign-outs and changes of password overlap: a renewal signs the
\* version that was compared, never one read later (authMiddleware, logout).
THEOREM AccessRevoked == AccessSpec => []RevokedStaysRevoked
<1>1. AccessIInv => RevokedStaysRevoked
  BY DEF AccessIInv, UsersInv, VersionCounts, TokensInv, TokensSound, Sound, Token,
         RevokedStaysRevoked, Accepted
<1> QED
  BY <1>1, AccessInvariant, PTL

\* However often it is renewed, a session is over maxSessionAge and one
\* tokenLifetime after its sign-in (authMiddleware).
THEOREM AccessSessionsEnd == AccessSpec => []SessionsEnd
<1>1. ASSUME AccessIInv, NEW t \in tokens, Accepted(t)
      PROVE  clock < t.since + MaxAge + TokenLife
  <2>1. t \in Token /\ t.start = t.since /\ t.issued < t.start + MaxAge
    BY <1>1 DEF AccessIInv, TokensInv, TokensSound, Sound
  <2>2. clock < t.issued + TokenLife
    BY <1>1 DEF Accepted
  <2> QED
    BY <1>1, <2>1, <2>2, AccessAssumption DEF Token, AccessIInv
<1>2. AccessIInv => SessionsEnd
  BY <1>1 DEF SessionsEnd
<1> QED
  BY <1>2, AccessInvariant, PTL

-----------------------------------------------------------------------------
(* The last admins. A step takes an admin away only by changing a row that *)
(* is one, or a membership; each has looked for another, and what it saw   *)
(* may only have gone where its look was before its transaction.           *)

\* A platform admin whose row a step leaves alone is still one; likewise of an
\* organization, when the membership is left alone too.
LEMMA RowKept ==
  ASSUME NEW u \in Users, users'[u] = users[u]
  PROVE  /\ u \in PlatformAdmins => u \in PlatformAdmins'
         /\ \A o \in Orgs : members'[o][u] = members[o][u] /\ u \in OrgAdmins(o) => u \in OrgAdmins(o)'
  BY DEF PlatformAdmins, OrgAdmins, Active

\* What takes the last admin away had seen another.
LastTaken(S) == S # {} /\ S' = {}
PlatformGuarded ==
  LastTaken(PlatformAdmins) =>
    \E c \in Removing : req'[c] = NoRequest /\ req[c].seen.admins # PlatformAdmins
OrgGuarded(o) ==
  LastTaken(OrgAdmins(o)) =>
    \E c \in Removing : req'[c] = NoRequest /\ req[c].seen.orgAdmins[o] # OrgAdmins(o)
Guarded == PlatformGuarded /\ \A o \in live \cap live' : OrgGuarded(o)

LEMMA UsersAndMembersStay ==
  ASSUME UNCHANGED <<users, members>>
  PROVE  Guarded
  BY DEF Guarded, PlatformGuarded, OrgGuarded, LastTaken, PlatformAdmins, OrgAdmins, Active

LEMMA LogoutGuarded ==
  ASSUME AccessIInv, NEW t \in tokens, Logout(t)
  PROVE  Guarded
<1>1. \A u \in Users : users'[u].state = users[u].state /\ users'[u].platform = users[u].platform
<2>1. t.user \in Users /\ users \in [Users -> User]
  BY DEF AccessIInv, TokensInv, Token, UsersInv
<2> DEFINE r == [users[t.user] EXCEPT !.version = @ + 1, !.auth = @ + 1]
<2>2. r.state = users[t.user].state /\ r.platform = users[t.user].platform
  BY <2>1 DEF User
<2>3. users' = users \/ users' = [users EXCEPT ![t.user] = r]
  BY DEF Logout
<2> HIDE DEF r
<2> QED
  BY <2>1, <2>2, <2>3
<1>2. members' = members
  BY DEF Logout
<1> QED
  BY <1>1, <1>2 DEF Guarded, PlatformGuarded, OrgGuarded, LastTaken, PlatformAdmins, OrgAdmins, Active

LEMMA CreateUserGuarded ==
  ASSUME AccessIInv, NEW by \in Users, NEW u \in Users, NEW admin \in BOOLEAN, CreateUser(by, u, admin)
  PROVE  Guarded
<1>1. \A v \in Users : v # u => users'[v] = users[v]
  BY DEF CreateUser, AccessIInv, UsersInv
<1>2. u \notin PlatformAdmins /\ \A o \in Orgs : u \notin OrgAdmins(o)
  BY DEF CreateUser, PlatformAdmins, OrgAdmins, Active
<1>3. members' = members /\ live \subseteq Orgs
  BY DEF CreateUser, AccessIInv, MembersInv
<1> QED
  BY <1>1, <1>2, <1>3, RowKept
  DEF Guarded, PlatformGuarded, OrgGuarded, LastTaken, PlatformAdmins, OrgAdmins

LEMMA OidcCallbackGuarded ==
  ASSUME AccessIInv, NEW c \in Callers, NEW u \in Users, NEW isAdmin \in BOOLEAN,
         OidcCallback(c, u, isAdmin)
  PROVE  Guarded
<1> DEFINE row == IF Active(u) THEN users[u] ELSE [NoUser EXCEPT !.state = "active"]
           blocked == row.platform /\ ~isAdmin /\ Cardinality(PlatformAdmins) <= 1
           synced == [row EXCEPT !.platform = IF blocked THEN TRUE ELSE isAdmin]
<1>1. row \in User /\ row.state = "active"
  BY DEF AccessIInv, UsersInv, NoUser, User, Active
<1>2. users' = [users EXCEPT ![u] = synced] /\ members' = members
  BY DEF OidcCallback
<1>3. synced.state = "active" /\ synced.platform = (IF blocked THEN TRUE ELSE isAdmin)
<2> HIDE DEF row
<2>1. blocked \in BOOLEAN
  OBVIOUS
<2> HIDE DEF blocked
<2> QED
  BY <1>1, <2>1 DEF User
<1> HIDE DEF synced
<1>4. \A v \in Users : v # u => users'[v] = users[v]
  BY <1>2 DEF AccessIInv, UsersInv
<1>5. users'[u] = synced
  BY <1>2 DEF AccessIInv, UsersInv
<1>6. ASSUME LastTaken(PlatformAdmins) PROVE FALSE
  <2>1. PlatformAdmins = {u}
    BY <1>4, <1>6, RowKept DEF LastTaken, PlatformAdmins
  <2>2. Cardinality(PlatformAdmins) <= 1
    <3>1. Cardinality({u}) = 1
      BY FS_Singleton
    <3> QED
      BY <2>1, <3>1
  <2>3. row = users[u] /\ row.platform
    BY <2>1 DEF PlatformAdmins
  <2> HIDE DEF row
  <2>4. ~isAdmin => blocked
    BY <2>2, <2>3
  <2> HIDE DEF blocked
  <2>5. synced.platform
    BY <1>3, <2>4
  <2>6. u \in PlatformAdmins'
    BY <1>3, <1>5, <2>5 DEF PlatformAdmins, Active
  <2> QED
    BY <1>6, <2>6 DEF LastTaken
<1>7. \A o \in Orgs : u \in OrgAdmins(o) => u \in OrgAdmins(o)'
  BY <1>2, <1>3, <1>5 DEF OrgAdmins, Active
<1>8. \A o \in Orgs : ~LastTaken(OrgAdmins(o))
  BY <1>2, <1>4, <1>7, RowKept DEF LastTaken, OrgAdmins
<1> QED
  BY <1>6, <1>8 DEF Guarded, PlatformGuarded, OrgGuarded, AccessIInv, MembersInv

\* Nobody but the user of the request is touched, so the last admin it takes
\* away is that user, the only one there was; its check had seen another.
LEMMA UpdateUserWriteGuarded ==
  ASSUME AccessIInv, NEW c \in Callers, UpdateUserWrite(c)
  PROVE  Guarded
<1> DEFINE u == req[c].user
           r == Updated(users[u], req[c])
<1>1. /\ req[c] \in Request /\ req[c].op = "update" /\ Checks(req[c])
      /\ c \in Removing /\ req'[c] = NoRequest
  BY DEF AccessIInv, ReqInv, ParkedChecked, UpdateUserWrite, Resume, Removing
<1>2. u \in Users /\ users[u] \in User
  BY <1>1 DEF Request, AccessIInv, UsersInv
<1>3. /\ users[u].state = "active" /\ req[c].active # "no" => r.state = "active"
      /\ users[u].platform /\ req[c].role # "user" => r.platform
  BY <1>1, <1>2, UpdatedRow
<1>4. users' = users \/ users' = [users EXCEPT ![u] = r]
  BY DEF UpdateUserWrite
<1> HIDE DEF r
<1>5. members' = members
  BY DEF UpdateUserWrite
<1>6. \A v \in Users : v # u => users'[v] = users[v]
  BY <1>2, <1>4 DEF AccessIInv, UsersInv
<1>7. users'[u] \in {users[u], r}
  BY <1>2, <1>4 DEF AccessIInv, UsersInv
<1>8. ASSUME LastTaken(PlatformAdmins) PROVE req[c].seen.admins # PlatformAdmins
  <2>1. PlatformAdmins = {u}
    BY <1>6, <1>8, RowKept DEF LastTaken, PlatformAdmins
  <2>2. u \notin PlatformAdmins'
    BY <1>8 DEF LastTaken
  <2>3. req[c].role = "user" \/ req[c].active = "no"
    BY <1>2, <1>3, <1>7, <2>1, <2>2 DEF PlatformAdmins, Active
  <2> QED
    BY <1>1, <2>1, <2>3 DEF Checks, NotLast
<1>9. ASSUME NEW o \in Orgs, LastTaken(OrgAdmins(o)) PROVE req[c].seen.orgAdmins[o] # OrgAdmins(o)
  <2>1. OrgAdmins(o) = {u}
    BY <1>5, <1>6, <1>9, RowKept DEF LastTaken, OrgAdmins
  <2>2. u \notin OrgAdmins(o)'
    BY <1>9 DEF LastTaken
  <2>3. req[c].active = "no"
    BY <1>2, <1>3, <1>5, <1>7, <2>1, <2>2 DEF OrgAdmins, Active
  <2> QED
    BY <1>1, <2>1, <2>3 DEF Checks, OrgsKept, NotLast
<1> QED
  BY <1>1, <1>8, <1>9 DEF Guarded, PlatformGuarded, OrgGuarded, AccessIInv, MembersInv

LEMMA DeleteUserWriteGuarded ==
  ASSUME AccessIInv, NEW c \in Callers, DeleteUserWrite(c)
  PROVE  Guarded
<1> DEFINE u == req[c].user
<1>1. /\ req[c] \in Request /\ req[c].op = "delete" /\ Checks(req[c])
      /\ c \in Removing /\ req'[c] = NoRequest
  BY DEF AccessIInv, ReqInv, ParkedChecked, DeleteUserWrite, Resume, Removing
<1>2. \A v \in Users : v # u => users'[v] = users[v]
  BY DEF AccessIInv, UsersInv, DeleteUserWrite
<1>3. \A o \in Orgs, v \in Users : v # u => members'[o][v] = members[o][v]
  BY DEF AccessIInv, MembersInv, DeleteUserWrite
<1>4. ASSUME LastTaken(PlatformAdmins) PROVE req[c].seen.admins # PlatformAdmins
  <2>1. PlatformAdmins = {u}
    BY <1>2, <1>4, RowKept DEF LastTaken, PlatformAdmins
  <2> QED
    BY <1>1, <2>1 DEF Checks, NotLast
<1>5. ASSUME NEW o \in Orgs, LastTaken(OrgAdmins(o)) PROVE req[c].seen.orgAdmins[o] # OrgAdmins(o)
  <2>1. OrgAdmins(o) = {u}
    BY <1>2, <1>3, <1>5, RowKept DEF LastTaken, OrgAdmins
  <2> QED
    BY <1>1, <2>1 DEF Checks, OrgsKept, NotLast
<1> QED
  BY <1>1, <1>4, <1>5 DEF Guarded, PlatformGuarded, OrgGuarded, AccessIInv, MembersInv

\* An organization that stays keeps its members.
LEMMA DeleteOrganizationGuarded ==
  ASSUME AccessIInv, NEW by \in Users, NEW o \in Orgs, DeleteOrganization(by, o)
  PROVE  Guarded
<1>1. users' = users /\ \A q \in live \cap live' : members'[q] = members[q]
  BY DEF DeleteOrganization, AccessIInv, MembersInv
<1> QED
  BY <1>1 DEF Guarded, PlatformGuarded, OrgGuarded, LastTaken, PlatformAdmins, OrgAdmins, Active

LEMMA AddCreatorGuarded ==
  ASSUME AccessIInv, NEW c \in Callers, AddCreator(c)
  PROVE  Guarded
<1>1. req[c] \in Request /\ req[c].op = "found"
  BY DEF AccessIInv, ReqInv, AddCreator, Resume
<1>2. req[c].user \in Users /\ req[c].org \in Orgs
  BY <1>1 DEF Request
<1>3. \A o \in Orgs, v \in Users : members[o][v] = "admin" => members'[o][v] = "admin"
  BY <1>2 DEF AccessIInv, MembersInv, AddCreator
<1>4. users' = users /\ live \subseteq Orgs
  BY DEF AddCreator, AccessIInv, MembersInv
<1> QED
  BY <1>3, <1>4 DEF Guarded, PlatformGuarded, OrgGuarded, LastTaken, PlatformAdmins, OrgAdmins, Active

\* The admins are read again inside the transaction that changes a member.
LEMMA WriteMemberGuarded ==
  ASSUME AccessIInv, NEW c \in Callers, WriteMember(c)
  PROVE  Guarded
<1>1. req[c] \in Request /\ req[c].op = "members"
  BY DEF AccessIInv, ReqInv, WriteMember, Resume
<1>2. PICK o \in Orgs, u \in Users : o = req[c].org /\ u = req[c].user
  BY <1>1 DEF Request
<1>3. PICK role \in OrgRoles \cup {Absent} : role = req[c].role
  BY <1>1 DEF Request
<1>4. users' = users /\ members' = [members EXCEPT ![o][u] = role]
  BY <1>2, <1>3 DEF WriteMember
<1>5. role = "admin" \/ members[o][u] # "admin" \/ ~(OrgAdmins(o) \subseteq {u})
  BY <1>2, <1>3 DEF WriteMember, isLastOrgAdmin
<1>6. /\ members'[o][u] = role
      /\ \A q \in Orgs, v \in Users : q # o \/ v # u => members'[q][v] = members[q][v]
  BY <1>4 DEF AccessIInv, MembersInv
<1>7. ~LastTaken(OrgAdmins(o))
  <2>1. CASE role = "admin"
    BY <1>4, <1>6, <2>1 DEF LastTaken, OrgAdmins, Active
  <2>2. CASE members[o][u] # "admin"
    BY <1>4, <1>6, <2>2 DEF LastTaken, OrgAdmins, Active
  <2>3. CASE ~(OrgAdmins(o) \subseteq {u})
    BY <1>4, <1>6, <2>3 DEF LastTaken, OrgAdmins, Active
  <2> QED
    BY <1>5, <2>1, <2>2, <2>3
<1>8. ASSUME NEW q \in Orgs PROVE ~LastTaken(OrgAdmins(q))
  <2>1. CASE q = o
    BY <1>7, <2>1 DEF LastTaken, OrgAdmins, Active
  <2>2. CASE q # o
    BY <1>4, <1>6, <2>2 DEF LastTaken, OrgAdmins, Active
  <2> QED
    BY <2>1, <2>2
<1>9. ~LastTaken(PlatformAdmins)
  BY <1>4 DEF LastTaken, PlatformAdmins, Active
<1> QED
  BY <1>8, <1>9 DEF Guarded, PlatformGuarded, OrgGuarded, LastTaken, AccessIInv, MembersInv

LEMMA StepGuarded == AccessIInv /\ [AccessNext]_accessVars => Guarded
<1> SUFFICES ASSUME AccessIInv, [AccessNext]_accessVars PROVE Guarded
  OBVIOUS
<1>1. CASE Tick
  BY <1>1, UsersAndMembersStay DEF Tick
<1>2. ASSUME NEW t \in tokens, Logout(t) PROVE Guarded
  BY <1>2, LogoutGuarded
<1>3. ASSUME NEW by \in Users, NEW u \in Users, NEW admin \in BOOLEAN, CreateUser(by, u, admin)
      PROVE  Guarded
  BY <1>3, CreateUserGuarded
<1>4. ASSUME NEW by \in Users, NEW o \in Orgs, DeleteOrganization(by, o) PROVE Guarded
  BY <1>4, DeleteOrganizationGuarded
<1>5. ASSUME NEW c \in Callers, LoginIssue(c) \/ Renew(c) \/ Fail(c) PROVE Guarded
  BY <1>5, UsersAndMembersStay DEF LoginIssue, Renew, Fail
<1>6. ASSUME NEW c \in Callers,
             UpdateUserWrite(c) \/ DeleteUserWrite(c) \/ AddCreator(c) \/ WriteMember(c)
      PROVE  Guarded
  BY <1>6, UpdateUserWriteGuarded, DeleteUserWriteGuarded, AddCreatorGuarded, WriteMemberGuarded
<1>7. ASSUME NEW c \in Callers, NEW t \in tokens, Authenticate(c, t) PROVE Guarded
  BY <1>7, UsersAndMembersStay DEF Authenticate
<1>8. ASSUME NEW c \in Callers, NEW u \in Users, LoginRead(c, u) PROVE Guarded
  BY <1>8, UsersAndMembersStay DEF LoginRead
<1>9. ASSUME NEW c \in Callers, NEW u \in Users, NEW isAdmin \in BOOLEAN, OidcCallback(c, u, isAdmin)
      PROVE  Guarded
  BY <1>9, OidcCallbackGuarded
<1>10. ASSUME NEW c \in Callers, NEW by \in Users, NEW u \in Users, DeleteUserRead(c, by, u)
       PROVE  Guarded
  BY <1>10, UsersAndMembersStay DEF DeleteUserRead
<1>11. ASSUME NEW c \in Callers, NEW by \in Users, NEW u \in Users,
              NEW role \in {"admin", "user", Absent}, NEW active \in {"yes", "no", Absent},
              NEW password \in BOOLEAN, UpdateUserRead(c, by, u, role, active, password)
       PROVE  Guarded
  BY <1>11, UsersAndMembersStay DEF UpdateUserRead
<1>12. ASSUME NEW c \in Callers, NEW by \in Users, NEW o \in Orgs, CreateOrganization(c, by, o)
       PROVE  Guarded
  BY <1>12, UsersAndMembersStay DEF CreateOrganization
<1>13. ASSUME NEW c \in Callers, NEW by \in Users, NEW u \in Users, NEW o \in Orgs,
              NEW role \in OrgRoles \cup {Absent}, ManageMembers(c, by, o, u, role)
       PROVE  Guarded
  BY <1>13, UsersAndMembersStay DEF ManageMembers
<1>14. CASE UNCHANGED accessVars
  BY <1>14, UsersAndMembersStay DEF accessVars
<1> QED
  BY <1>1, <1>2, <1>3, <1>4, <1>5, <1>6, <1>7, <1>8, <1>9, <1>10, <1>11, <1>12, <1>13, <1>14
  DEF AccessNext

\* The platform and every organization keep an active admin, whatever overlaps,
\* until a change or removal of a user commits on a look at the admins that is
\* out of date: any two other steps are safe in any order (api/users.go,
\* api/oidc.go, db/organization_user.go).
THEOREM AccessAdminsRemain == AccessSpec => AdminsRemain
<1>1. AccessIInv /\ [AccessNext]_accessVars =>
        [/\ PlatformAdmins # {} /\ PlatformAdmins' = {} =>
              \E c \in Removing : req'[c] = NoRequest /\ req[c].seen.admins # PlatformAdmins
         /\ \A o \in live \cap live' : OrgAdmins(o) # {} /\ OrgAdmins(o)' = {} =>
              \E c \in Removing : req'[c] = NoRequest /\ req[c].seen.orgAdmins[o] # OrgAdmins(o)]_accessVars
  BY StepGuarded DEF Guarded, PlatformGuarded, OrgGuarded, LastTaken
<1> QED
  BY <1>1, AccessInvariant, PTL DEF AccessSpec, AdminsRemain

-----------------------------------------------------------------------------
(* The menu. Of each role and each screen, what the tables say.            *)

\* What a role may read and write, whoever has it.
Reads(role, s) == roleCanUseSection(role, SectionOf(s, FALSE))
Writes(role, s) == orgRole(role, domainRoles(s)) /\ roleCanUseSection(role, SectionOf(s, TRUE))

\* The screens of a section, and the roles it is for.
LEMMA SectionRead ==
  ASSUME NEW s \in SectionScreens
  PROVE  /\ SectionOf(s, FALSE) = SectionOf(s, TRUE) /\ SectionOf(s, FALSE) # Absent
         /\ s \in Sales => SectionOf(s, FALSE) = "sales"
         /\ s \in Buying => SectionOf(s, FALSE) = "purchasing"
         /\ s \in {"journals", "journal-entries", "fiscal-years"} => SectionOf(s, FALSE) = "accounting"
         /\ s = "cash-sales" => SectionOf(s, FALSE) = "cashbook"
         /\ s \in {"imports", "stock-movements", "production-orders", "bom"} \cup Reports =>
              SectionOf(s, FALSE) = s
<1>1. Absent \notin {"sales", "purchasing", "accounting", "cashbook"}
  BY AccessAssumption DEF Roles
<1> QED
  BY <1>1, NoScreenAssumption DEF SectionOf, SectionScreens, Sales, Buying, Reports

\* Who sees a section's screen may read it and nobody else.
LEMMA SectionsServed ==
  ASSUME NEW role \in Roles, NEW s \in SectionScreens
  PROVE  s \in Menu(role) <=> Reads(role, s)
<1>1. Reads(role, s) <=> role \in {"admin", "power_user"} \cup sectionRoles(SectionOf(s, FALSE))
  BY SectionRead DEF Reads, roleCanUseSection
<1>2. CASE s \in Sales
  <2>1. sectionRoles(SectionOf(s, FALSE)) = {"general", "sales"}
    BY <1>2, SectionRead DEF sectionRoles
  <2> QED
    BY <1>1, <1>2, <2>1 DEF Menu, Roles, Sales, Buying, Reports, MasterScreens
<1>3. CASE s \in Buying
  <2>1. sectionRoles(SectionOf(s, FALSE)) = {"general", "purchasing"}
    BY <1>3, SectionRead DEF sectionRoles
  <2> QED
    BY <1>1, <1>3, <2>1 DEF Menu, Roles, Sales, Buying, Reports, MasterScreens
<1>4. CASE s \in {"journals", "journal-entries", "fiscal-years"}
  <2>1. sectionRoles(SectionOf(s, FALSE)) = {"accounting"}
    BY <1>4, SectionRead DEF sectionRoles
  <2> QED
    BY <1>1, <1>4, <2>1 DEF Menu, Roles, Sales, Buying, Reports, MasterScreens
<1>5. CASE s = "cash-sales"
  <2>1. sectionRoles(SectionOf(s, FALSE)) = {"general", "cashbook"}
    BY <1>5, SectionRead DEF sectionRoles
  <2> QED
    BY <1>1, <1>5, <2>1 DEF Menu, Roles, Sales, Buying, Reports, MasterScreens
<1>6. CASE s \in Reports
  <2>1. SectionOf(s, FALSE) = s
    BY <1>6, SectionRead
  <2>2. /\ s = "revenue-trend" => sectionRoles(s) = {"general", "sales"}
        /\ s = "purchases-by-vendor" => sectionRoles(s) = {"general", "purchasing"}
        /\ s = "tax-summary" => sectionRoles(s) = {"general", "accounting"}
    BY DEF sectionRoles
  <2> QED
    BY <1>1, <1>6, <2>1, <2>2 DEF Menu, Roles, Sales, Buying, Reports, MasterScreens
<1>7. CASE s \in {"imports", "stock-movements", "production-orders", "bom"}
  <2>1. SectionOf(s, FALSE) = s
    BY <1>7, SectionRead
  <2>2. /\ s = "imports" => sectionRoles(s) = {"purchasing"}
        /\ s = "stock-movements" => sectionRoles(s) = {"general"}
        /\ s \in {"production-orders", "bom"} => sectionRoles(s) = {}
    BY DEF sectionRoles
  <2> QED
    BY <1>1, <1>7, <2>1, <2>2 DEF Menu, Roles, Sales, Buying, Reports, MasterScreens
<1> QED
  BY <1>2, <1>3, <1>4, <1>5, <1>6, <1>7 DEF SectionScreens, Sales, Buying, Reports

\* The menu holds nothing else but the master data everybody may read.
LEMMA MenuScreens ==
  ASSUME NEW role \in Roles
  PROVE  Menu(role) \subseteq SectionScreens \cup MasterScreens
  BY DEF Menu, Roles, SectionScreens, MasterScreens, Sales, Buying, Reports

\* Every role may read master data.
LEMMA MasterRead ==
  ASSUME NEW role, NEW s \in MasterScreens, NEW writes \in BOOLEAN
  PROVE  roleCanUseSection(role, SectionOf(s, writes))
  BY DEF MasterScreens, SectionOf, roleCanUseSection

\* What the tables say of the resources behind the screens that write.
LEMMA DomainsOf ==
  ASSUME NEW s
  PROVE  /\ s \in Sales \cup {"clients", "products"} => "sales" \in domainRoles(s)
         /\ s \in Buying \cup {"imports", "vendors", "products"} => "purchasing" \in domainRoles(s)
         /\ s \in {"journals", "journal-entries", "fiscal-years"} => "accounting" \in domainRoles(s)
         /\ s = "cash-sales" => "cashbook" \in domainRoles(s)
<1> DEFINE Says(role) == <<s, role>> \in Routes
<1>1. s \in {"clients"} \cup Sales \cup {"products"} => Says("sales")
  BY DEF Routes, PartnerRoutes, InvoiceRoutes, ProductRoutes, SellingRoutes, Table, Sales
<1>2. s \in Buying \cup {"imports", "vendors", "products"} => Says("purchasing")
  BY DEF Routes, PartnerRoutes, BuyingRoutes, ProductRoutes, Table, Buying
<1>3. s \in {"journals", "journal-entries", "fiscal-years"} => Says("accounting")
  BY DEF Routes, AccountingRoutes, Table
<1>4. s = "cash-sales" => Says("cashbook")
  BY DEF Routes, PaymentRoutes, Table
<1> HIDE DEF Says
<1>5. \A role \in Roles : Says(role) => role \in domainRoles(s)
  BY DEF Says, domainRoles
<1> QED
  BY <1>1, <1>2, <1>3, <1>4, <1>5 DEF Roles

\* Who sees a document's screen may write it.
LEMMA MenuWritten ==
  ASSUME NEW role \in Roles, NEW s \in Menu(role), s \notin Reports
  PROVE  s \in ReadOnly(role) \/ Writes(role, s)
<1>1. roleCanUseSection(role, SectionOf(s, TRUE))
  <2>1. CASE s \in SectionScreens
    BY <2>1, SectionRead, SectionsServed DEF Reads
  <2>2. CASE s \in MasterScreens
    BY <2>2, MasterRead
  <2> QED
    BY <2>1, <2>2, MenuScreens
<1>2. CASE role \in {"admin", "power_user", "general"}
  BY <1>1, <1>2 DEF Writes, orgRole
<1>3. CASE role = "sales"
  <2>1. s \in Sales \cup {"clients", "products"}
    BY <1>3 DEF Menu, Reports
  <2> QED
    BY <1>1, <1>3, <2>1, DomainsOf DEF Writes, orgRole
<1>4. CASE role = "purchasing"
  <2>1. s \in Buying \cup {"imports", "vendors", "products"}
    BY <1>4 DEF Menu, Reports
  <2> QED
    BY <1>1, <1>4, <2>1, DomainsOf DEF Writes, orgRole
<1>5. CASE role = "accounting"
  <2>1. s \in {"journals", "journal-entries", "fiscal-years"}
    BY <1>5 DEF Menu, Reports
  <2> QED
    BY <1>1, <1>5, <2>1, DomainsOf DEF Writes, orgRole
<1>6. CASE role = "cashbook"
  <2>1. s \in {"cash-sales", "clients"}
    BY <1>6 DEF Menu
  <2> QED
    BY <1>1, <1>6, <2>1, DomainsOf DEF Writes, orgRole, ReadOnly
<1> QED
  BY <1>2, <1>3, <1>4, <1>5, <1>6 DEF Roles

\* The menu of the browser and the gates of the server agree, for any users
\* and organizations: a section's screen is served to the roles that see it
\* and to no other, and who sees a document's screen may write it, but for the
\* clients the cash book looks up (ROLE_MENU against sections.go and router.go).
THEOREM AccessServesItsMenu == AccessSpec => []ServesItsMenu
<1>1. ASSUME AccessTyped PROVE ServesItsMenu
  <2> SUFFICES ASSUME NEW o \in live, NEW u \in Users, members[o][u] # Absent
               PROVE  LET menu == Menu(members[o][u])
                      IN  /\ \A s \in SectionScreens : (s \in menu) <=> MayRead(u, o, s)
                          /\ \A s \in menu : MayRead(u, o, s)
                          /\ \A s \in menu \ Reports : s \in ReadOnly(members[o][u]) \/ MayWrite(u, o, s)
    BY DEF ServesItsMenu
  <2> DEFINE role == members[o][u]
  <2>1. role \in Roles
    BY <1>1 DEF AccessTyped
  <2>2. \A s : MayRead(u, o, s) <=> Reads(role, s)
    BY DEF MayRead, Reads
  <2>3. \A s : MayWrite(u, o, s) <=> Writes(role, s)
    BY DEF MayWrite, Writes
  <2> HIDE DEF role
  <2>4. \A s \in SectionScreens : s \in Menu(role) <=> Reads(role, s)
    BY <2>1, SectionsServed
  <2>5. \A s \in MasterScreens : Reads(role, s)
    BY MasterRead DEF Reads
  <2>6. \A s \in Menu(role) : Reads(role, s)
    BY <2>1, <2>4, <2>5, MenuScreens
  <2>7. \A s \in Menu(role) \ Reports : s \in ReadOnly(role) \/ Writes(role, s)
    BY <2>1, MenuWritten
  <2> QED
    BY <2>2, <2>3, <2>4, <2>6, <2>7 DEF role
<1> QED
  BY <1>1, AccessTypeOK, PTL
=============================================================================
