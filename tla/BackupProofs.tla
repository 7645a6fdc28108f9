---------------------------- MODULE BackupProofs ----------------------------
(***************************************************************************)
(* A snapshot never costs the backup there is, and one that reports        *)
(* success is of one moment: for any databases, writes and decays.         *)
(***************************************************************************)
EXTENDS BackupProperties, TLAPS

\* Of two whole slots `current' is the newer one, and none is newer than the
\* databases themselves.
Ordered(table) ==
    /\ table["current"].state = "whole" /\ table["previous"].state = "whole"
       => AtLeast(table["current"], table["previous"])
    /\ \A s \in Slot, d \in Database :
           table[s].state = "whole" => table[s].copy[d] <= version[d]

\* What a snapshot has made of the slots and copied so far.
Progress ==
    /\ job.pc \in {"clear", "drop"} => dir["current"].state = "whole"
    /\ job.pc \in {"cleared", "settled", "copy", "promote"} => dir["previous"].state = "absent"
    /\ job.pc \in {"retired", "place"} => dir["current"].state = "absent"
    /\ At("copy") => \A d \in Database \ job.todo : job.copy[d] = version[d]
    /\ job.pc \in {"promote", "retired", "place"} => job.copy = version
    /\ job.pc \in {"rotate", "clear", "cleared", "settled"} => job.todo = Database

\* The new backup, as long as nothing decays.
Success ==
    damaged = 0 =>
        /\ job.pc \in {"placed", "check", "drop", "dropped", "done"}
           => dir["current"] = [state |-> "whole", copy |-> version]
        /\ job.pc \in {"check", "done"} => disk["current"] = dir["current"]

BackupInv == BTypeOK /\ Ordered(dir) /\ Ordered(disk) /\ Progress /\ Success

\* The backup on disk that programs see too is still both after the step.
Kept(content) == Covers(dir', content) /\ Covers(disk', content)

KeptStep ==
    \A s, r \in Slot :
        disk[s].state = "whole" /\ dir[r] = disk[s] /\ damaged' = damaged => Kept(disk[s])

LEMMA GoesTo ==
    ASSUME BTypeOK, NEW pc \in Pc, GoTo(pc)
    PROVE  /\ job'.pc = pc /\ job'.copy = job.copy /\ job'.todo = job.todo
           /\ job' \in Job
BY DEF BTypeOK, GoTo, Job

LEMMA AtLeastItself ==
    ASSUME NEW a \in Content
    PROVE  AtLeast(a, a)
BY DEF Content, Copy, AtLeast

\* Slots that stay, and tables that are exchanged, keep what they hold.
LEMMA StaysKept ==
    ASSUME BTypeOK, BTypeOK', dir' \in {dir, disk}, disk' \in {dir, disk}
    PROVE  KeptStep
<1> SUFFICES ASSUME NEW s \in Slot, NEW r \in Slot, disk[s].state = "whole", dir[r] = disk[s]
             PROVE  Kept(disk[s])
  BY DEF KeptStep
<1>1. AtLeast(disk[s], disk[s])
  BY AtLeastItself DEF BTypeOK
<1>2. QED
  BY <1>1 DEF Kept, Covers

LEMMA AbsentTyped == Absent \in Content /\ Absent.state = "absent"
BY BackupBoundAssumption DEF Absent, Blank, Content, Copy

\* Steps beside a snapshot, and its end.
LEMMA OutsideStep ==
    ASSUME BackupInv,
           \/ Start \/ Stop \/ Fail \/ PowerLoss \/ UNCHANGED bvars
           \/ \E d \in Database : Work(d)
    PROVE  BackupInv' /\ KeptStep
<1> USE DEF BackupInv, slots, At, LockFree
<1>1. NoJob \in Job /\ NoJob.pc = "idle"
  BY BackupBoundAssumption DEF NoJob, Blank, Copy, Job, Pc
<1>2. CASE Start \/ Stop \/ UNCHANGED bvars
  <2>1. /\ UNCHANGED <<version, dir, disk, job, damaged>>
        /\ service' \in BOOLEAN /\ (service' => job.pc = "idle")
    <3>1. CASE Start
      BY <3>1 DEF Start
    <3>2. CASE Stop
      BY <3>2 DEF Stop
    <3>3. CASE UNCHANGED bvars
      BY <3>3 DEF bvars, BTypeOK
    <3>4. QED
      BY <1>2, <3>1, <3>2, <3>3
  <2>2. BTypeOK'
    BY <2>1 DEF BTypeOK
  <2>3. BackupInv'
    BY <2>1, <2>2 DEF Ordered, Progress, Success, AtLeast
  <2>4. QED
    BY <2>1, <2>2, <2>3, StaysKept
<1>3. CASE Fail \/ PowerLoss
  <2>1. /\ version' = version /\ job' = NoJob /\ damaged' = damaged
        /\ dir' \in {dir, disk} /\ disk' \in {dir, disk} /\ service' \in BOOLEAN
    BY <1>3 DEF Fail, PowerLoss, BTypeOK
  <2>2. BTypeOK'
    BY <1>1, <2>1 DEF BTypeOK
  <2>3. Ordered(dir)' /\ Ordered(disk)'
    BY <2>1 DEF Ordered, AtLeast
  <2>4. Progress' /\ Success'
    BY <1>1, <2>1 DEF Progress, Success
  <2>5. QED
    BY <2>1, <2>2, <2>3, <2>4, StaysKept
<1>4. ASSUME NEW d \in Database, Work(d)
      PROVE  BackupInv' /\ KeptStep
  <2>1. /\ version[d] < MaxVersion /\ version' = [version EXCEPT ![d] = @ + 1]
        /\ UNCHANGED <<service, dir, disk, job, damaged>> /\ job.pc = "idle"
    BY <1>4 DEF Work, BTypeOK
  <2>2. version' \in Copy /\ \A e \in Database : version[e] \in Nat /\ version'[e] >= version[e]
    BY <2>1, BackupBoundAssumption DEF BTypeOK, Copy
  <2>3. BTypeOK'
    BY <2>1, <2>2 DEF BTypeOK
  <2>4. \A s \in Slot, e \in Database : dir[s].copy[e] \in Nat /\ disk[s].copy[e] \in Nat
    BY DEF BTypeOK, Content, Copy
  <2>5. Ordered(dir)' /\ Ordered(disk)'
    BY <2>1, <2>2, <2>4 DEF Ordered, AtLeast, Copy
  <2>6. Progress' /\ Success'
    BY <2>1 DEF Progress, Success
  <2>7. QED
    BY <2>1, <2>3, <2>5, <2>6, StaysKept
<1>5. QED
  BY <1>2, <1>3, <1>4

\* Decay makes fewer slots whole; a decayed backup is not what is promised.
LEMMA DamageStep ==
    ASSUME BackupInv, NEW s \in Slot, Damage(s)
    PROVE  BackupInv' /\ KeptStep
<1> USE DEF BackupInv
<1>1. /\ UNCHANGED <<version, service, job>>
      /\ damaged < MaxDamage /\ damaged' = damaged + 1
      /\ job.pc \notin {"clear", "cleared", "drop", "dropped"}
      /\ dir[s].state = "whole"
  BY DEF Damage
<1>2. damaged' \in 0..MaxDamage /\ damaged' # 0 /\ damaged' # damaged
  BY <1>1, BackupBoundAssumption DEF BTypeOK
<1>3. /\ dir' \in [Slot -> Content]
      /\ \A r \in Slot : /\ dir'[r].copy = dir[r].copy
                         /\ dir'[r].state = IF r = s THEN "broken" ELSE dir[r].state
  BY DEF Damage, BTypeOK, Content
<1>4. /\ disk' \in [Slot -> Content]
      /\ \A r \in Slot : /\ disk'[r].copy = disk[r].copy
                         /\ disk'[r].state \in {disk[r].state, "broken"}
  BY DEF Damage, BTypeOK, Content
<1>5. BTypeOK'
  BY <1>1, <1>2, <1>3, <1>4 DEF BTypeOK, At
<1>6. Ordered(dir)' /\ Ordered(disk)'
  BY <1>1, <1>3, <1>4 DEF Ordered, AtLeast, Slot
<1>7. Progress'
  BY <1>1, <1>3 DEF Progress, At, Slot
<1>8. QED
  BY <1>2, <1>5, <1>6, <1>7 DEF Success, KeptStep

\* Steps of a snapshot that leave the slots alone.
LEMMA WorkingStep ==
    ASSUME BackupInv,
           \/ Begin \/ Seal \/ Check
           \/ \E d \in Database : CopyDatabase(d)
           \/ Rotate /\ dir' = dir
    PROVE  BackupInv' /\ KeptStep
<1> USE DEF BackupInv, Untouched, slots
<1>1. UNCHANGED <<version, service, dir, disk, damaged>>
  BY DEF Begin, Seal, Check, CopyDatabase, Rotate
<1>2. Ordered(dir)' /\ Ordered(disk)'
  BY <1>1 DEF Ordered, AtLeast
<1>3. ASSUME BTypeOK', Progress', Success'
      PROVE  BackupInv' /\ KeptStep
  BY <1>1, <1>2, <1>3, StaysKept
<1>4. CASE Begin
  <2>1. /\ job' = [pc |-> "rotate", copy |-> Blank, todo |-> Database] /\ ~service
        /\ Blank \in Copy
    BY <1>4, BackupBoundAssumption DEF Begin, LockFree, Blank, Copy
  <2>2. job'.pc = "rotate" /\ job'.todo = Database /\ job' \in Job
    BY <2>1 DEF Job, Pc
  <2>3. BTypeOK'
    BY <1>1, <2>1, <2>2 DEF BTypeOK
  <2>4. QED
    BY <1>3, <2>2, <2>3 DEF Progress, Success, At
<1>5. ASSUME NEW d \in Database, CopyDatabase(d)
      PROVE  BackupInv' /\ KeptStep
  <2>1. /\ job' = [job EXCEPT !.copy[d] = version[d], !.todo = @ \ {d}] /\ job.pc = "copy"
    BY <1>5 DEF CopyDatabase, At
  <2>2. /\ job'.pc = "copy" /\ job'.todo = job.todo \ {d}
        /\ job'.copy = [job.copy EXCEPT ![d] = version[d]]
        /\ job.copy \in Copy /\ job.todo \subseteq Database /\ version \in Copy
    BY <2>1 DEF BTypeOK, Job
  <2>3. job'.copy \in Copy /\ \A e \in Database : job'.copy[e] = IF e = d THEN version[d] ELSE job.copy[e]
    BY <2>2 DEF Copy
  <2>4. job' \in Job
    <3>1. job' = [job EXCEPT !.copy = [job.copy EXCEPT ![d] = version[d]], !.todo = job.todo \ {d}]
      BY <2>1
    <3>2. [job.copy EXCEPT ![d] = version[d]] \in Copy
      BY <2>2, <2>3
    <3>3. QED
      BY <2>2, <3>1, <3>2 DEF BTypeOK, Job
  <2>5. BTypeOK'
    BY <1>1, <2>1, <2>2, <2>4 DEF BTypeOK, At
  <2>6. \A e \in Database \ job'.todo : job'.copy[e] = version[e]
    BY <2>1, <2>2, <2>3 DEF Progress, At
  <2>7. QED
    BY <1>1, <1>3, <2>1, <2>2, <2>5, <2>6 DEF Progress, Success, At
<1>6. CASE Seal
  <2>1. job.pc = "copy" /\ job.todo = {} /\ GoTo("promote")
    BY <1>6 DEF Seal, At
  <2>2. job'.pc = "promote" /\ job'.copy = job.copy /\ BTypeOK'
    BY <1>1, <2>1, GoesTo DEF BTypeOK, At, Pc
  <2>3. \A d \in Database : job.copy[d] = version[d]
    BY <2>1 DEF Progress, At
  <2>4. job.copy = version
    <3>1. job.copy \in Copy /\ version \in Copy
      BY DEF BTypeOK, Job
    <3>2. QED
      BY <2>3, <3>1 DEF Copy
  <2>5. QED
    BY <1>1, <1>3, <2>1, <2>2, <2>4 DEF Progress, Success, At
<1>7. CASE Check
  <2>1. /\ job.pc = "check" /\ dir["current"].state = "whole"
        /\ GoTo("drop") \/ GoTo("done")
    BY <1>7 DEF Check, At, ReadBack, Whole
  <2>2. job'.pc \in {"drop", "done"} /\ BTypeOK'
    BY <1>1, <2>1, GoesTo DEF BTypeOK, At, Pc
  <2>3. QED
    BY <1>1, <1>3, <2>1, <2>2 DEF Progress, Success, At
<1>8. CASE Rotate /\ dir' = dir
  <2>1. job.pc = "rotate" /\ job.todo = Database
    BY <1>8 DEF Rotate, Progress, At
  <2>2. CASE MayClear /\ GoTo("clear")
    <3>1. job'.pc = "clear" /\ job'.todo = Database /\ BTypeOK'
      BY <1>1, <2>1, <2>2, GoesTo DEF BTypeOK, At, Pc
    <3>2. QED
      BY <1>1, <1>3, <2>2, <3>1 DEF Progress, Success, At, MayClear, Whole
  <2>3. CASE ~Exists("previous") /\ GoTo("copy")
    <3>1. job'.pc = "copy" /\ job'.todo = Database /\ BTypeOK'
      BY <1>1, <2>1, <2>3, GoesTo DEF BTypeOK, At, Pc
    <3>2. QED
      BY <1>1, <1>3, <2>3, <3>1 DEF Progress, Success, At, Exists
  <2>4. CASE ~Exists("current") /\ Whole("previous") /\ Rename("previous", "current")
    <3>1. dir'["current"] = dir["previous"]
      BY <2>4 DEF Rename, BTypeOK, Slot
    <3>2. QED
      BY <1>1, <2>4, <3>1 DEF Exists, Whole
  <2>5. QED
    BY <1>8, <2>2, <2>3, <2>4 DEF Rotate
<1>9. QED
  BY <1>4, <1>5, <1>6, <1>7, <1>8

\* A slot is renamed only over nothing.
LEMMA RenameStep ==
    ASSUME BackupInv, NEW from \in Slot, NEW to \in Slot, from # to,
           Rename(from, to), dir[to].state = "absent",
           UNCHANGED <<version, service, disk, damaged>>, BTypeOK', Progress', Success'
    PROVE  BackupInv' /\ KeptStep
<1> USE DEF BackupInv
<1>1. /\ dir'[to] = dir[from] /\ dir'[from].state = "absent"
      /\ \A s \in Slot : s \in {from, to}
  BY AbsentTyped DEF Rename, BTypeOK, Slot
<1>2. Ordered(dir)' /\ Ordered(disk)'
  <2>1. ~(dir'["current"].state = "whole" /\ dir'["previous"].state = "whole")
    BY <1>1 DEF Slot
  <2>2. \A s \in Slot, d \in Database : dir'[s].state = "whole" => dir'[s].copy[d] <= version[d]
    BY <1>1 DEF Ordered
  <2>3. QED
    BY <2>1, <2>2 DEF Ordered, AtLeast
<1>3. KeptStep
  <2> SUFFICES ASSUME NEW s \in Slot, NEW r \in Slot, disk[s].state = "whole", dir[r] = disk[s]
               PROVE  Kept(disk[s])
    BY DEF KeptStep
  <2>1. r = from /\ dir'[to] = disk[s] /\ disk[s] \in Content
    BY <1>1 DEF BTypeOK
  <2>2. QED
    BY <2>1, AtLeastItself DEF Kept, Covers
<1>4. QED
  BY <1>2, <1>3

LEMMA RenamingStep ==
    ASSUME BackupInv, (Rotate /\ dir' # dir) \/ Retire
    PROVE  BackupInv' /\ KeptStep
<1> USE DEF BackupInv, Untouched, At
<1>1. UNCHANGED <<version, service, disk, damaged>>
  BY DEF Rotate, Retire
<1>2. \A from, to \in Slot : from # to /\ Rename(from, to)
          => /\ dir' \in [Slot -> Content] /\ dir'[from].state = "absent"
  BY AbsentTyped DEF Rename, BTypeOK, Slot
<1>3. CASE Rotate /\ dir' # dir
  <2>1. /\ job.pc = "rotate" /\ dir["current"].state = "absent"
        /\ Rename("previous", "current") /\ GoTo("settled") /\ job.todo = Database
    BY <1>3 DEF Rotate, Exists, Progress
  <2>2. /\ job'.pc = "settled" /\ job'.todo = Database
        /\ dir'["previous"].state = "absent" /\ BTypeOK'
    BY <1>1, <1>2, <2>1, GoesTo DEF BTypeOK, Slot, Pc
  <2>3. Progress' /\ Success'
    BY <2>2 DEF Progress, Success
  <2>4. QED
    BY <1>1, <2>1, <2>2, <2>3, RenameStep DEF Slot
<1>4. CASE Retire /\ Rename("current", "previous") /\ GoTo("retired")
  <2>1. job.pc = "promote" /\ dir["previous"].state = "absent"
    BY <1>4 DEF Retire, Progress
  <2>2. /\ job'.pc = "retired" /\ job'.copy = job.copy
        /\ dir'["current"].state = "absent" /\ BTypeOK'
    BY <1>1, <1>2, <1>4, <2>1, GoesTo DEF BTypeOK, Slot, Pc
  <2>3. Progress' /\ Success'
    BY <1>1, <2>1, <2>2 DEF Progress, Success
  <2>4. QED
    BY <1>1, <1>4, <2>1, <2>2, <2>3, RenameStep DEF Slot
<1>5. CASE Retire /\ ~Exists("current") /\ GoTo("place") /\ dir' = dir
  <2>1. job.pc = "promote" /\ dir["current"].state = "absent"
    BY <1>5 DEF Retire, Exists
  <2>2. job'.pc = "place" /\ job'.copy = job.copy /\ BTypeOK'
    BY <1>1, <1>5, <2>1, GoesTo DEF BTypeOK, Pc
  <2>3. Progress' /\ Success'
    BY <1>1, <1>5, <2>1, <2>2 DEF Progress, Success
  <2>4. Ordered(dir)' /\ Ordered(disk)'
    BY <1>1, <1>5 DEF Ordered, AtLeast
  <2>5. QED
    BY <1>1, <1>5, <2>2, <2>3, <2>4, StaysKept
<1>6. QED
  BY <1>3, <1>4, <1>5 DEF Retire

\* The older slot goes file by file beside a newer whole one.
LEMMA RemoveStep ==
    ASSUME BackupInv, Remove("clear", "cleared") \/ Remove("drop", "dropped")
    PROVE  BackupInv' /\ KeptStep
<1> USE DEF BackupInv, Untouched, At
<1>1. /\ UNCHANGED <<version, service, disk, damaged>>
      /\ job.pc \in {"clear", "drop"} /\ dir["current"].state = "whole"
      /\ dir'["current"] = dir["current"] /\ dir' \in [Slot -> Content]
      /\ dir'["previous"].state # "whole"
  <2>1. dir' = [dir EXCEPT !["previous"].state = "broken"] \/ dir' = [dir EXCEPT !["previous"] = Absent]
    BY DEF Remove
  <2>2. QED
    BY <2>1, AbsentTyped DEF Remove, Progress, BTypeOK, Content, Slot
<1>2. BTypeOK' /\ Progress' /\ Success'
  <2>1. CASE job' = job
    BY <1>1, <2>1 DEF BTypeOK, Progress, Success
  <2>2. CASE /\ dir' = [dir EXCEPT !["previous"] = Absent]
             /\ \/ GoTo("cleared") /\ job.pc = "clear"
                \/ GoTo("dropped") /\ job.pc = "drop"
    <3>1. /\ \/ job'.pc = "cleared" /\ job.pc = "clear"
             \/ job'.pc = "dropped" /\ job.pc = "drop"
          /\ job'.todo = job.todo
          /\ BTypeOK'
      BY <1>1, <2>2, GoesTo DEF BTypeOK, Pc
    <3>2. dir'["previous"].state = "absent"
      BY <2>2, AbsentTyped DEF BTypeOK, Slot
    <3>3. QED
      BY <1>1, <3>1, <3>2 DEF Progress, Success
  <2>3. QED
    BY <1>1, <2>1, <2>2 DEF Remove
<1>3. Ordered(dir)' /\ Ordered(disk)'
  BY <1>1 DEF Ordered, AtLeast, Slot
<1>4. KeptStep
  <2> SUFFICES ASSUME NEW s \in Slot, NEW r \in Slot, disk[s].state = "whole", dir[r] = disk[s]
               PROVE  Kept(disk[s])
    BY DEF KeptStep
  <2>1. disk[s] \in Content /\ AtLeast(disk[s], disk[s])
    BY AtLeastItself DEF BTypeOK
  <2>2. AtLeast(dir["current"], disk[s])
    BY <1>1, <2>1 DEF Ordered, Slot
  <2>3. QED
    BY <1>1, <2>1, <2>2 DEF Kept, Covers, AtLeast, Slot
<1>5. QED
  BY <1>2, <1>3, <1>4

\* What programs see reaches the disk.
LEMMA SyncStep ==
    ASSUME BackupInv,
           \/ Sync("cleared", "copy") \/ Sync("settled", "copy") \/ Sync("retired", "place")
           \/ Sync("placed", "check") \/ Sync("dropped", "done")
    PROVE  BackupInv' /\ KeptStep
<1> USE DEF BackupInv, Untouched, At
<1>1. UNCHANGED <<version, service, dir, damaged>> /\ disk' = dir
  BY DEF Sync
<1>2. /\ \/ job.pc \in {"cleared", "settled"} /\ job'.pc = "copy"
         \/ job.pc = "retired" /\ job'.pc = "place"
         \/ job.pc = "placed" /\ job'.pc = "check"
         \/ job.pc = "dropped" /\ job'.pc = "done"
      /\ job'.copy = job.copy /\ job'.todo = job.todo
      /\ job' \in Job
  BY GoesTo DEF Sync, Pc
<1>3. BTypeOK'
  BY <1>1, <1>2 DEF BTypeOK
<1>4. Ordered(dir)' /\ Ordered(disk)'
  BY <1>1 DEF Ordered, AtLeast
<1>5. Progress' /\ Success'
  BY <1>1, <1>2 DEF Progress, Success
<1>6. QED
  BY <1>1, <1>3, <1>4, <1>5, StaysKept

\* The new backup is put where nothing is.
LEMMA PlaceStep ==
    ASSUME BackupInv, Place
    PROVE  BackupInv' /\ KeptStep
<1> USE DEF BackupInv, Untouched, At
<1> DEFINE new == [state |-> "whole", copy |-> job.copy]
<1>1. /\ UNCHANGED <<version, service, disk, damaged>>
      /\ job.pc = "place" /\ job'.pc = "placed" /\ job.copy = version
      /\ job' \in Job
      /\ dir["current"].state = "absent"
  BY GoesTo DEF Place, Progress, Pc
<1>2. new \in Content
  BY DEF Content, BTypeOK, Job
<1>3. /\ dir' \in [Slot -> Content] /\ dir'["current"] = new
      /\ dir'["previous"] = dir["previous"]
  BY <1>2 DEF Place, BTypeOK, Slot
<1>4. BTypeOK'
  BY <1>1, <1>3 DEF BTypeOK
<1>5. \A d \in Database : version[d] \in Nat
  BY DEF BTypeOK, Copy
<1>6. Ordered(dir)' /\ Ordered(disk)'
  <2>1. \A d \in Database : new.copy[d] = version[d]
    BY <1>1
  <2>2. \A s \in Slot, d \in Database : dir'[s].state = "whole" => dir'[s].copy[d] <= version[d]
    BY <1>3, <1>5, <2>1 DEF Ordered, Slot
  <2>3. dir'["previous"].state = "whole" => AtLeast(dir'["current"], dir'["previous"])
    <3>1. \A d \in Database : dir'["previous"].copy[d] \in Nat
      BY <1>3 DEF BTypeOK, Content, Copy, Slot
    <3>2. QED
      BY <1>3, <1>5, <2>1, <2>2, <3>1 DEF AtLeast, Slot
  <2>4. QED
    BY <1>1, <2>2, <2>3 DEF Ordered, AtLeast
<1>7. Progress' /\ Success'
  BY <1>1, <1>3 DEF Progress, Success
<1>8. KeptStep
  <2> SUFFICES ASSUME NEW s \in Slot, NEW r \in Slot, disk[s].state = "whole", dir[r] = disk[s]
               PROVE  Kept(disk[s])
    BY DEF KeptStep
  <2>1. r = "previous" /\ disk[s] \in Content
    BY <1>1 DEF BTypeOK, Slot
  <2>2. QED
    BY <1>1, <1>3, <2>1, AtLeastItself DEF Kept, Covers
<1>9. QED
  BY <1>4, <1>6, <1>7, <1>8

LEMMA BackupStep == BackupInv /\ [BNext]_bvars => BackupInv' /\ KeptStep
<1> SUFFICES ASSUME BackupInv, [BNext]_bvars
             PROVE  BackupInv' /\ KeptStep
  OBVIOUS
<1>1. CASE Snapshot
  BY <1>1, WorkingStep, RenamingStep, RemoveStep, SyncStep, PlaceStep DEF Snapshot
<1>2. QED
  BY <1>1, OutsideStep, DamageStep DEF BNext

LEMMA BackupInit == BInit => BackupInv
<1> SUFFICES ASSUME BInit
             PROVE  BackupInv
  OBVIOUS
<1>1. Blank \in Copy
  BY BackupBoundAssumption DEF Blank, Copy
<1>2. job = NoJob /\ NoJob.pc = "idle"
  BY DEF BInit, NoJob
<1>3. \A s \in Slot : dir[s] = Absent /\ disk[s] = Absent
  BY DEF BInit
<1>4. BTypeOK
  <2>1. NoJob \in Job
    BY <1>1 DEF NoJob, Job, Pc
  <2>2. damaged \in 0..MaxDamage
    BY BackupBoundAssumption DEF BInit
  <2>3. QED
    BY <1>1, <1>2, <2>1, <2>2, AbsentTyped DEF BInit, BTypeOK, At
<1>5. Ordered(dir) /\ Ordered(disk)
  BY <1>3, AbsentTyped DEF Ordered, Slot
<1>6. QED
  BY <1>2, <1>4, <1>5 DEF BackupInv, Progress, Success, At

\* Trying to make a backup never costs the one there is.
THEOREM NeverLost == BSpec => BackupNeverLost
<1>1. BackupInv /\ [BNext]_bvars
       => \A s, r \in Slot :
              /\ disk[s].state = "whole" /\ dir[r] = disk[s]
              /\ damaged' = damaged
              => Covers(dir', disk[s]) /\ Covers(disk', disk[s])
  BY BackupStep DEF KeptStep, Kept
<1>2. QED
  BY <1>1, BackupInit, BackupStep, PTL DEF BSpec, BackupNeverLost

\* A snapshot that reports success is safe on disk and of the present moment.
THEOREM SuccessIsCurrent == BSpec => []VerifiedIsCurrent
<1>1. BackupInv => VerifiedIsCurrent
  BY DEF BackupInv, BTypeOK, Success, VerifiedIsCurrent, At
<1>2. QED
  BY <1>1, BackupInit, BackupStep, PTL DEF BSpec

=============================================================================
