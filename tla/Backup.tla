------------------------------- MODULE Backup -------------------------------
(***************************************************************************)
(* The snapshot of the controller's databases (maintenance_center/         *)
(* backup.py) and the rotation of its two slots, beside the service that   *)
(* holds the same lock while it runs (core.py __init__, close; web.py      *)
(* lifespan closes every database before the core gives the lock back).    *)
(*                                                                         *)
(* A snapshot may be killed, fail or lose power at every step. `dir' is    *)
(* the destination directory as programs see it, `disk' what of it         *)
(* survives a loss of power: the last synchronised state, or a later one.  *)
(*                                                                         *)
(* Simplifications: the content of a database is a version number; the     *)
(* files of a candidate are written, verified and synchronised in the step *)
(* Seal; candidates of dead snapshots are litter without effect; one-time  *)
(* codes, which the command line may add to a stopped service, are not     *)
(* part of a snapshot.                                                     *)
(***************************************************************************)
EXTENDS Naturals

CONSTANTS
    Database,    \* DATABASES
    MaxVersion,  \* bound: writes to a database
    MaxDamage    \* bound: slots that decay

ASSUME BackupBoundAssumption == MaxVersion \in Nat /\ MaxDamage \in Nat

VARIABLES
    version,   \* content of each database
    service,   \* does the service run (and hold controller.lock)?
    dir,       \* the slots as seen by programs
    disk,      \* the slots that survive a loss of power
    job,       \* the snapshot in progress: pc, copies made, databases to go
    damaged    \* slots that decayed so far

slots == <<dir, disk>>
bvars == <<version, service, slots, job, damaged>>

Slot    == {"current", "previous"}
Copy    == [Database -> 0..MaxVersion]
Content == [state: {"absent", "whole", "broken"}, copy: Copy]
Blank   == [d \in Database |-> 0]
Absent  == [state |-> "absent", copy |-> Blank]
Whole(s)  == dir[s].state = "whole"    \* verify() accepts the slot
Exists(s) == dir[s].state # "absent"
Pc      == {"idle", "rotate", "clear", "cleared", "settled", "copy", "promote", "retired",
            "place", "placed", "check", "drop", "dropped", "done"}
Job     == [pc: Pc, copy: Copy, todo: SUBSET Database]
NoJob   == [pc |-> "idle", copy |-> Blank, todo |-> {}]
At(pc)  == job.pc = pc
GoTo(pc) == job' = [job EXCEPT !.pc = pc]

BTypeOK ==
    /\ version \in Copy
    /\ service \in BOOLEAN /\ (service => At("idle"))
    /\ dir \in [Slot -> Content] /\ disk \in [Slot -> Content]
    /\ job \in Job
    /\ damaged \in 0..MaxDamage

BInit ==
    /\ version = Blank /\ service = FALSE /\ damaged = 0
    /\ dir = [s \in Slot |-> Absent] /\ disk = dir
    /\ job = NoJob

-----------------------------------------------------------------------------
(* The service, and what may befall it and the machine. *)

Bug_LockFree == At("idle")
LockFree     == ~service /\ At("idle")

Start ==
    /\ LockFree
    /\ service' = TRUE
    /\ UNCHANGED <<version, slots, job, damaged>>

Work(d) ==
    /\ service
    /\ version[d] < MaxVersion
    /\ version' = [version EXCEPT ![d] = @ + 1]
    /\ UNCHANGED <<service, slots, job, damaged>>

Stop ==
    /\ service
    /\ service' = FALSE
    /\ UNCHANGED <<version, slots, job, damaged>>

\* A snapshot that is killed or fails leaves the slots as they are.
Fail ==
    /\ ~At("idle")
    /\ job' = NoJob
    /\ UNCHANGED <<version, service, slots, damaged>>

PowerLoss ==
    /\ dir' \in {dir, disk} /\ disk' = dir'
    /\ service' = FALSE /\ job' = NoJob
    /\ UNCHANGED <<version, damaged>>

\* A slot decays at any time but between its verification and the removal of
\* the other one, which follows at once.
Damage(s) ==
    /\ damaged < MaxDamage
    /\ job.pc \notin {"clear", "cleared", "drop", "dropped"}
    /\ damaged' = damaged + 1
    /\ dir[s].state = "whole"
    /\ dir' = [dir EXCEPT ![s].state = "broken"]
    /\ disk' = [r \in Slot |-> IF disk[r].copy = dir[s].copy /\ disk[r].state = "whole"
                               THEN [disk[r] EXCEPT !.state = "broken"] ELSE disk[r]]
    /\ UNCHANGED <<version, service, job>>

-----------------------------------------------------------------------------
(* Steps of a snapshot. *)

Rename(from, to) == dir' = [dir EXCEPT ![to] = dir[from], ![from] = Absent]
Untouched        == UNCHANGED <<version, service, damaged>>

Begin ==
    /\ LockFree
    /\ job' = [pc |-> "rotate", copy |-> Blank, todo |-> Database]
    /\ UNCHANGED slots /\ Untouched

\* What an earlier snapshot left behind: two slots are reduced to the newer
\* one, a lone older one takes its place again. Both only once verified.
Bug_MayClear == Exists("current") /\ Exists("previous")
MayClear     == Whole("current") /\ Exists("previous")

Rotate ==
    /\ At("rotate")
    /\ \/ MayClear /\ GoTo("clear") /\ UNCHANGED dir
       \/ ~Exists("current") /\ Whole("previous") /\ Rename("previous", "current") /\ GoTo("settled")
       \/ ~Exists("previous") /\ GoTo("copy") /\ UNCHANGED dir
    /\ UNCHANGED disk /\ Untouched

\* rmtree removes file after file.
Remove(from, to) ==
    /\ At(from)
    /\ \/ /\ Whole("previous")
          /\ dir' = [dir EXCEPT !["previous"].state = "broken"]
          /\ UNCHANGED job
       \/ dir' = [dir EXCEPT !["previous"] = Absent] /\ GoTo(to)
    /\ UNCHANGED disk /\ Untouched

Sync(from, to) ==
    /\ At(from)
    /\ disk' = dir
    /\ GoTo(to)
    /\ UNCHANGED dir /\ Untouched

CopyDatabase(d) ==
    /\ At("copy") /\ d \in job.todo
    /\ job' = [job EXCEPT !.copy[d] = version[d], !.todo = @ \ {d}]
    /\ UNCHANGED slots /\ Untouched

Seal ==
    /\ At("copy") /\ job.todo = {}
    /\ GoTo("promote")
    /\ UNCHANGED slots /\ Untouched

\* The slot there is steps aside, if it still verifies.
Retire ==
    /\ At("promote")
    /\ \/ Whole("current") /\ Rename("current", "previous") /\ GoTo("retired")
       \/ ~Exists("current") /\ GoTo("place") /\ UNCHANGED dir
    /\ UNCHANGED disk /\ Untouched

Place ==
    /\ At("place")
    /\ dir' = [dir EXCEPT !["current"] = [state |-> "whole", copy |-> job.copy]]
    /\ GoTo("placed")
    /\ UNCHANGED disk /\ Untouched

\* The older slot goes only after the new one has been read back.
ReadBack     == Whole("current")

Check ==
    /\ At("check")
    /\ ReadBack
    /\ GoTo(IF Exists("previous") THEN "drop" ELSE "done")
    /\ UNCHANGED slots /\ Untouched

-----------------------------------------------------------------------------
Snapshot ==
    \/ Begin
    \/ Rotate
    \/ Remove("clear", "cleared")
    \/ Sync("cleared", "copy")
    \/ Sync("settled", "copy")
    \/ \E d \in Database : CopyDatabase(d)
    \/ Seal
    \/ Retire
    \/ Sync("retired", "place")
    \/ Place
    \/ Sync("placed", "check")
    \/ Check
    \/ Remove("drop", "dropped")
    \/ Sync("dropped", "done")

BNext ==
    \/ Start
    \/ \E d \in Database : Work(d)
    \/ Stop
    \/ Fail
    \/ PowerLoss
    \/ \E s \in Slot : Damage(s)
    \/ Snapshot

BSpec == BInit /\ [][BNext]_bvars

=============================================================================
