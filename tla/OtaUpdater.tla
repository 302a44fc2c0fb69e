---------------------------- MODULE OtaUpdater -----------------------------
(* ota/kaonic-ota.py: the service that replaces the daemon's executable.   *)
(* upload_ota runs in a thread of the web server per request, and nothing  *)
(* keeps two of them apart: two that meet leave the files as their steps   *)
(* fall, and nothing is promised of the device (tainted) until an upload   *)
(* that met no other has recorded its hash.  validate_app_file runs when   *)
(* the service boots.                                                      *)
(* Power may fail between any two steps, and inside a copy.                *)
(*                                                                         *)
(* A package is known by the image it installs.  Only packages that passed *)
(* the hash and signature checks are uploaded here: a refused upload       *)
(* changes nothing.  The directory of the records exists, it holds the key *)
(* without which every upload is refused.                                  *)
(*                                                                         *)
(* shutil.copy2 is three steps: the target is opened and truncated, its    *)
(* data written, the mode of the source applied.  What a completed step    *)
(* wrote is assumed to survive a crash.                                    *)
(*                                                                         *)
(* systemd is external: start runs the executable if it can be run, and an *)
(* image in Flaky may die at any time and be started again.                *)
EXTENDS Naturals

CONSTANTS
    Images,      \* images that pass the checks
    Flaky,       \* those whose process may die
    Factory,     \* the image the device was delivered with
    Handlers,    \* threads that serve uploads
    Boot,        \* the main thread of the service
    Checks,      \* iterations of the health loop (10 in upload_ota)
    MaxCrashes,  \* bound of the model: power failures
    Meets,       \* bound of the model: where an upload is, and whether the device is
                 \* tainted, when another may begin
    Absent,      \* no such file
    Partial      \* a file whose data is incomplete

ASSUME OtaAssumption ==
    /\ Factory \in Images \ Flaky /\ Flaky \subseteq Images
    /\ Boot \notin Handlers
    /\ Checks \in Nat \ {0} /\ MaxCrashes \in Nat
    /\ Absent \notin Images /\ Partial \notin Images /\ Absent # Partial

VARIABLES
    app,       \* APP_PATH: its data and whether it may be executed
    bak,       \* BACKUP_PATH
    hash,      \* HASH_PATH: the image whose hash it holds
    version,   \* VERSION_PATH: the image whose version it names
    service,   \* kaonic-commd.service
    pc,        \* where each thread is
    pkg,       \* the package each handler installs
    tries,     \* health checks a handler has passed
    before,    \* the app that an upload alone found when it backed it up (history)
    overlapped,  \* handlers whose last upload met another (history)
    tainted,   \* since the last upload alone that recorded its hash two uploads met,
               \* or a backup was dropped while the app was not the recorded one (history)
    stripped,  \* since then an interruption found the recorded app without its mode (history)
    crashes    \* power failures so far

vars == <<app, bak, hash, version, service, pc, pkg, tries, before, tainted, overlapped,
          stripped, crashes>>

records == <<hash, version>>
request == <<pkg, tries>>
history == <<before, tainted, overlapped, stripped, crashes>>

Threads == Handlers \cup {Boot}

NoFile == [data |-> Absent, exec |-> FALSE]
Exists(f) == f.data # Absent
Truncated(f) == [f EXCEPT !.data = Partial]

Init ==
    /\ app = [data |-> Factory, exec |-> TRUE]
    /\ bak = NoFile
    /\ hash \in {Factory, Absent} /\ version = hash
    /\ service = "stopped"
    /\ pc = [t \in Threads |-> IF t = Boot THEN "down" ELSE "idle"]
    /\ pkg = [h \in Handlers |-> Factory]
    /\ tries = [h \in Handlers |-> 0]
    /\ before = NoFile
    /\ tainted = FALSE /\ overlapped = {} /\ stripped = FALSE
    /\ crashes = 0

At(t, from, to) == pc[t] = from /\ pc' = [pc EXCEPT ![t] = to]

Done(t) == IF t = Boot THEN "up" ELSE "idle"

\* What a copy of d into f leaves: while uploads overlap the target may be gone, cut
\* short or written by another at the same time.
Filled(t, f, d) ==
    IF t \notin overlapped THEN {[f EXCEPT !.data = d]}
    ELSE {f} \cup {[f EXCEPT !.data = e] : e \in {i \in Images \cup {Partial} : Exists(f)}}

\* The installed image is complete and its hash is the one on record.
Recorded == app.data \in Images /\ hash = app.data

Runnable == app.data \in Images /\ app.exec
Started == IF Runnable THEN "running" ELSE "failed"
-----------------------------------------------------------------------------
(* upload_ota, after the package has been accepted.                        *)

Others(h) == {g \in Handlers \ {h} : pc[g] # "idle"}

Upload(h) ==
    /\ pc[Boot] = "up" /\ At(h, "idle", "stop")
    /\ \A g \in Others(h) : <<pc[g], tainted>> \in Meets
    /\ \E p \in Images : pkg' = [pkg EXCEPT ![h] = p]
    /\ overlapped' = IF Others(h) = {} THEN overlapped \ {h}
                                      ELSE overlapped \cup Others(h) \cup {h}
    /\ tainted' = (tainted \/ Others(h) # {})
    /\ before' = NoFile
    /\ UNCHANGED <<app, bak, records, service, tries, stripped, crashes>>

Stop(h) ==
    /\ At(h, "stop", "unlink")
    /\ service' = "stopped"
    /\ UNCHANGED <<app, bak, records, request, history>>

\* Variant of Unlink: an earlier backup is kept instead of making a new one.
KeepBackup(h) ==
    /\ At(h, "unlink", IF Exists(bak) THEN "copy" ELSE "backup")
    /\ before' = IF h \in overlapped THEN NoFile ELSE app
    /\ UNCHANGED <<app, bak, records, service, request, tainted, overlapped, stripped, crashes>>

\* Variant of Unlink: the earlier backup is deleted and no new one made.
UnlinkOnly(h) ==
    /\ At(h, "unlink", "copy")
    /\ bak' = NoFile
    /\ tainted' = (tainted \/ ~Recorded)
    /\ before' = IF h \in overlapped THEN NoFile ELSE app
    /\ UNCHANGED <<app, records, service, request, overlapped, stripped, crashes>>

Unlink(h) ==
    /\ At(h, "unlink", IF Exists(app) THEN "backup" ELSE "copy")
    /\ bak' = NoFile
    /\ tainted' = (tainted \/ ~Recorded)
    /\ before' = IF h \in overlapped THEN NoFile ELSE app
    /\ UNCHANGED <<app, records, service, request, overlapped, stripped, crashes>>

BackupBegin(h) ==
    /\ At(h, "backup", "backingUp")
    /\ bak' = Truncated(bak)
    /\ UNCHANGED <<app, records, service, request, history>>

BackupData(h) ==
    /\ At(h, "backingUp", "backedUp")
    /\ bak' \in Filled(h, bak, app.data)
    /\ UNCHANGED <<app, records, service, request, history>>

\* Variant of BackupMode: the mode is not copied (shutil.copyfile).
BackupDataOnly(h) ==
    /\ At(h, "backedUp", "copy") /\ Exists(bak)
    /\ UNCHANGED <<app, bak, records, service, request, history>>

BackupMode(h) ==
    /\ At(h, "backedUp", "copy") /\ Exists(bak)
    /\ bak' = [bak EXCEPT !.exec = app.exec]
    /\ UNCHANGED <<app, records, service, request, history>>

\* The executable of a running process cannot be opened for writing.
CopyBegin(h) ==
    /\ At(h, "copy", "copying") /\ service # "running"
    /\ app' = Truncated(app)
    /\ UNCHANGED <<bak, records, service, request, history>>

CopyData(h) ==
    /\ At(h, "copying", "copied")
    /\ app' \in Filled(h, app, pkg[h])
    /\ UNCHANGED <<bak, records, service, request, history>>

\* Files extracted from the archive may not be executed.
CopyMode(h) ==
    /\ At(h, "copied", "chmod")
    /\ app' = [app EXCEPT !.exec = FALSE]
    /\ UNCHANGED <<bak, records, service, request, history>>

\* Variant of Chmod: the mode is left as the archive has it.
ChmodNothing(h) ==
    /\ At(h, "chmod", "launch")
    /\ UNCHANGED <<app, bak, records, service, request, history>>

Chmod(h) ==
    /\ At(h, "chmod", "launch")
    /\ app' = [app EXCEPT !.exec = TRUE]
    /\ UNCHANGED <<bak, records, service, request, history>>

Launch(h) ==
    /\ At(h, "launch", "check")
    /\ service' = IF service = "running" THEN service ELSE Started
    /\ UNCHANGED <<app, bak, records, request, history>>

\* Variant of CheckUp: the loop has no end.
CheckForever(h) ==
    /\ At(h, "check", "check") /\ service = "running"
    /\ UNCHANGED <<app, bak, records, service, request, history>>

CheckUp(h) ==
    /\ At(h, "check", IF tries[h] + 1 < Checks THEN "check" ELSE "decide")
    /\ service = "running"
    /\ tries' = [tries EXCEPT ![h] = IF @ + 1 < Checks THEN @ + 1 ELSE 0]
    /\ UNCHANGED <<app, bak, records, service, pkg, history>>

\* "Application validation failed": the loop ends, and the outcome is not kept.
CheckDown(h) ==
    /\ At(h, "check", "decide") /\ service # "running"
    /\ tries' = [tries EXCEPT ![h] = 0]
    /\ UNCHANGED <<app, bak, records, service, pkg, history>>

\* Variant of Decide: an app that is not running is launched again.
DecideRetry(h) ==
    /\ At(h, "decide", IF service = "running" THEN "hash" ELSE "launch")
    /\ UNCHANGED <<app, bak, records, service, request, history>>

\* Whether to keep the app is decided by asking systemd once more.
Decide(h) ==
    /\ At(h, "decide", IF service = "running" THEN "hash" ELSE "restore")
    /\ UNCHANGED <<app, bak, records, service, request, history>>

\* Variant of HashBegin: a hash file that exists is kept.
KeepHash(h) ==
    /\ At(h, "hash", IF hash = Absent THEN "hashing" ELSE "version")
    /\ hash' = IF hash = Absent THEN Partial ELSE hash
    /\ UNCHANGED <<app, bak, version, service, request, history>>

HashBegin(h) ==
    /\ At(h, "hash", "hashing")
    /\ hash' = Partial
    /\ UNCHANGED <<app, bak, version, service, request, history>>

HashEnd(h) ==
    /\ At(h, "hashing", "version")
    /\ hash' = pkg[h]
    /\ tainted' = (tainted /\ h \in overlapped)
    /\ stripped' = (stripped /\ h \in overlapped)
    /\ UNCHANGED <<app, bak, version, service, request, before, overlapped, crashes>>

VersionBegin(h) ==
    /\ At(h, "version", "versioning")
    /\ version' = Partial
    /\ UNCHANGED <<app, bak, hash, service, request, history>>

\* "Updated successfully".
VersionEnd(h) ==
    /\ At(h, "versioning", "idle")
    /\ version' = pkg[h]
    /\ UNCHANGED <<app, bak, hash, service, request, history>>
-----------------------------------------------------------------------------
(* restore_backup and the launch after it, by a handler whose app did not  *)
(* start and by the boot.                                                  *)

RestoreAbsent(t) ==
    /\ At(t, "restore", "relaunch") /\ ~Exists(bak)
    /\ UNCHANGED <<app, bak, records, service, request, history>>

RestoreBegin(t) ==
    /\ At(t, "restore", "restoring") /\ Exists(bak) /\ service # "running"
    /\ app' = Truncated(app)
    /\ UNCHANGED <<bak, records, service, request, history>>

RestoreData(t) ==
    /\ At(t, "restoring", "restored")
    /\ app' \in Filled(t, app, bak.data)
    /\ UNCHANGED <<bak, records, service, request, history>>

RestoreMode(t) ==
    /\ At(t, "restored", "relaunch") /\ Exists(bak)
    /\ app' = [app EXCEPT !.exec = bak.exec]
    /\ UNCHANGED <<bak, records, service, request, history>>

\* "rollback done" for a handler; the boot goes on to serve requests.
Relaunch(t) ==
    /\ At(t, "relaunch", Done(t))
    /\ service' = IF service = "running" THEN service ELSE Started
    /\ UNCHANGED <<app, bak, records, request, history>>

Restore(t) == RestoreAbsent(t) \/ RestoreBegin(t) \/ RestoreData(t) \/ RestoreMode(t)
                \/ Relaunch(t)

Install(h) ==
    \/ Stop(h) \/ Unlink(h) \/ BackupBegin(h) \/ BackupData(h) \/ BackupMode(h)
    \/ CopyBegin(h) \/ CopyData(h) \/ CopyMode(h) \/ Chmod(h) \/ Launch(h)
    \/ CheckUp(h) \/ CheckDown(h) \/ Decide(h)
    \/ HashBegin(h) \/ HashEnd(h) \/ VersionBegin(h) \/ VersionEnd(h)

\* A file operation raises an exception (the disk is full, the executable busy,
\* the file gone): a handler answers 500 and leaves everything as it is, the boot
\* ends the service.
FileSteps == {"unlink", "backup", "backingUp", "backedUp", "copy", "copying", "copied",
              "chmod", "hash", "hashing", "version", "versioning", "restore",
              "restoring", "restored"}

\* Between the data a copy brings and the mode it ends with.
Unmoded == {"copied", "chmod", "restored"}

Interrupt(S) == stripped' = (stripped \/ (Recorded /\ \E t \in S : pc[t] \in Unmoded))

Fail(t) ==
    /\ pc[t] \in FileSteps
    /\ pc' = [pc EXCEPT ![t] = IF t = Boot THEN "down" ELSE "idle"]
    /\ Interrupt({t})
    /\ UNCHANGED <<app, bak, records, service, request, before, tainted, overlapped, crashes>>
-----------------------------------------------------------------------------
(* Boot, systemd and power.                                                *)

\* By the time the service boots systemd may have started the daemon.
Start ==
    /\ At(Boot, "down", "validate")
    /\ service' \in {service, Started}
    /\ UNCHANGED <<app, bak, records, request, history>>

NeedsRestore == (Exists(app) \/ Exists(bak)) /\ ~Recorded

\* Variant of Validate: the recorded hash is not compared.
ValidateNothing ==
    /\ At(Boot, "validate", IF ~Exists(app) THEN "bootStop" ELSE "up")
    /\ UNCHANGED <<app, bak, records, service, request, history>>

Validate ==
    /\ At(Boot, "validate", IF NeedsRestore THEN "bootStop" ELSE "up")
    /\ UNCHANGED <<app, bak, records, service, request, history>>

BootStop ==
    /\ At(Boot, "bootStop", "restore")
    /\ service' = "stopped"
    /\ UNCHANGED <<app, bak, records, request, history>>

BootStep == Start \/ Validate \/ BootStop

Die ==
    /\ service = "running" /\ app.data \in Flaky
    /\ service' = "failed"
    /\ UNCHANGED <<app, bak, records, pc, request, history>>

AutoRestart ==
    /\ service = "failed" /\ Runnable
    /\ service' = "running"
    /\ UNCHANGED <<app, bak, records, pc, request, history>>

Crash ==
    /\ crashes < MaxCrashes
    /\ crashes' = crashes + 1
    /\ pc' = [t \in Threads |-> IF t = Boot THEN "down" ELSE "idle"]
    /\ service' = "stopped"
    /\ tries' = [h \in Handlers |-> 0]
    /\ Interrupt(Threads)
    /\ UNCHANGED <<app, bak, records, pkg, before, tainted, overlapped>>

Next ==
    \/ \E h \in Handlers : Upload(h) \/ Install(h)
    \/ \E t \in Threads : Restore(t) \/ Fail(t)
    \/ BootStep \/ Die \/ AutoRestart \/ Crash

Spec == Init /\ [][Next]_vars

(* Fairness.  The handler of a request goes on to its end.                 *)
Fairness == \A h \in Handlers : WF_vars(Install(h) \/ Restore(h) \/ Fail(h))

FairSpec == Spec /\ Fairness
-----------------------------------------------------------------------------
Files == [data : Images \cup {Absent, Partial}, exec : BOOLEAN]
HandlerStates == FileSteps \cup {"idle", "stop", "launch", "check", "decide", "relaunch"}
BootStates == {"down", "validate", "bootStop", "restore", "restoring", "restored",
               "relaunch", "up"}

\* Every variable keeps to the values the code can give it.
TypeOK ==
    /\ app \in Files /\ bak \in Files
    /\ hash \in Images \cup {Absent, Partial}
    /\ version \in Images \cup {Absent, Partial}
    /\ service \in {"stopped", "running", "failed"}
    /\ pc \in [Threads -> HandlerStates \cup BootStates]
    /\ pc[Boot] \in BootStates /\ \A h \in Handlers : pc[h] \in HandlerStates
    /\ pkg \in [Handlers -> Images]
    /\ tries \in [Handlers -> 0..Checks - 1]
    /\ before \in Files
    /\ tainted \in BOOLEAN /\ stripped \in BOOLEAN /\ overlapped \subseteq Handlers
    /\ crashes \in 0..MaxCrashes

\* No handler while the service boots; uploads that are there at the same time met, and
\* an upload that met another is over before anything is promised again.
Exclusive ==
    /\ pc[Boot] = "up" \/ \A h \in Handlers : pc[h] = "idle"
    /\ \A h \in Handlers : pc[h] # "idle" /\ h \in overlapped => tainted
    /\ \A g, h \in Handlers :
          g # h /\ pc[g] # "idle" /\ pc[h] # "idle" => {g, h} \subseteq overlapped

Whole(f) == f.data \in Images

\* The image that validate_app_file ends with when it runs now.
Committed == IF ~Recorded /\ Whole(bak) THEN bak.data ELSE app.data

\* A boot that finds this state ends with a complete app.
Recoverable == Recorded \/ Whole(bak) \/ (Whole(app) /\ ~Exists(bak))

BackingUp == {"backup", "backingUp", "backedUp"}
Unsaved == {"idle", "stop", "unlink"} \cup BackingUp
Accepted == {"hash", "hashing"}
Recording == {"version", "versioning"}
Launched == {"launch", "check", "decide"} \cup Accepted \cup Recording
Installed == {"copied", "chmod"} \cup Launched

\* What an upload that met no other has done so far: the backup is the app it found,
\* then the app is the package, and the hash its own, or the app is the backup again.
UploadInv(h) ==
    h \notin overlapped =>
        /\ pc[h] \notin {"idle", "stop", "unlink"} => Exists(before)
        /\ pc[h] \in BackingUp => app = before
        /\ pc[h] = "backedUp" => bak.data = app.data
        /\ pc[h] \notin Unsaved => bak = before
        /\ pc[h] \in Installed => app.data = pkg[h]
        /\ pc[h] \in Launched => app.exec
        /\ pc[h] \in Recording => hash = pkg[h]
        /\ pc[h] = "versioning" => version = Partial
        /\ pc[h] = "restored" => app.data = bak.data
        /\ pc[h] = "relaunch" => app = bak

\* Between the launch and the decision an app that cannot die is running, if the upload
\* met no other.
HealthInv(h) ==
    h \notin overlapped /\ pkg[h] \notin Flaky /\ pc[h] \in {"check", "decide"}
        => service = "running"

\* The app is overwritten only while the backup is whole and the one on record, the
\* backup only while the app is the recorded one.
HandlerSafe(h) ==
    /\ pc[h] \in BackingUp => Recorded
    /\ pc[h] \notin Unsaved \cup Recording => Whole(bak)
    /\ pc[h] \notin Unsaved \cup Recording \cup {"hashing"} => hash = bak.data
    /\ pc[h] = "hashing" => hash = Partial

BootSafe ==
    /\ pc[Boot] \in {"bootStop", "restore", "restoring"} => ~Recorded
    /\ pc[Boot] \in {"restoring", "restored"} => Whole(bak)
    /\ pc[Boot] \in {"restored", "relaunch"} => Whole(app) /\ app.data = Committed

\* Whatever a boot would run may be executed: the recorded app, or else the backup.
Executable ==
    /\ Recorded => app.exec \/ \E t \in Threads : pc[t] \in Unmoded
    /\ ~Recorded => (Whole(bak) => bak.exec) /\ (Exists(bak) \/ app.exec)
    /\ \A h \in Handlers :
          pc[h] \notin {"idle", "stop", "unlink"} \cup Recording => before.exec
    /\ pc[Boot] = "restored" => bak.exec
    /\ pc[Boot] = "relaunch" => app.exec

Safe == Recoverable /\ BootSafe /\ \A h \in Handlers : HandlerSafe(h)

IInv ==
    /\ TypeOK /\ Exclusive
    /\ Exists(app) /\ (pc[Boot] = "restoring" => Exists(bak))
    /\ \A h \in Handlers : UploadInv(h)
    /\ \A h \in Handlers : HealthInv(h)
    /\ ~tainted => Safe /\ (~stripped => Executable)

\* As long as uploads keep apart and a backup is replaced only while the app is the
\* one whose hash is on record, a complete image is on the device at every moment,
\* whatever fails and whenever.
ImageSurvives == ~tainted => app.data \in Images \/ bak.data \in Images

\* On the same condition the service comes up with a complete app, and with the one
\* of the last update that was recorded.
BootRecovers ==
    [][pc[Boot] # "up" /\ pc'[Boot] = "up"
         => (app'.data \in Images /\ app'.data = Committed) \/ tainted]_vars

\* And with one that can be executed, unless an interruption between the data of a copy
\* and its mode found the recorded app.
BootRuns ==
    [][pc[Boot] # "up" /\ pc'[Boot] = "up" => Runnable' \/ tainted \/ stripped]_vars

\* How far an upload is, from outside.
Phase(s) ==
    IF s = "idle" THEN "idle"
    ELSE IF s \in {"restore", "restoring", "restored", "relaunch"} \cup Recording THEN "ending"
    ELSE IF s \in Accepted THEN "accepted" ELSE "trying"

Update == INSTANCE AtomicUpdate WITH
    image <- IF tainted THEN Absent ELSE Committed,
    phase <- [h \in Handlers |-> Phase(pc[h])],
    candidate <- pkg,
    None <- Absent

\* An update is atomic: what the next boot would run changes in one step, the last
\* byte of the hash file of an upload whose app ran, to the image of that upload, and
\* not by any failure of power, disk or app.
UpdateIsAtomic == Update!AtomicSpec

\* "rollback done" means that the app of before the update is back, mode included, if
\* the upload met no other.
RollbackRestores ==
    [][\A h \in Handlers \ overlapped :
          pc[h] = "relaunch" /\ pc'[h] = "idle" /\ UNCHANGED crashes => app' = before]_vars

\* An upload that met no other rolls back only an app that can die: one that runs is kept,
\* although whether to is asked once more after the health loop (kaonic-ota.py:150).
HealthyAppIsKept ==
    [][\A h \in Handlers \ overlapped :
          pc[h] # "restore" /\ pc'[h] = "restore" => pkg[h] \in Flaky]_vars

Succeeds(h) == pc[h] = "versioning" /\ pc'[h] = "idle" /\ version' # Partial

\* "Updated successfully" means that the app is the package's, can be executed,
\* and is the one that hash and version name, if the upload met no other.
SuccessIsRecorded ==
    [][\A h \in Handlers \ overlapped :
          Succeeds(h) => /\ app' = [data |-> pkg[h], exec |-> TRUE]
                         /\ hash' = pkg[h] /\ version' = pkg[h]]_vars

\* How far an upload is from its answer, health checks not counted.
Left ==
    [stop |-> 16, unlink |-> 15, backup |-> 14, backingUp |-> 13, backedUp |-> 12,
     copy |-> 11, copying |-> 10, copied |-> 9, chmod |-> 8, launch |-> 7, check |-> 6,
     decide |-> 5, restore |-> 4, restoring |-> 3, restored |-> 2, relaunch |-> 1,
     hash |-> 4, hashing |-> 3, version |-> 2, versioning |-> 1, idle |-> 0]

\* An upload has a bounded number of steps: each brings it nearer to its answer, or counts
\* one of the health checks, whatever the new app, the disk and other uploads do.
UploadNearsEnd ==
    [][\A h \in Handlers : pc[h] # "idle" =>
          \/ UNCHANGED <<pc[h], tries[h]>>
          \/ Left[pc'[h]] < Left[pc[h]]
          \/ pc'[h] = pc[h] /\ tries[h] < tries'[h] /\ tries'[h] < Checks]_vars

\* Every upload is answered, whatever the new app does and whichever others it meets.
UploadAnswered == \A h \in Handlers : pc[h] # "idle" ~> pc[h] = "idle"

\* kaonic-ota.py:47 and :214, "Restoring app from the backup", "Backup restored":
\* the service never comes up with an incomplete app.
BootAlwaysRecovers ==
    [][pc[Boot] # "up" /\ pc'[Boot] = "up" => app'.data \in Images]_vars
=============================================================================
