------------------------- MODULE OtaUpdaterProofs --------------------------
(* As long as uploads keep apart and a backup is replaced only while the    *)
(* installed app is the recorded one, a complete executable survives every *)
(* failure of power, disk or app, and boot finds it; an upload that met no *)
(* other does what it answers, whatever happened before it.  For all       *)
(* images and any number of threads, power failures and health checks.     *)
EXTENDS OtaUpdater, TLAPS

\* The invariant without the types and the health of the app.
SafetyInv ==
    /\ Exclusive
    /\ Exists(app) /\ (pc[Boot] = "restoring" => Exists(bak))
    /\ \A h \in Handlers : UploadInv(h)
    /\ ~tainted => Safe /\ (~stripped => Executable)

\* What a step of one thread does to the places of the threads.
LEMMA Places ==
    ASSUME TypeOK, NEW t \in Threads, NEW from, NEW to, At(t, from, to)
    PROVE  /\ pc[t] = from /\ pc'[t] = to
           /\ \A u \in Threads \ {t} : pc'[u] = pc[u]
           /\ pc' \in [Threads -> HandlerStates \cup BootStates \cup {to}]
BY DEF TypeOK, At

\* Nobody interferes with a copy of a thread whose upload met no other.
LEMMA FilledAlone ==
    ASSUME NEW t, NEW f, NEW d, t \notin overlapped
    PROVE  Filled(t, f, d) = {[f EXCEPT !.data = d]}
BY DEF Filled

\* An interrupted thread, or all of them, leave a mark of the mode they owe.
LEMMA Marked ==
    ASSUME NEW S, Interrupt(S), ~stripped', stripped \in BOOLEAN
    PROVE  ~stripped /\ (Recorded => \A t \in S : pc[t] \notin Unmoded)
<1>1. CASE stripped = TRUE
    BY <1>1 DEF Interrupt
<1>2. CASE stripped = FALSE
    BY <1>2 DEF Interrupt
<1> QED BY <1>1, <1>2

LEMMA InitIInv == Init => IInv
<1> SUFFICES ASSUME Init PROVE IInv
    OBVIOUS
<1>1. /\ pc[Boot] = "down" /\ \A h \in Handlers : pc[h] = "idle"
      /\ pc \in [Threads -> {"down", "idle"}]
    BY OtaAssumption DEF Init, Threads
<1>2. app \in Files /\ bak \in Files /\ Whole(app) /\ ~Exists(bak)
    BY OtaAssumption DEF Init, Files, NoFile, Whole, Exists
<1>3. TypeOK
  <2>1. /\ pc \in [Threads -> HandlerStates \cup BootStates]
        /\ pc[Boot] \in BootStates /\ \A h \in Handlers : pc[h] \in HandlerStates \ {"check"}
      BY <1>1 DEF HandlerStates, BootStates
  <2>2. /\ hash \in Images \cup {Absent, Partial} /\ version \in Images \cup {Absent, Partial}
        /\ pkg \in [Handlers -> Images] /\ before \in Files
      BY OtaAssumption DEF Init, Files, NoFile
  <2>3. tries \in [Handlers -> 0..Checks - 1] /\ crashes \in 0..MaxCrashes
      BY OtaAssumption DEF Init
  <2>4. service = "stopped" /\ tainted = FALSE /\ stripped = FALSE /\ overlapped = {}
      BY DEF Init
  <2> QED BY <1>2, <2>1, <2>2, <2>3, <2>4 DEF TypeOK
<1>4. Recoverable /\ BootSafe /\ \A h \in Handlers : HandlerSafe(h)
    BY <1>1, <1>2 DEF Recoverable, BootSafe, HandlerSafe, Unsaved, BackingUp
<1>6. /\ Exists(app) /\ (pc[Boot] = "restoring" => Exists(bak))
      /\ \A h \in Handlers : UploadInv(h) /\ HealthInv(h)
    BY <1>1, <1>2, OtaAssumption
    DEF UploadInv, HealthInv, Unsaved, BackingUp, Installed, Launched, Accepted, Recording, Whole, Exists
<1>5. Exclusive
    BY <1>1 DEF Exclusive
<1>7. Executable
  <2>1. app.exec /\ pc[Boot] = "down" /\ \A h \in Handlers : pc[h] = "idle"
      BY <1>1 DEF Init
  <2>2. ~Whole(bak)
      BY <1>2, OtaAssumption DEF Init, NoFile, Whole
  <2> QED BY <2>1, <2>2 DEF Executable
<1> QED BY <1>3, <1>4, <1>5, <1>6, <1>7 DEF IInv, Safe

LEMMA TypeStep == TypeOK /\ [Next]_vars => TypeOK'
<1> SUFFICES ASSUME TypeOK, [Next]_vars PROVE TypeOK'
    OBVIOUS
<1> USE OtaAssumption DEF TypeOK, Files, Threads, HandlerStates, BootStates, FileSteps, At, Exists, Truncated,
      records, request, history
<1>1. ASSUME NEW h \in Handlers, Upload(h) PROVE TypeOK'
  <2>1. overlapped' \subseteq Handlers /\ tainted' \in BOOLEAN /\ before' \in Files
      BY <1>1 DEF Upload, Others, NoFile
  <2> QED BY <1>1, <2>1 DEF Upload
<1>2. ASSUME NEW h \in Handlers, Stop(h) PROVE TypeOK'
    BY <1>2 DEF Stop
<1>3. ASSUME NEW h \in Handlers, Unlink(h) PROVE TypeOK'
  <2>1. PICK to \in {"backup", "copy"} : At(h, "unlink", to)
      BY <1>3, ZenonT(30) DEF Unlink
  <2>2. pc' \in [Threads -> HandlerStates \cup BootStates] /\ pc'[Boot] \in BootStates
        /\ \A g \in Handlers : pc'[g] \in HandlerStates
      BY <2>1
  <2>3. tainted' \in BOOLEAN /\ bak' \in Files /\ before' \in Files
      BY <1>3 DEF Unlink, NoFile
  <2>4. UNCHANGED <<app, hash, version, service, pkg, tries, overlapped, stripped, crashes>>
      BY <1>3 DEF Unlink
  <2> QED BY <2>2, <2>3, <2>4
<1>4. ASSUME NEW h \in Handlers, BackupBegin(h) PROVE TypeOK'
    BY <1>4 DEF BackupBegin
<1>5. ASSUME NEW h \in Handlers, BackupData(h) PROVE TypeOK'
    BY <1>5 DEF BackupData, Filled
<1>6. ASSUME NEW h \in Handlers, BackupMode(h) PROVE TypeOK'
    BY <1>6 DEF BackupMode
<1>7. ASSUME NEW h \in Handlers, CopyBegin(h) PROVE TypeOK'
    BY <1>7 DEF CopyBegin
<1>8. ASSUME NEW h \in Handlers, CopyData(h) PROVE TypeOK'
    BY <1>8 DEF CopyData, Filled
<1>9. ASSUME NEW h \in Handlers, CopyMode(h) PROVE TypeOK'
  <2>1. app' \in Files
      BY <1>9 DEF CopyMode
  <2>2. /\ pc' \in [Threads -> HandlerStates \cup BootStates] /\ pc'[Boot] \in BootStates
        /\ \A g \in Handlers : pc'[g] \in HandlerStates
      BY <1>9 DEF CopyMode
  <2>3. UNCHANGED <<bak, hash, version, service, pkg, tries, history>>
      BY <1>9 DEF CopyMode
  <2> QED BY <2>1, <2>2, <2>3
<1>10. ASSUME NEW h \in Handlers, Chmod(h) PROVE TypeOK'
  <2>1. app' \in Files
      BY <1>10 DEF Chmod
  <2>2. /\ pc' \in [Threads -> HandlerStates \cup BootStates] /\ pc'[Boot] \in BootStates
        /\ \A g \in Handlers : pc'[g] \in HandlerStates
      BY <1>10 DEF Chmod
  <2>3. UNCHANGED <<bak, hash, version, service, pkg, tries, history>>
      BY <1>10 DEF Chmod
  <2> QED BY <2>1, <2>2, <2>3
<1>11. ASSUME NEW h \in Handlers, Launch(h) PROVE TypeOK'
    BY <1>11 DEF Launch, Started, Runnable
<1>12. ASSUME NEW h \in Handlers, CheckUp(h) PROVE TypeOK'
  <2>1. tries' \in [Handlers -> 0..Checks - 1]
      BY <1>12 DEF CheckUp
  <2>2. PICK to \in {"check", "decide"} : At(h, "check", to)
      BY <1>12, ZenonT(30) DEF CheckUp
  <2>3. pc' \in [Threads -> HandlerStates \cup BootStates] /\ pc'[Boot] \in BootStates
        /\ \A g \in Handlers : pc'[g] \in HandlerStates
      BY <2>2
  <2>4. UNCHANGED <<app, bak, hash, version, service, pkg, history>>
      BY <1>12 DEF CheckUp
  <2> QED BY <2>1, <2>3, <2>4
<1>13. ASSUME NEW h \in Handlers, CheckDown(h) PROVE TypeOK'
    BY <1>13 DEF CheckDown
<1>14. ASSUME NEW h \in Handlers, Decide(h) PROVE TypeOK'
    BY <1>14 DEF Decide
<1>15. ASSUME NEW h \in Handlers, HashBegin(h) PROVE TypeOK'
    BY <1>15 DEF HashBegin
<1>16. ASSUME NEW h \in Handlers, HashEnd(h) PROVE TypeOK'
  <2>1. tainted' \in BOOLEAN /\ stripped' \in BOOLEAN
      BY <1>16 DEF HashEnd
  <2> QED BY <1>16, <2>1 DEF HashEnd
<1>17. ASSUME NEW h \in Handlers, VersionBegin(h) PROVE TypeOK'
    BY <1>17 DEF VersionBegin
<1>18. ASSUME NEW h \in Handlers, VersionEnd(h) PROVE TypeOK'
    BY <1>18 DEF VersionEnd
<1>19. ASSUME NEW t \in Threads, RestoreAbsent(t) PROVE TypeOK'
    BY <1>19 DEF RestoreAbsent
<1>20. ASSUME NEW t \in Threads, RestoreBegin(t) PROVE TypeOK'
    BY <1>20 DEF RestoreBegin
<1>21. ASSUME NEW t \in Threads, RestoreData(t) PROVE TypeOK'
    BY <1>21 DEF RestoreData, Filled
<1>22. ASSUME NEW t \in Threads, RestoreMode(t) PROVE TypeOK'
    BY <1>22 DEF RestoreMode
<1>23. ASSUME NEW t \in Threads, Relaunch(t) PROVE TypeOK'
    BY <1>23 DEF Relaunch, Started, Runnable, Done
<1>24. ASSUME NEW t \in Threads, Fail(t) PROVE TypeOK'
    BY <1>24 DEF Fail, Interrupt
<1>25. CASE Start
    BY <1>25 DEF Start, Started, Runnable
<1>26. CASE Validate
    BY <1>26 DEF Validate
<1>27. CASE BootStop
    BY <1>27 DEF BootStop
<1>28. CASE Die
    BY <1>28 DEF Die
<1>29. CASE AutoRestart
    BY <1>29 DEF AutoRestart
<1>30. CASE Crash
    BY <1>30 DEF Crash, Interrupt
<1>31. CASE UNCHANGED vars
    BY <1>31 DEF vars
<1> QED
    BY <1>1, <1>2, <1>3, <1>4, <1>5, <1>6, <1>7, <1>8, <1>9, <1>10, <1>11, <1>12, <1>13, <1>14, <1>15, <1>16, <1>17, <1>18, <1>19, <1>20, <1>21, <1>22, <1>23, <1>24, <1>25, <1>26, <1>27, <1>28, <1>29, <1>30, <1>31
    DEF Next, Install, Restore, BootStep

\* The step of a handler moves it and nobody else, while the boot is over.
LEMMA HandlerAt ==
    ASSUME IInv, NEW h \in Handlers, Upload(h) \/ Install(h) \/ Restore(h) \/ Fail(h)
    PROVE  /\ TypeOK /\ Exclusive /\ h \in Threads /\ h # Boot
           /\ pc[Boot] = "up" /\ UNCHANGED pc[Boot]
           /\ \E to : At(h, pc[h], to) /\ pc'[h] = to
           /\ \A g \in Handlers \ {h} : pc'[g] = pc[g]
           /\ ~Upload(h) => pc[h] # "idle"
<1>1. h \in Threads /\ h # Boot /\ Boot \in Threads /\ TypeOK /\ Exclusive
    BY OtaAssumption DEF Threads, IInv
<1>2. /\ \E to : At(h, pc[h], to)
      /\ pc[h] # "idle" \/ (Upload(h) /\ pc[Boot] = "up")
    BY ZenonT(60) DEF Install, Restore, At, FileSteps, Upload, Stop, Unlink,
      BackupBegin, BackupData, BackupMode, CopyBegin, CopyData, CopyMode, Chmod, Launch,
      CheckUp, CheckDown, Decide, HashBegin, HashEnd, VersionBegin, VersionEnd,
      RestoreAbsent, RestoreBegin, RestoreData, RestoreMode, Relaunch, Fail
<1>3. PICK to : At(h, pc[h], to)
    BY <1>2
<1>4. pc'[h] = to /\ pc'[Boot] = pc[Boot] /\ \A g \in Handlers \ {h} : pc'[g] = pc[g]
    BY <1>1, <1>3, Places DEF Threads
<1>5. pc[Boot] = "up"
    BY <1>2 DEF IInv, Exclusive
<1> QED BY <1>1, <1>2, <1>3, <1>4, <1>5

\* Only the beginning of an upload marks it and those it meets, and nothing is
\* promised again before they are over.
LEMMA Marks ==
    ASSUME NEW h \in Handlers, Install(h) \/ Restore(h) \/ Fail(h)
    PROVE  UNCHANGED overlapped /\ (tainted /\ h \in overlapped => tainted')
<1>1. CASE Unlink(h)
    BY <1>1 DEF Unlink
<1>2. CASE HashEnd(h)
    BY <1>2 DEF HashEnd
<1>3. CASE ~Unlink(h) /\ ~HashEnd(h)
  <2>1. UNCHANGED <<tainted, overlapped>>
      BY <1>3 DEF Install, Restore, history, Stop, BackupBegin, BackupData, BackupMode,
        CopyBegin, CopyData, CopyMode, Chmod, Launch, CheckUp, CheckDown, Decide,
        HashBegin, VersionBegin, VersionEnd, RestoreAbsent, RestoreBegin, RestoreData,
        RestoreMode, Relaunch, Fail
  <2> QED BY <2>1
<1> QED BY <1>1, <1>2, <1>3

LEMMA Meeting ==
    ASSUME IInv, NEW h \in Handlers, Upload(h) \/ Install(h) \/ Restore(h) \/ Fail(h),
           NEW g \in Handlers \ {h}, pc[g] # "idle"
    PROVE  tainted' /\ {g, h} \subseteq overlapped'
<1>1. CASE Upload(h)
    BY <1>1 DEF Upload, Others
<1>2. CASE ~Upload(h)
  <2>1. pc[h] # "idle" /\ Exclusive
      BY <1>2, HandlerAt
  <2>2. tainted /\ {g, h} \subseteq overlapped
      BY <2>1 DEF Exclusive
  <2> QED BY <1>2, <2>2, Marks
<1> QED BY <1>1, <1>2

\* An upload that leaves the promise in force has met nobody.
LEMMA Apart ==
    ASSUME IInv, NEW h \in Handlers, Upload(h) \/ Install(h) \/ Restore(h) \/ Fail(h),
           ~tainted'
    PROVE  /\ h \notin overlapped' /\ (pc[h] # "idle" => h \notin overlapped)
           /\ \A g \in Handlers \ {h} : pc[g] = "idle" /\ pc'[g] = "idle"
<1>1. \A g \in Handlers \ {h} : pc[g] = "idle" /\ pc'[g] = "idle"
    BY Meeting, HandlerAt
<1>2. CASE Upload(h)
  <2>1. Others(h) = {} /\ pc[h] = "idle"
      BY <1>1, <1>2 DEF Upload, Others, At
  <2> QED BY <1>1, <1>2, <2>1 DEF Upload
<1>3. CASE ~Upload(h)
  <2>1. h \in overlapped => tainted
      BY <1>3, HandlerAt DEF Exclusive
  <2> QED BY <1>1, <1>3, <2>1, Marks
<1> QED BY <1>2, <1>3

LEMMA StaysExclusive ==
    ASSUME IInv, NEW h \in Handlers, Upload(h) \/ Install(h) \/ Restore(h) \/ Fail(h)
    PROVE  Exclusive'
<1>1. pc'[Boot] = "up" /\ \A g \in Handlers \ {h} : pc'[g] = pc[g]
    BY HandlerAt
<1>2. ASSUME NEW g \in Handlers, pc'[g] # "idle", g \in overlapped' PROVE tainted'
  <2>1. CASE g # h
      BY <1>1, <1>2, <2>1, Meeting
  <2>2. CASE g = h
      BY <1>2, <2>2, Apart
  <2> QED BY <2>1, <2>2
<1>3. ASSUME NEW f \in Handlers, NEW g \in Handlers, f # g, pc'[f] # "idle", pc'[g] # "idle"
      PROVE  {f, g} \subseteq overlapped'
  <2>1. CASE f = h
      BY <1>1, <1>3, <2>1, Meeting
  <2>2. CASE g = h
      BY <1>1, <1>3, <2>2, Meeting
  <2>3. CASE f # h /\ g # h
      BY <1>1, <1>3, <2>3, Meeting
  <2> QED BY <2>1, <2>2, <2>3
<1> QED BY <1>1, <1>2, <1>3 DEF Exclusive

\* Whatever uploads do to each other, there is an app file.
LEMMA AppStays ==
    ASSUME IInv, NEW h \in Handlers, Upload(h) \/ Install(h) \/ Restore(h) \/ Fail(h)
    PROVE  Exists(app)'
<1>1. /\ Exists(app) /\ app \in Files /\ bak \in Files /\ pkg[h] \in Images /\ UploadInv(h)
      /\ TypeOK /\ h \in Threads
    BY HandlerAt DEF IInv, TypeOK
<1>2. CASE UNCHANGED app
    BY <1>1, <1>2 DEF Exists
<1> USE <1>1, OtaAssumption DEF Exists, Files
<1>3. CASE CopyBegin(h) \/ RestoreBegin(h)
    BY <1>3 DEF CopyBegin, RestoreBegin, Truncated
<1>4. CASE CopyData(h)
    BY <1>4 DEF CopyData, Filled
<1>5. CASE RestoreData(h)
  <2>1. pc[h] = "restoring" /\ app' \in Filled(h, app, bak.data)
      BY <1>5 DEF RestoreData, At
  <2>2. CASE h \in overlapped
      BY <2>1, <2>2 DEF Filled
  <2>3. CASE h \notin overlapped
      BY <2>1, <2>3 DEF Filled, UploadInv, Unsaved, BackingUp
  <2> QED BY <2>2, <2>3
<1>6. CASE CopyMode(h) \/ Chmod(h) \/ RestoreMode(h)
    BY <1>6 DEF CopyMode, Chmod, RestoreMode
<1> QED
    BY <1>2, <1>3, <1>4, <1>5, <1>6 DEF Install, Restore, Upload, Stop, Unlink,
      BackupBegin, BackupData, BackupMode, Launch, CheckUp, CheckDown, Decide, HashBegin,
      HashEnd, VersionBegin, VersionEnd, RestoreAbsent, Relaunch, Fail

\* An upload that met no other does what UploadInv says of it, tainted or not.
LEMMA UploadStep ==
    ASSUME IInv, NEW h \in Handlers, Upload(h) \/ Install(h) \/ Restore(h) \/ Fail(h)
    PROVE  UploadInv(h)'
<1> SUFFICES ASSUME h \notin overlapped' PROVE UploadInv(h)'
    BY DEF UploadInv
<1>1. /\ TypeOK /\ h \in Threads /\ \E to : At(h, pc[h], to) /\ pc'[h] = to
      /\ pc[h] # "idle" => h \notin overlapped
    BY HandlerAt, Marks DEF Upload, At
<1>2. PICK to : At(h, pc[h], to) /\ pc'[h] = to
    BY <1>1
<1>3. /\ Exists(app) /\ UploadInv(h) /\ app \in Files /\ bak \in Files /\ pkg[h] \in Images
      /\ before \in Files
    BY <1>1 DEF IInv, TypeOK
<1>a. Unlink(h) => /\ to = "backup" /\ pc[h] = "unlink" /\ UNCHANGED <<app, version>>
                   /\ before' = app
    BY <1>1, <1>2, <1>3 DEF Unlink, At, TypeOK, records
<1>b. CheckUp(h) => /\ pc[h] = "check" /\ to \in {"check", "decide"}
                    /\ UNCHANGED <<app, bak, hash, pkg, before>>
    BY <1>1, <1>2 DEF CheckUp, At, TypeOK, records, request, history
<1>c. Decide(h) => /\ pc[h] = "decide" /\ to \in {"hash", "restore"}
                   /\ UNCHANGED <<app, bak, hash, pkg, before>>
    BY <1>1, <1>2 DEF Decide, At, TypeOK, records, request, history
<1>e. HashEnd(h) => /\ pc[h] = "hashing" /\ to = "version" /\ hash' = pkg[h]
                    /\ UNCHANGED <<app, bak, version, pkg, before>>
    BY <1>1, <1>2 DEF HashEnd, At, TypeOK, request
<1>d. VersionEnd(h) => to = "idle" /\ UNCHANGED <<app, bak, hash, pkg, before>>
    BY <1>1, <1>2 DEF VersionEnd, At, TypeOK, records, request, history
<1> USE <1>1, <1>2, <1>3, OtaAssumption
    DEF UploadInv, Unsaved, BackingUp, Installed, Launched, Accepted, Recording, Exists,
        Files, At, records, request, history
<1>4. CASE Upload(h)
    BY <1>4 DEF Upload
<1>5. CASE Stop(h)
    BY <1>5 DEF Stop
<1>6. CASE Unlink(h)
    BY <1>6, <1>a
<1>7. CASE BackupBegin(h)
    BY <1>7 DEF BackupBegin, Truncated
<1>8. CASE BackupData(h)
    BY <1>8 DEF BackupData, Filled
<1>9. CASE BackupMode(h)
    BY <1>9 DEF BackupMode
<1>10. CASE CopyBegin(h)
    BY <1>10 DEF CopyBegin, Truncated
<1>11. CASE CopyData(h)
    BY <1>11 DEF CopyData, Filled
<1>12. CASE CopyMode(h)
    BY <1>12 DEF CopyMode
<1>13. CASE Chmod(h)
    BY <1>13 DEF Chmod
<1>14. CASE Launch(h)
    BY <1>14 DEF Launch
<1>15. CASE CheckUp(h)
    BY <1>15, <1>b
<1>16. CASE CheckDown(h)
    BY <1>16 DEF CheckDown
<1>17. CASE Decide(h)
    BY <1>17, <1>c
<1>18. CASE HashBegin(h)
    BY <1>18 DEF HashBegin
<1>19. CASE HashEnd(h)
    BY <1>19, <1>e
<1>20. CASE VersionBegin(h)
    BY <1>20 DEF VersionBegin
<1>21. CASE VersionEnd(h)
    BY <1>d, <1>21
<1>22. CASE RestoreAbsent(h)
    BY <1>22 DEF RestoreAbsent
<1>23. CASE RestoreBegin(h)
    BY <1>23 DEF RestoreBegin, Truncated
<1>24. CASE RestoreData(h)
    BY <1>24 DEF RestoreData, Filled
<1>25. CASE RestoreMode(h)
    BY <1>25 DEF RestoreMode
<1>26. CASE Relaunch(h)
    BY <1>26 DEF Relaunch, Done
<1>27. CASE Fail(h)
    BY <1>27 DEF Fail, FileSteps
<1> QED
    BY <1>4, <1>5, <1>6, <1>7, <1>8, <1>9, <1>10, <1>11, <1>12, <1>13, <1>14, <1>15,
      <1>16, <1>17, <1>18, <1>19, <1>20, <1>21, <1>22, <1>23, <1>24, <1>25, <1>26,
      <1>27
    DEF Install, Restore

\* As long as nothing is tainted a handler keeps the image recoverable.
LEMMA SafeStep ==
    ASSUME IInv, ~tainted', NEW h \in Handlers,
           Upload(h) \/ Install(h) \/ Restore(h) \/ Fail(h)
    PROVE  Recoverable' /\ HandlerSafe(h)' /\ (~HashEnd(h) => ~tainted)
<1>1. /\ TypeOK /\ h \in Threads /\ \E to : At(h, pc[h], to) /\ pc'[h] = to
      /\ pc[h] # "idle" => h \notin overlapped
    BY HandlerAt, Apart
<1>2. PICK to : At(h, pc[h], to) /\ pc'[h] = to
    BY <1>1
<1>0. CASE HashEnd(h)
  <2>1. /\ app.data = pkg[h] /\ pkg[h] \in Images /\ UNCHANGED app /\ hash' = pkg[h]
        /\ pc'[h] = "version"
      BY <1>0, <1>1, <1>2
      DEF HashEnd, At, TypeOK, IInv, UploadInv, Installed, Launched, Accepted
  <2> QED BY <1>0, <2>1 DEF Recoverable, Recorded, HandlerSafe, Unsaved, BackingUp, Recording
<1> SUFFICES ASSUME ~HashEnd(h) PROVE ~tainted /\ Recoverable' /\ HandlerSafe(h)'
    BY <1>0
<1>3. ~tainted
    BY DEF Install, Restore, history, Upload, Stop, Unlink, BackupBegin,
      BackupData, BackupMode, CopyBegin, CopyData, CopyMode, Chmod, Launch, CheckUp,
      CheckDown, Decide, HashBegin, VersionBegin, VersionEnd, RestoreAbsent,
      RestoreBegin, RestoreData, RestoreMode, Relaunch, Fail
<1>4. /\ Recoverable /\ HandlerSafe(h) /\ UploadInv(h) /\ Exists(app)
      /\ app \in Files /\ bak \in Files /\ pkg[h] \in Images
    BY <1>1, <1>3 DEF IInv, Safe, TypeOK
<1>a. Unlink(h) => /\ to = "backup" /\ pc[h] = "unlink" /\ Recorded
                   /\ UNCHANGED <<app, hash>>
    BY <1>1, <1>2, <1>4 DEF Unlink, At, TypeOK, records
<1>b. CheckUp(h) => /\ pc[h] = "check" /\ to \in {"check", "decide"}
                    /\ UNCHANGED <<app, bak, hash>>
    BY <1>1, <1>2 DEF CheckUp, At, TypeOK, records
<1>c. Decide(h) => /\ pc[h] = "decide" /\ to \in {"hash", "restore"}
                   /\ UNCHANGED <<app, bak, hash>>
    BY <1>1, <1>2 DEF Decide, At, TypeOK, records
<1>d. BackupData(h) => UNCHANGED <<app, hash>> /\ pc[h] = "backingUp" /\ to = "backedUp"
    BY <1>1, <1>2 DEF BackupData, At, TypeOK, records
<1>f. HashBegin(h) => /\ pc[h] = "hash" /\ to = "hashing" /\ hash' = Partial
                      /\ UNCHANGED <<app, bak>>
    BY <1>1, <1>2 DEF HashBegin, At, TypeOK
<1> USE <1>1, <1>2, <1>3, <1>4, OtaAssumption
    DEF Recoverable, HandlerSafe, UploadInv, Unsaved, BackingUp, Installed, Launched,
        Accepted, Recording, Recorded, Whole, Exists, Files, At, records, request, history
<1>5. CASE Upload(h)
    BY <1>5 DEF Upload
<1>6. CASE Stop(h)
    BY <1>6 DEF Stop
<1>7. CASE Unlink(h)
    BY <1>7, <1>a
<1>8. CASE BackupBegin(h)
    BY <1>8 DEF BackupBegin, Truncated
<1>9. CASE BackupData(h)
    BY <1>9, <1>d
<1>10. CASE BackupMode(h)
    BY <1>10 DEF BackupMode
<1>11. CASE CopyBegin(h)
    BY <1>11 DEF CopyBegin, Truncated
<1>12. CASE CopyData(h)
    BY <1>12 DEF CopyData, Filled
<1>13. CASE CopyMode(h)
    BY <1>13 DEF CopyMode
<1>14. CASE Chmod(h)
    BY <1>14 DEF Chmod
<1>15. CASE Launch(h)
    BY <1>15 DEF Launch
<1>16. CASE CheckUp(h)
    BY <1>16, <1>b
<1>17. CASE CheckDown(h)
    BY <1>17 DEF CheckDown
<1>18. CASE Decide(h)
    BY <1>18, <1>c
<1>19. CASE HashBegin(h)
    BY <1>f, <1>19
<1>21. CASE VersionBegin(h)
    BY <1>21 DEF VersionBegin
<1>22. CASE VersionEnd(h)
    BY <1>22 DEF VersionEnd
<1>23. CASE RestoreAbsent(h)
    BY <1>23 DEF RestoreAbsent
<1>24. CASE RestoreBegin(h)
    BY <1>24 DEF RestoreBegin, Truncated
<1>25. CASE RestoreData(h)
    BY <1>25 DEF RestoreData, Filled
<1>26. CASE RestoreMode(h)
    BY <1>26 DEF RestoreMode
<1>27. CASE Relaunch(h)
    BY <1>27 DEF Relaunch, Done
<1>28. CASE Fail(h)
    BY <1>28 DEF Fail, FileSteps
<1> QED
    BY <1>5, <1>6, <1>7, <1>8, <1>9, <1>10, <1>11, <1>12, <1>13, <1>14, <1>15,
      <1>16, <1>17, <1>18, <1>19, <1>21, <1>22, <1>23, <1>24, <1>25, <1>26,
      <1>27, <1>28
    DEF Install, Restore

\* And that what a boot would run may be executed.
LEMMA ExecStep ==
    ASSUME IInv, ~tainted', ~stripped', NEW h \in Handlers,
           Upload(h) \/ Install(h) \/ Restore(h) \/ Fail(h)
    PROVE  Executable'
<1>1. /\ TypeOK /\ h \in Threads /\ pc[Boot] = "up" /\ pc'[Boot] = "up"
      /\ \E to : At(h, pc[h], to) /\ pc'[h] = to
      /\ pc[h] # "idle" => h \notin overlapped
      /\ \A t \in Threads \ {h} : pc[t] \notin Unmoded
      /\ \A g \in Handlers \ {h} : pc'[g] = "idle"
    BY HandlerAt, Apart DEF Threads, Unmoded
<1>2. PICK to : At(h, pc[h], to) /\ pc'[h] = to
    BY <1>1
<1>3. /\ UploadInv(h) /\ app \in Files /\ bak \in Files /\ before \in Files
      /\ pkg[h] \in Images
    BY <1>1 DEF IInv, TypeOK
<1> SUFFICES /\ Recorded' => app'.exec \/ to \in Unmoded
             /\ ~Recorded' => (Whole(bak)' => bak'.exec) /\ (Exists(bak)' \/ app'.exec)
             /\ to \notin {"idle", "stop", "unlink"} \cup Recording => before'.exec
    BY <1>1, <1>2 DEF Executable
<1>4. CASE HashEnd(h)
  <2>1. /\ app.data = pkg[h] /\ app.exec /\ UNCHANGED app /\ hash' = pkg[h] /\ to = "version"
      BY <1>1, <1>2, <1>3, <1>4
      DEF HashEnd, At, TypeOK, UploadInv, Installed, Launched, Accepted
  <2> QED BY <1>3, <2>1 DEF Recorded, Recording
<1>5. ASSUME ~HashEnd(h)
      PROVE  ~tainted /\ ~stripped /\ (Fail(h) /\ Recorded => pc[h] \notin Unmoded)
  <2>1. CASE Fail(h)
      BY <1>1, <1>5, <2>1, SafeStep, Marked DEF Fail, TypeOK
  <2>2. CASE ~Fail(h)
    <3>1. UNCHANGED stripped
        BY <1>5, <2>2 DEF Install, Restore, history, Upload, Stop, Unlink, BackupBegin,
          BackupData, BackupMode, CopyBegin, CopyData, CopyMode, Chmod, Launch, CheckUp,
          CheckDown, Decide, HashBegin, VersionBegin, VersionEnd, RestoreAbsent,
          RestoreBegin, RestoreData, RestoreMode, Relaunch
    <3> QED BY <1>5, <2>2, <3>1, SafeStep
  <2> QED BY <2>1, <2>2
<1> SUFFICES ASSUME ~HashEnd(h)
             PROVE  /\ Recorded' => app'.exec \/ to \in Unmoded
                    /\ ~Recorded' => (Whole(bak)' => bak'.exec) /\ (Exists(bak)' \/ app'.exec)
                    /\ to \notin {"idle", "stop", "unlink"} \cup Recording => before'.exec
    BY <1>4
<1>6. /\ Recorded => app.exec \/ pc[h] \in Unmoded
      /\ ~Recorded => (Whole(bak) => bak.exec) /\ (Exists(bak) \/ app.exec)
      /\ pc[h] \notin {"idle", "stop", "unlink"} \cup Recording => before.exec
      /\ HandlerSafe(h)
    BY <1>1, <1>5 DEF IInv, Executable, Safe
<1>a. Unlink(h) => /\ to = "backup" /\ pc[h] = "unlink" /\ Recorded
                   /\ UNCHANGED <<app, hash>> /\ before' = app
    BY <1>1, <1>2 DEF Unlink, At, TypeOK, IInv, records
<1>b. CheckUp(h) => /\ pc[h] = "check" /\ to \in {"check", "decide"}
                    /\ UNCHANGED <<app, bak, hash, before>>
    BY <1>1, <1>2 DEF CheckUp, At, TypeOK, records, history
<1>c. Decide(h) => /\ pc[h] = "decide" /\ to \in {"hash", "restore"}
                   /\ UNCHANGED <<app, bak, hash, before>>
    BY <1>1, <1>2 DEF Decide, At, TypeOK, records, history
<1>d. Fail(h) => /\ to = "idle" /\ UNCHANGED <<app, bak, hash, before>>
    BY <1>1, <1>2, HandlerAt DEF Fail, TypeOK, records
<1> USE <1>1, <1>2, <1>3, <1>5, <1>6, OtaAssumption
    DEF HandlerSafe, UploadInv, Unsaved, BackingUp, Installed, Launched, Accepted,
        Recording, Recorded, Whole, Exists, Files, At, Unmoded, records, request, history
<1>7. CASE Upload(h)
    BY <1>7 DEF Upload
<1>8. CASE Stop(h)
    BY <1>8 DEF Stop
<1>9. CASE Unlink(h)
    BY <1>9, <1>a
<1>10. CASE BackupBegin(h)
    BY <1>10 DEF BackupBegin, Truncated
<1>11. CASE BackupData(h)
    BY <1>11 DEF BackupData, Filled
<1>12. CASE BackupMode(h)
    BY <1>12 DEF BackupMode
<1>13. CASE CopyBegin(h)
    BY <1>13 DEF CopyBegin, Truncated
<1>14. CASE CopyData(h)
  <2>1. to = "copied" /\ pc[h] = "copying" /\ UNCHANGED <<bak, before>>
      BY <1>14 DEF CopyData, TypeOK
  <2>2. bak = before /\ before.exec /\ Exists(bak)
      BY <2>1
  <2> QED BY <2>1, <2>2
<1>15. CASE CopyMode(h)
    BY <1>15 DEF CopyMode
<1>16. CASE Chmod(h)
    BY <1>16 DEF Chmod
<1>17. CASE Launch(h)
    BY <1>17 DEF Launch
<1>18. CASE CheckUp(h)
    BY <1>18, <1>b
<1>19. CASE CheckDown(h)
    BY <1>19 DEF CheckDown
<1>20. CASE Decide(h)
    BY <1>20, <1>c
<1>21. CASE HashBegin(h)
    BY <1>21 DEF HashBegin
<1>22. CASE VersionBegin(h)
    BY <1>22 DEF VersionBegin
<1>23. CASE VersionEnd(h)
    BY <1>23 DEF VersionEnd
<1>24. CASE RestoreAbsent(h)
    BY <1>24 DEF RestoreAbsent
<1>25. CASE RestoreBegin(h)
    BY <1>25 DEF RestoreBegin, Truncated
<1>26. CASE RestoreData(h)
  <2>1. to = "restored" /\ pc[h] = "restoring" /\ UNCHANGED <<bak, before>>
      BY <1>26 DEF RestoreData, TypeOK
  <2>2. bak = before /\ before.exec /\ Exists(bak)
      BY <2>1
  <2> QED BY <2>1, <2>2
<1>27. CASE RestoreMode(h)
    BY <1>27 DEF RestoreMode
<1>28. CASE Relaunch(h)
    BY <1>28 DEF Relaunch, Done
<1>29. CASE Fail(h)
    BY <1>29, <1>d
<1> QED
    BY <1>7, <1>8, <1>9, <1>10, <1>11, <1>12, <1>13, <1>14, <1>15, <1>16, <1>17, <1>18,
      <1>19, <1>20, <1>21, <1>22, <1>23, <1>24, <1>25, <1>26, <1>27, <1>28, <1>29
    DEF Install, Restore

LEMMA HandlerStep ==
    ASSUME IInv, NEW h \in Handlers, Upload(h) \/ Install(h) \/ Restore(h) \/ Fail(h)
    PROVE  SafetyInv'
<1>1. pc'[Boot] = "up" /\ \A g \in Handlers \ {h} : pc'[g] = pc[g]
    BY HandlerAt
<1>2. \A g \in Handlers : UploadInv(g)'
  <2> SUFFICES ASSUME NEW g \in Handlers, g # h PROVE UploadInv(g)'
      BY UploadStep
  <2>1. CASE pc[g] = "idle"
      BY <1>1, <2>1 DEF UploadInv, Unsaved, BackingUp, Installed, Launched, Accepted, Recording
  <2>2. CASE pc[g] # "idle"
      BY <2>2, Meeting DEF UploadInv
  <2> QED BY <2>1, <2>2
<1>3. ASSUME ~tainted' PROVE Safe' /\ (~stripped' => Executable')
  <2>1. \A g \in Handlers \ {h} : HandlerSafe(g)'
      BY <1>3, Apart DEF HandlerSafe, Unsaved, BackingUp
  <2>2. Recoverable' /\ HandlerSafe(h)' /\ BootSafe'
      BY <1>1, <1>3, SafeStep DEF BootSafe
  <2> QED BY <1>3, <2>1, <2>2, ExecStep DEF Safe
<1> QED BY <1>1, <1>2, <1>3, StaysExclusive, AppStays DEF SafetyInv

\* The steps of the boot.
LEMMA BootMovesOn ==
    ASSUME IInv, BootStep \/ Restore(Boot) \/ Fail(Boot)
    PROVE  /\ SafetyInv' /\ pc[Boot] # "up"
           /\ \A h \in Handlers : pc[h] = "idle" /\ pc'[h] = "idle"
<1>1. Boot \in Threads /\ TypeOK /\ Exclusive
    BY DEF Threads, IInv
<1>2. PICK to : At(Boot, pc[Boot], to) /\ pc[Boot] # "up"
    BY ZenonT(60) DEF BootStep, Restore, At, FileSteps, Start, Validate, BootStop,
      RestoreAbsent, RestoreBegin, RestoreData, RestoreMode, Relaunch, Fail
<1>3. /\ pc'[Boot] = to
      /\ \A f, d : Filled(Boot, f, d) = {[f EXCEPT !.data = d]}
    BY <1>1, <1>2, Places, FilledAlone, OtaAssumption DEF TypeOK
<1>5. \A h \in Handlers : pc'[h] = "idle"
    BY <1>1, <1>2, Places, OtaAssumption DEF Exclusive, Threads
<1>4. Exclusive'
    BY <1>5 DEF Exclusive
<1>6. \A h \in Handlers : UploadInv(h)' /\ HandlerSafe(h)'
    BY <1>5 DEF UploadInv, HandlerSafe, Unsaved, BackingUp, Installed, Launched, Accepted,
      Recording
<1>7. /\ Exists(app) /\ (pc[Boot] = "restoring" => Exists(bak))
      /\ app \in Files /\ bak \in Files
    BY <1>1 DEF IInv, TypeOK
<1>8. Validate => /\ UNCHANGED <<app, bak, hash>> /\ pc[Boot] = "validate"
                  /\ to = "up" \/ (to = "bootStop" /\ ~Recorded)
    BY <1>1, <1>2, <1>3 DEF Validate, NeedsRestore, At, TypeOK, records
<1>9. Exists(app)' /\ (pc'[Boot] = "restoring" => Exists(bak)')
  <2>1. CASE Start \/ Validate \/ BootStop \/ RestoreAbsent(Boot) \/ RestoreMode(Boot)
               \/ Relaunch(Boot) \/ Fail(Boot)
    <3>1. to # "restoring"
        BY <1>1, <1>3, <1>8, <2>1
        DEF Start, BootStop, RestoreAbsent, RestoreMode, Relaunch, Fail, At, Done, TypeOK
    <3>2. app'.data = app.data
        BY <1>7, <1>8, <2>1
        DEF Start, BootStop, RestoreAbsent, RestoreMode, Relaunch, Fail, Files
    <3> QED BY <1>3, <1>7, <3>1, <3>2 DEF Exists
  <2>2. CASE RestoreBegin(Boot)
      BY <1>7, <2>2, OtaAssumption DEF RestoreBegin, Exists, Truncated, Files
  <2>3. CASE RestoreData(Boot)
      BY <1>1, <1>3, <1>7, <2>3, OtaAssumption
      DEF RestoreData, At, Exists, Files, TypeOK
  <2> QED BY <2>1, <2>2, <2>3 DEF BootStep, Restore
<1>10. ASSUME ~tainted' PROVE Recoverable' /\ BootSafe'
  <2>1. ~tainted
      BY <1>10 DEF BootStep, Restore, history, Start, Validate, BootStop, RestoreAbsent,
        RestoreBegin, RestoreData, RestoreMode, Relaunch, Fail
  <2>2. Recoverable /\ BootSafe
      BY <2>1 DEF IInv, Safe
  <2> USE <1>1, <1>3, <1>7, <2>2, OtaAssumption
      DEF Recoverable, BootSafe, Committed, Recorded, Whole, Exists, Files, At, records,
          request, history
  <2>3. CASE Validate
      BY <1>8, <2>3
  <2>4. CASE Start
      BY <2>4 DEF Start
  <2>5. CASE BootStop
      BY <2>5 DEF BootStop
  <2>6. CASE RestoreAbsent(Boot)
      BY <2>6 DEF RestoreAbsent
  <2>7. CASE RestoreBegin(Boot)
      BY <2>7 DEF RestoreBegin, Truncated
  <2>8. CASE RestoreData(Boot)
    <3>1. /\ Whole(bak) /\ ~Recorded /\ app'.data = bak.data /\ UNCHANGED <<bak, hash>>
          /\ pc'[Boot] = "restored"
        BY <2>8 DEF RestoreData, TypeOK
    <3> QED BY <3>1
  <2>9. CASE RestoreMode(Boot)
      BY <2>9 DEF RestoreMode
  <2>10. CASE Relaunch(Boot)
      BY <2>10 DEF Relaunch, Done
  <2>11. CASE Fail(Boot)
      BY <2>11 DEF Fail, FileSteps
  <2> QED
      BY <2>3, <2>4, <2>5, <2>6, <2>7, <2>8, <2>9, <2>10, <2>11 DEF BootStep, Restore
<1>11. ASSUME ~tainted', ~stripped' PROVE Executable'
  <2>1. ~tainted /\ ~stripped /\ (Fail(Boot) => (Recorded => pc[Boot] \notin Unmoded))
    <3>1. CASE Fail(Boot)
        BY <1>1, <1>11, <3>1, Marked DEF Fail, TypeOK
    <3>2. CASE ~Fail(Boot)
        BY <1>11, <3>2 DEF BootStep, Restore, history, Start, Validate, BootStop,
          RestoreAbsent, RestoreBegin, RestoreData, RestoreMode, Relaunch
    <3> QED BY <3>1, <3>2
  <2>2. /\ BootSafe /\ Executable /\ \A h \in Handlers : pc[h] = "idle"
      BY <1>2, <2>1 DEF IInv, Safe, Exclusive
  <2>3. /\ Recorded => app.exec \/ pc[Boot] \in Unmoded
        /\ ~Recorded => (Whole(bak) => bak.exec) /\ (Exists(bak) \/ app.exec)
        /\ pc[Boot] = "restored" => bak.exec
        /\ pc[Boot] = "relaunch" => app.exec
      BY <2>2 DEF Executable, Threads, Unmoded
  <2> SUFFICES /\ Recorded' => app'.exec \/ to \in Unmoded
               /\ ~Recorded' => (Whole(bak)' => bak'.exec) /\ (Exists(bak)' \/ app'.exec)
               /\ to = "restored" => bak'.exec
               /\ to = "relaunch" => app'.exec
      BY <1>1, <1>3, <1>5 DEF Executable
  <2>4. UNCHANGED <<bak, hash>>
      BY <1>8 DEF BootStep, Restore, records, Start, BootStop, RestoreAbsent,
        RestoreBegin, RestoreData, RestoreMode, Relaunch, Fail
  <2> USE <1>1, <1>3, <1>7, <2>2, <2>3, <2>4, OtaAssumption
      DEF BootSafe, Recorded, Whole, Exists, Files, At, Unmoded
  <2>5. CASE Start \/ Validate \/ BootStop \/ RestoreAbsent(Boot) \/ Relaunch(Boot)
    <3>1. UNCHANGED app
        BY <1>8, <2>5 DEF Start, BootStop, RestoreAbsent, Relaunch
    <3>2. to \notin Unmoded /\ pc[Boot] \notin Unmoded
        BY <1>8, <2>5 DEF Start, BootStop, RestoreAbsent, Relaunch, Done, TypeOK
    <3>3. to = "relaunch" => pc[Boot] = "restore" /\ ~Exists(bak)
        BY <1>8, <2>5 DEF Start, BootStop, RestoreAbsent, Relaunch, Done, TypeOK
    <3> QED BY <3>1, <3>2, <3>3
  <2>6. CASE RestoreBegin(Boot)
    <3>1. app' = Truncated(app) /\ Exists(bak) /\ pc[Boot] = "restore" /\ to = "restoring"
        BY <2>6 DEF RestoreBegin, TypeOK
    <3> QED BY <3>1 DEF Truncated
  <2>7. CASE RestoreData(Boot)
    <3>1. pc[Boot] = "restoring" /\ to = "restored"
        BY <2>7 DEF RestoreData, TypeOK
    <3> QED BY <3>1
  <2>8. CASE RestoreMode(Boot)
    <3>1. app' = [app EXCEPT !.exec = bak.exec] /\ pc[Boot] = "restored" /\ to = "relaunch"
        BY <2>8 DEF RestoreMode, TypeOK
    <3> QED BY <3>1
  <2>9. CASE Fail(Boot)
    <3>1. UNCHANGED app /\ to = "down"
        BY <2>9 DEF Fail, TypeOK
    <3> QED BY <2>1, <2>9, <3>1
  <2> QED BY <2>5, <2>6, <2>7, <2>8, <2>9 DEF BootStep, Restore
<1>12. \A h \in Handlers : pc[h] = "idle"
    BY <1>1, <1>2 DEF Exclusive
<1> QED BY <1>2, <1>4, <1>5, <1>6, <1>9, <1>10, <1>11, <1>12 DEF SafetyInv, Safe

\* systemd, power, and nothing at all.
LEMMA OutsideStep ==
    ASSUME IInv, Die \/ AutoRestart \/ Crash \/ UNCHANGED vars
    PROVE  SafetyInv'
<1>1. UNCHANGED <<app, bak, hash, version, pkg, before, overlapped, tainted>>
    BY DEF Die, AutoRestart, Crash, vars, records, request, history
<1>2. (Recoverable' <=> Recoverable) /\ (Exists(app)' <=> Exists(app))
    BY <1>1 DEF Recoverable, Recorded, Whole, Exists
<1>3. CASE Crash
  <2>1. pc'[Boot] = "down" /\ \A h \in Handlers : pc'[h] = "idle"
      BY <1>3, OtaAssumption DEF Crash, Threads
  <2>2. /\ Exclusive' /\ BootSafe'
        /\ \A h \in Handlers : UploadInv(h)' /\ HandlerSafe(h)'
      BY <2>1 DEF IInv, Exclusive, BootSafe, UploadInv, HandlerSafe, Unsaved, BackingUp,
        Installed, Launched, Accepted, Recording
  <2>3. ASSUME ~tainted, ~stripped' PROVE Executable'
    <3>1. ~stripped /\ (Recorded => \A t \in Threads : pc[t] \notin Unmoded)
        BY <1>3, <2>3, Marked DEF Crash, IInv, TypeOK
    <3>2. /\ Recorded => app.exec
          /\ ~Recorded => (Whole(bak) => bak.exec) /\ (Exists(bak) \/ app.exec)
        BY <2>3, <3>1 DEF IInv, Executable
    <3>3. /\ Recorded' => app'.exec
          /\ ~Recorded' => (Whole(bak)' => bak'.exec) /\ (Exists(bak)' \/ app'.exec)
        BY <1>1, <3>2 DEF Recorded, Whole, Exists
    <3> QED BY <2>1, <3>3 DEF Executable
  <2> QED BY <1>1, <1>2, <2>1, <2>2, <2>3 DEF SafetyInv, IInv, Safe
<1>4. CASE ~Crash
  <2>1. UNCHANGED <<pc, stripped>>
      BY <1>4 DEF Die, AutoRestart, vars, history
  <2>2. /\ Exclusive' /\ (pc'[Boot] = "restoring" => Exists(bak)')
        /\ \A h \in Handlers : UploadInv(h)'
      BY <1>1, <2>1 DEF IInv, Exclusive, UploadInv, Exists
  <2>3. ASSUME ~tainted PROVE BootSafe' /\ \A h \in Handlers : HandlerSafe(h)'
    <3>1. BootSafe'
        BY <1>1, <2>1, <2>3 DEF IInv, Safe, BootSafe, Committed, Recorded, Whole
    <3>2. \A h \in Handlers : HandlerSafe(h)'
        BY <1>1, <2>1, <2>3 DEF IInv, Safe, HandlerSafe, Recorded, Whole
    <3> QED BY <3>1, <3>2
  <2>4. Executable' <=> Executable
      BY <1>1, <2>1 DEF Executable, Recorded, Whole, Exists
  <2> QED BY <1>1, <1>2, <2>1, <2>2, <2>3, <2>4 DEF SafetyInv, IInv, Safe
<1> QED BY <1>3, <1>4

\* Nothing but its own death, or another upload, stops an app that was launched.
LEMMA HealthStep ==
    ASSUME IInv, [Next]_vars, NEW h \in Handlers
    PROVE  HealthInv(h)'
<1> SUFFICES ASSUME h \notin overlapped', pkg'[h] \notin Flaky, pc'[h] \in {"check", "decide"}
             PROVE  service' = "running"
    BY DEF HealthInv
<1>1. TypeOK /\ HealthInv(h) /\ UploadInv(h)
    BY DEF IInv
<1>2. CASE Upload(h) \/ Install(h) \/ Restore(h) \/ Fail(h)
  <2>1. \A from, to : At(h, from, to) => pc[h] = from /\ pc'[h] = to
      BY <1>1, Places DEF Threads
  <2>2. PICK to : At(h, pc[h], to) /\ pc'[h] = to
      BY <1>2, HandlerAt
  <2>3. Launch(h) \/ CheckUp(h) \/ CheckDown(h)
    <3>1. ~Fail(h) /\ ~Restore(h) /\ ~Upload(h)
      <4>1. ~Fail(h)
          BY <1>1, OtaAssumption DEF Fail, TypeOK, Threads
      <4>2. Done(h) = "idle"
          BY OtaAssumption DEF Done
      <4> QED BY <2>1, <4>1, <4>2 DEF Restore, RestoreAbsent, RestoreBegin, RestoreData,
              RestoreMode, Relaunch, Upload
    <3>2. /\ ~Stop(h) /\ ~Unlink(h) /\ ~BackupBegin(h) /\ ~BackupData(h) /\ ~BackupMode(h)
          /\ ~CopyBegin(h) /\ ~CopyData(h) /\ ~CopyMode(h) /\ ~Chmod(h) /\ ~Decide(h)
      <4>1. Unlink(h) => pc'[h] \in {"backup", "copy"}
          BY <2>1 DEF Unlink
      <4>2. Decide(h) => pc'[h] \in {"hash", "restore"}
          BY <2>1 DEF Decide
      <4> QED BY <2>1, <4>1, <4>2 DEF Stop, BackupBegin, BackupData, BackupMode, CopyBegin,
              CopyData, CopyMode, Chmod
    <3>3. ~HashBegin(h) /\ ~HashEnd(h) /\ ~VersionBegin(h) /\ ~VersionEnd(h)
        BY <2>1 DEF HashBegin, HashEnd, VersionBegin, VersionEnd
    <3> QED BY <1>2, <3>1, <3>2, <3>3 DEF Install
  <2>4. UNCHANGED <<pkg, overlapped>>
      BY <2>3 DEF Launch, CheckUp, CheckDown, request, history
  <2>5. CASE Launch(h)
    <3>1. pc[h] = "launch" /\ app.data = pkg[h] /\ app.exec /\ pkg[h] \in Images
        BY <1>1, <2>1, <2>4, <2>5 DEF Launch, UploadInv, Installed, Launched, TypeOK
    <3> QED BY <2>5, <3>1 DEF Launch, Started, Runnable
  <2>6. CASE CheckUp(h)
      BY <2>6 DEF CheckUp
  <2>7. CASE CheckDown(h)
    <3>1. pc[h] = "check" /\ service # "running"
        BY <2>1, <2>7 DEF CheckDown
    <3> QED BY <1>1, <2>4, <3>1 DEF HealthInv
  <2> QED BY <2>3, <2>5, <2>6, <2>7
<1>3. CASE \E g \in Handlers \ {h} : Upload(g) \/ Install(g) \/ Restore(g) \/ Fail(g)
  <2>1. PICK g \in Handlers \ {h} : Upload(g) \/ Install(g) \/ Restore(g) \/ Fail(g)
      BY <1>3
  <2>2. pc[h] # "idle"
      BY <2>1, HandlerAt
  <2> QED BY <2>1, <2>2, Meeting
<1>4. CASE BootStep \/ Restore(Boot) \/ Fail(Boot)
    BY <1>4, BootMovesOn
<1>5. CASE Die \/ AutoRestart \/ UNCHANGED vars
  <2>1. UNCHANGED <<pkg, pc, overlapped, app>>
      BY <1>5 DEF Die, AutoRestart, vars, request, history
  <2>2. service = "running" /\ app.data = pkg[h]
      BY <1>1, <2>1 DEF HealthInv, UploadInv, Installed, Launched
  <2> QED BY <1>5, <2>1, <2>2 DEF Die, AutoRestart, vars
<1>6. CASE Crash
    BY <1>6, OtaAssumption DEF Crash, Threads
<1> QED BY <1>2, <1>3, <1>4, <1>5, <1>6 DEF Next, Threads

LEMMA NextIInv == IInv /\ [Next]_vars => IInv'
<1> SUFFICES ASSUME IInv, [Next]_vars PROVE IInv'
    OBVIOUS
<1>1. TypeOK'
    BY TypeStep DEF IInv
<1>2. SafetyInv'
  <2>1. CASE \E h \in Handlers : Upload(h) \/ Install(h) \/ Restore(h) \/ Fail(h)
      BY <2>1, HandlerStep
  <2>2. CASE BootStep \/ Restore(Boot) \/ Fail(Boot)
      BY <2>2, BootMovesOn
  <2>3. CASE Die \/ AutoRestart \/ Crash \/ UNCHANGED vars
      BY <2>3, OutsideStep
  <2> QED BY <2>1, <2>2, <2>3 DEF Next, Threads
<1>3. \A h \in Handlers : HealthInv(h)'
    BY HealthStep
<1> QED BY <1>1, <1>2, <1>3 DEF IInv, SafetyInv

\* The files are always in a state boot can recover from, and recover to an app that can
\* be executed, unless two uploads met or a backup was dropped while the app was not the
\* recorded one; and an upload that met no other has done what its place says.
THEOREM Invariant == Spec => []IInv
<1>1. Init => IInv
    BY InitIInv
<1> QED BY <1>1, NextIInv, PTL DEF Spec

\* A complete image is on the device at every moment.
THEOREM AnImageSurvives == Spec => []ImageSurvives
<1>1. IInv => ImageSurvives
    BY DEF IInv, Safe, ImageSurvives, Recoverable, Recorded, Whole
<1> QED BY <1>1, Invariant, PTL

\* Boot is over when nothing is to be restored, and after the launch of what was.
LEMMA BootEnds ==
    ASSUME IInv, Next, pc[Boot] # "up", pc'[Boot] = "up"
    PROVE  /\ UNCHANGED app /\ Boot \in Threads /\ \A h \in Handlers : pc[h] = "idle"
           /\ Recorded \/ pc[Boot] = "relaunch"
           /\ pc[Boot] \notin Unmoded
<1>1. /\ Boot \in Threads /\ TypeOK /\ Exists(app)
      /\ \A h \in Handlers : pc[h] = "idle"
    BY DEF IInv, Threads, Exclusive
<1>2. \A h \in Handlers : ~(Upload(h) \/ Install(h) \/ Restore(h) \/ Fail(h))
    BY HandlerAt
<1>3. Validate \/ Relaunch(Boot)
    BY <1>1, <1>2 DEF Next, Threads, BootStep, Restore, At, TypeOK, Start, BootStop,
        RestoreAbsent, RestoreBegin, RestoreData, RestoreMode, Fail, Die, AutoRestart,
        Crash
<1>4. CASE Validate
    BY <1>1, <1>4 DEF Validate, At, TypeOK, NeedsRestore, Unmoded
<1>5. CASE Relaunch(Boot)
    BY <1>1, <1>5 DEF Relaunch, At, Unmoded
<1> QED BY <1>1, <1>3, <1>4, <1>5

\* Boot ends with a complete app, the one of the last update recorded.
THEOREM BootFindsAnImage == Spec => BootRecovers
<1>1. IInv /\ [Next]_vars
        => [pc[Boot] # "up" /\ pc'[Boot] = "up"
              => (app'.data \in Images /\ app'.data = Committed) \/ tainted]_vars
  <2> SUFFICES ASSUME IInv, Next, pc[Boot] # "up", pc'[Boot] = "up", ~tainted
               PROVE  app'.data \in Images /\ app'.data = Committed
      BY DEF vars
  <2>1. CASE Recorded
      BY <2>1, BootEnds DEF Recorded, Committed
  <2>2. CASE pc[Boot] = "relaunch"
      BY <2>2, BootEnds DEF IInv, Safe, BootSafe, Whole
  <2> QED BY <2>1, <2>2, BootEnds
<1> QED BY <1>1, Invariant, PTL DEF Spec, BootRecovers

\* And one that can be executed.
THEOREM BootFindsAnExecutable == Spec => BootRuns
<1>1. IInv /\ [Next]_vars
        => [pc[Boot] # "up" /\ pc'[Boot] = "up" => Runnable' \/ tainted \/ stripped]_vars
  <2> SUFFICES ASSUME IInv, Next, pc[Boot] # "up", pc'[Boot] = "up", ~tainted, ~stripped
               PROVE  Runnable'
      BY DEF vars
  <2>1. Safe /\ Executable /\ UNCHANGED app
      BY BootEnds DEF IInv
  <2>2. CASE Recorded
    <3>1. \A t \in Threads : pc[t] \notin Unmoded
        BY BootEnds DEF Threads, Unmoded
    <3> QED BY <2>1, <2>2, <3>1 DEF Executable, Recorded, Runnable
  <2>3. CASE pc[Boot] = "relaunch"
      BY <2>1, <2>3 DEF Executable, Safe, BootSafe, Whole, Runnable
  <2> QED BY <2>2, <2>3, BootEnds
<1> QED BY <1>1, Invariant, PTL DEF Spec, BootRuns

\* A rollback brings back the app of before the update.
THEOREM RollbackIsExact == Spec => RollbackRestores
<1>1. IInv /\ [Next]_vars
        => [\A h \in Handlers \ overlapped :
              pc[h] = "relaunch" /\ pc'[h] = "idle" /\ UNCHANGED crashes => app' = before]_vars
  <2> SUFFICES ASSUME IInv, Next, NEW h \in Handlers \ overlapped, pc[h] = "relaunch",
                      pc'[h] = "idle", UNCHANGED crashes
               PROVE  app' = before
      BY DEF vars
  <2>1. app = before
      BY DEF IInv, UploadInv, Unsaved, BackingUp
  <2>2. CASE \E g \in Handlers : Upload(g) \/ Install(g) \/ Restore(g) \/ Fail(g)
    <3>1. Upload(h) \/ Install(h) \/ Restore(h) \/ Fail(h)
        BY <2>2, HandlerAt
    <3>2. UNCHANGED app
        BY <3>1, HandlerAt DEF Install, Restore, FileSteps, At, Upload, Stop, Unlink,
          BackupBegin, BackupData, BackupMode, CopyBegin, CopyData, CopyMode, Chmod,
          Launch, CheckUp, CheckDown, Decide, HashBegin, HashEnd, VersionBegin,
          VersionEnd, RestoreAbsent, RestoreBegin, RestoreData, RestoreMode, Relaunch, Fail
    <3> QED BY <2>1, <3>2
  <2>3. CASE BootStep \/ Restore(Boot) \/ Fail(Boot)
      BY <2>3, BootMovesOn DEF IInv, Exclusive
  <2>4. CASE Die \/ AutoRestart \/ Crash
    <3>1. ~Crash
        BY OtaAssumption DEF Crash, IInv, TypeOK
    <3> QED BY <2>1, <2>4, <3>1 DEF Die, AutoRestart
  <2> QED BY <2>2, <2>3, <2>4 DEF Next, Threads
<1> QED BY <1>1, Invariant, PTL DEF Spec, RollbackRestores

\* An app that cannot die is kept, unless two uploads met.
THEOREM OnlyTheFlakyGo == Spec => HealthyAppIsKept
<1>1. IInv /\ [Next]_vars
        => [\A h \in Handlers \ overlapped :
              pc[h] # "restore" /\ pc'[h] = "restore" => pkg[h] \in Flaky]_vars
  <2> SUFFICES ASSUME IInv, Next, NEW h \in Handlers \ overlapped, pc[h] # "restore",
                      pc'[h] = "restore"
               PROVE  pkg[h] \in Flaky
      BY DEF vars
  <2>1. TypeOK /\ HealthInv(h) /\ \A from, to : At(h, from, to) => pc[h] = from /\ pc'[h] = to
      BY Places DEF IInv, Threads
  <2>2. CASE \E g \in Handlers : Upload(g) \/ Install(g) \/ Restore(g) \/ Fail(g)
    <3>1. Upload(h) \/ Install(h) \/ Restore(h) \/ Fail(h)
        BY <2>2, HandlerAt
    <3>2. Unlink(h) => pc'[h] \in {"backup", "copy"}
        BY <2>1 DEF Unlink
    <3>3. CheckUp(h) => pc'[h] \in {"check", "decide"}
        BY <2>1 DEF CheckUp
    <3>4. Fail(h) => pc'[h] = "idle"
        BY <2>1, OtaAssumption DEF Fail, TypeOK, Threads
    <3>5. Done(h) = "idle"
        BY OtaAssumption DEF Done
    <3>6. Decide(h)
        BY <2>1, <3>1, <3>2, <3>3, <3>4, <3>5 DEF Install, Restore, Upload, Stop,
          BackupBegin, BackupData, BackupMode, CopyBegin, CopyData, CopyMode, Chmod,
          Launch, CheckDown, HashBegin, HashEnd, VersionBegin, VersionEnd, RestoreAbsent,
          RestoreBegin, RestoreData, RestoreMode, Relaunch
    <3>7. pc[h] = "decide" /\ service # "running"
        BY <2>1, <3>6 DEF Decide
    <3> QED BY <2>1, <3>7 DEF HealthInv
  <2>3. CASE BootStep \/ Restore(Boot) \/ Fail(Boot)
      BY <2>3, BootMovesOn
  <2>4. CASE Die \/ AutoRestart \/ Crash
      BY <2>4, OtaAssumption DEF Die, AutoRestart, Crash, Threads
  <2> QED BY <2>2, <2>3, <2>4 DEF Next, Threads
<1> QED BY <1>1, Invariant, PTL DEF Spec, HealthyAppIsKept

\* A success leaves the package's app and its records.
THEOREM SuccessIsWhole == Spec => SuccessIsRecorded
<1>1. IInv /\ [Next]_vars
        => [\A h \in Handlers \ overlapped :
              Succeeds(h) => /\ app' = [data |-> pkg[h], exec |-> TRUE]
                             /\ hash' = pkg[h] /\ version' = pkg[h]]_vars
  <2> SUFFICES ASSUME IInv, Next, NEW h \in Handlers \ overlapped, Succeeds(h)
               PROVE  /\ app' = [data |-> pkg[h], exec |-> TRUE]
                      /\ hash' = pkg[h] /\ version' = pkg[h]
      BY DEF vars, Succeeds
  <2>1. /\ app = [data |-> pkg[h], exec |-> TRUE] /\ hash = pkg[h]
        /\ pc[h] = "versioning" /\ pc'[h] = "idle" /\ version' # version
      BY DEF IInv, TypeOK, Files, Succeeds, UploadInv, Unsaved, BackingUp, Installed,
        Launched, Accepted, Recording
  <2>2. CASE \E g \in Handlers : Upload(g) \/ Install(g) \/ Restore(g) \/ Fail(g)
    <3>1. Upload(h) \/ Install(h) \/ Restore(h) \/ Fail(h)
        BY <2>1, <2>2, HandlerAt
    <3>2. VersionEnd(h)
        BY <2>1, <3>1, HandlerAt DEF Install, Restore, At, records, Upload, Stop, Unlink,
          BackupBegin, BackupData, BackupMode, CopyBegin, CopyData, CopyMode, Chmod,
          Launch, CheckUp, CheckDown, Decide, HashBegin, HashEnd, VersionBegin,
          RestoreAbsent, RestoreBegin, RestoreData, RestoreMode, Relaunch, Fail
    <3> QED BY <2>1, <3>2 DEF VersionEnd
  <2>3. CASE BootStep \/ Restore(Boot) \/ Fail(Boot)
      BY <2>1, <2>3, BootMovesOn DEF IInv, Exclusive
  <2>4. CASE Die \/ AutoRestart \/ Crash
      BY <2>1, <2>4 DEF Die, AutoRestart, Crash, records
  <2> QED BY <2>2, <2>3, <2>4 DEF Next, Threads
<1> QED BY <1>1, Invariant, PTL DEF Spec, SuccessIsRecorded

\* What the boot would end with, in terms of what an upload has done so far.
ImageOf(h) ==
    /\ pc[h] \notin Unsaved \cup Recording => Committed = bak.data
    /\ pc[h] \in BackingUp \cup Recording => Recorded /\ Committed = app.data

ImageInv == \A h \in Handlers : ImageOf(h)

LEMMA CommittedOf == IInv /\ ~tainted => ImageInv
BY OtaAssumption
DEF IInv, TypeOK, Exclusive, Safe, HandlerSafe, UploadInv, Committed, Recorded, Whole, Unsaved,
    BackingUp, Recording, Installed, Launched, Accepted, ImageOf, ImageInv

LEMMA CommittedNext == (IInv /\ ~tainted => ImageInv)'
BY CommittedOf, PTL

\* Only the end of the hash file changes what a boot would end with.
LEMMA HandlerKeepsImage ==
    ASSUME IInv, IInv', ~tainted', NEW h \in Handlers, ~HashEnd(h),
           Upload(h) \/ Install(h) \/ Restore(h) \/ Fail(h)
    PROVE  Committed' = Committed
<1>1. ~tainted /\ TypeOK /\ h \in Threads
    BY SafeStep, HandlerAt
<1>2. PICK to : At(h, pc[h], to) /\ pc'[h] = to
    BY HandlerAt
<1>3. /\ pc[h] \notin Unsaved \cup Recording => Committed = bak.data
      /\ pc[h] \in BackingUp \cup Recording => Recorded /\ Committed = app.data
    BY <1>1, CommittedOf DEF ImageOf, ImageInv
<1>4. /\ to \notin Unsaved \cup Recording => Committed' = bak'.data
      /\ to \in BackingUp \cup Recording => Recorded' /\ Committed' = app'.data
    BY <1>2, CommittedNext DEF ImageOf, ImageInv
<1>5. CASE UNCHANGED <<app, bak, hash>>
    BY <1>5 DEF Committed, Recorded, Whole
<1>6. CASE Unlink(h)
  <2>1. Recorded /\ UNCHANGED <<app, hash>>
      BY <1>1, <1>6 DEF Unlink, records
  <2> QED BY <2>1 DEF Committed, Recorded
<1>7. CASE BackupBegin(h) \/ BackupData(h) \/ BackupMode(h)
  <2>1. pc[h] \in BackingUp /\ UNCHANGED <<app, hash>>
      BY <1>7 DEF BackupBegin, BackupData, BackupMode, At, BackingUp, records
  <2> QED BY <1>3, <2>1 DEF Committed, Recorded
<1>8. CASE \/ CopyBegin(h) \/ CopyData(h) \/ CopyMode(h) \/ Chmod(h) \/ HashBegin(h)
           \/ RestoreBegin(h) \/ RestoreData(h) \/ RestoreMode(h)
  <2>1. UNCHANGED bak /\ pc[h] \notin Unsaved \cup Recording /\ to \notin Unsaved \cup Recording
      BY <1>1, <1>2, <1>8
      DEF CopyBegin, CopyData, CopyMode, Chmod, HashBegin, RestoreBegin, RestoreData,
        RestoreMode, At, TypeOK, Unsaved, BackingUp, Recording
  <2> QED BY <1>3, <1>4, <2>1
<1> QED
    BY <1>5, <1>6, <1>7, <1>8 DEF Install, Restore, records, history, Upload, Stop, Launch,
      CheckUp, CheckDown, Decide, VersionBegin, VersionEnd, RestoreAbsent, Relaunch, Fail

\* The boot never does.
LEMMA BootKeepsImage ==
    ASSUME IInv, ~tainted, BootStep \/ Restore(Boot) \/ Fail(Boot)
    PROVE  Committed' = Committed
<1>1. /\ Boot \in Threads /\ TypeOK /\ Exclusive /\ Recoverable /\ BootSafe
      /\ app \in Files /\ bak \in Files
    BY DEF Threads, IInv, Safe, TypeOK
<1>2. CASE UNCHANGED <<app, bak, hash>>
    BY <1>2 DEF Committed, Recorded, Whole
<1> USE <1>1, OtaAssumption DEF At, Committed, Recorded, Whole, Exists, records, Files
<1>3. CASE RestoreBegin(Boot)
    BY <1>3 DEF RestoreBegin, Truncated, Recoverable, BootSafe
<1>4. CASE RestoreData(Boot)
    BY <1>4, FilledAlone DEF RestoreData, BootSafe, TypeOK
<1>5. CASE RestoreMode(Boot)
    BY <1>5 DEF RestoreMode
<1> QED
    BY <1>2, <1>3, <1>4, <1>5 DEF BootStep, Restore, Start, Validate, BootStop,
      RestoreAbsent, Relaunch, Fail

\* A step of an upload is a step of the atomic update, or none.
LEMMA UploadIsAtomic ==
    ASSUME IInv, IInv', NEW h \in Handlers,
           Upload(h) \/ Install(h) \/ Restore(h) \/ Fail(h)
    PROVE  \/ Update!Offer(h) \/ Update!Accept(h) \/ Update!Commit(h)
           \/ Update!Abandon(h) \/ Update!End(h) \/ Update!Forfeit(h)
           \/ UNCHANGED <<IF tainted THEN Absent ELSE Committed,
                          [g \in Handlers |-> Phase(pc[g])], pkg>>
<1> DEFINE Phases == [g \in Handlers |-> Phase(pc[g])]
           Img == IF tainted THEN Absent ELSE Committed
<1>1. TypeOK /\ Exclusive /\ h \in Threads /\ \A g \in Handlers \ {h} : pc'[g] = pc[g]
    BY HandlerAt
<1>2. PICK to : At(h, pc[h], to) /\ pc'[h] = to
    BY HandlerAt
<1>3. /\ Phases[h] = Phase(pc[h]) /\ Phases' = [Phases EXCEPT ![h] = Phase(to)]
      /\ Phase(to) = Phase(pc[h]) => Phases' = Phases
  <2>1. Phases' = [g \in Handlers |-> IF g = h THEN Phase(to) ELSE Phase(pc[g])]
      BY <1>1, <1>2
  <2>2. Phases' = [Phases EXCEPT ![h] = Phase(to)]
      BY <2>1
  <2>3. Phase(to) = Phase(pc[h]) => Phases' = Phases
      BY <2>1
  <2> QED BY <2>2, <2>3
<1>4. \A g \in Handlers : Phases[g] = "idle" <=> pc[g] = "idle"
    BY DEF Phase
<1>5. ASSUME ~HashEnd(h), ~Unlink(h), ~Upload(h) PROVE Img' = Img
  <2>1. UNCHANGED tainted
      BY <1>5 DEF Install, Restore, history, Stop, BackupBegin, BackupData,
        BackupMode, CopyBegin, CopyData, CopyMode, Chmod, Launch, CheckUp, CheckDown,
        Decide, HashBegin, VersionBegin, VersionEnd, RestoreAbsent, RestoreBegin,
        RestoreData, RestoreMode, Relaunch, Fail
  <2>2. CASE tainted = TRUE
      BY <2>1, <2>2
  <2>3. CASE tainted = FALSE
      BY <1>5, <2>1, <2>3, HandlerKeepsImage
  <2> QED BY <1>1, <2>2, <2>3 DEF TypeOK
<1>6. CASE Upload(h)
  <2>1. /\ pc[h] = "idle" /\ to = "stop" /\ \E p \in Images : pkg' = [pkg EXCEPT ![h] = p]
        /\ UNCHANGED <<app, bak, hash>>
      BY <1>1, <1>2, <1>6 DEF Upload, At, TypeOK, records
  <2>2. Committed' = Committed
      BY <2>1 DEF Committed, Recorded, Whole
  <2>3. Img' = IF \A g \in Handlers : Phases[g] = "idle" THEN Img ELSE Absent
    <3>1. CASE Others(h) = {}
      <4>1. \A g \in Handlers : pc[g] = "idle"
          BY <2>1, <3>1 DEF Others
      <4>2. tainted' = tainted
          BY <1>1, <1>6, <3>1 DEF Upload, TypeOK
      <4> QED BY <1>4, <2>2, <4>1, <4>2
    <3>2. CASE Others(h) # {}
      <4>1. ~\A g \in Handlers : pc[g] = "idle"
          BY <3>2 DEF Others
      <4>2. tainted' = TRUE
          BY <1>6, <3>2 DEF Upload
      <4> QED BY <1>4, <4>1, <4>2
    <3> QED BY <3>1, <3>2
  <2>4. Phase(pc[h]) = "idle" /\ Phase(to) = "trying"
      BY <2>1 DEF Phase, Accepted, Recording
  <2> QED BY <1>3, <2>1, <2>3, <2>4 DEF Update!Offer, Update!Moves
<1>7. CASE Unlink(h)
  <2>1. UNCHANGED pkg /\ pc[h] = "unlink" /\ Phase(to) = "trying" /\ Phase(pc[h]) = "trying"
      BY <1>1, <1>2, <1>7
      DEF Unlink, request, At, TypeOK, Phase, Accepted, Recording
  <2>2. CASE tainted' = TRUE
      BY <1>3, <2>1, <2>2 DEF Update!Forfeit
  <2>3. CASE tainted' = FALSE
    <3>1. ~HashEnd(h)
        BY <1>2, <2>1 DEF HashEnd, At
    <3>2. Committed' = Committed /\ ~tainted
        BY <2>3, <3>1, HandlerKeepsImage, SafeStep
    <3> QED BY <1>3, <2>1, <2>3, <3>2
  <2> QED BY <2>2, <2>3 DEF IInv, TypeOK
<1>8. CASE HashEnd(h)
  <2>1. /\ UNCHANGED pkg /\ Phase(to) = "ending" /\ Phase(pc[h]) = "accepted"
        /\ pc[h] = "hashing" /\ pc'[h] = "version"
      BY <1>1, <1>2, <1>8
      DEF HashEnd, request, At, TypeOK, Phase, Accepted, Recording
  <2>2. CASE h \in overlapped
    <3>1. tainted = TRUE
        BY <1>1, <2>1, <2>2 DEF Exclusive, TypeOK
    <3>2. tainted' = TRUE
        BY <1>8, <2>2, <3>1 DEF HashEnd
    <3> QED BY <1>3, <2>1, <3>1, <3>2 DEF Update!Abandon, Update!Moves
  <2>3. CASE h \notin overlapped
    <3>1. tainted' = FALSE
        BY <1>8, <2>3 DEF HashEnd
    <3>2. \A g \in Handlers \ {h} : Phases[g] = "idle"
        BY <1>4, <3>1, Apart
    <3>3. Img' = pkg[h]
      <4>1. app' = app /\ app.data = pkg[h]
          BY <1>8, <2>1, <2>3 DEF HashEnd, IInv, UploadInv, Installed, Launched, Accepted
      <4>2. ImageOf(h)'
          BY <3>1, CommittedNext DEF ImageInv
      <4> QED BY <2>1, <3>1, <4>1, <4>2 DEF ImageOf, Recording
    <3> QED BY <1>3, <2>1, <3>2, <3>3 DEF Update!Commit, Update!Moves
  <2> QED BY <2>2, <2>3
<1>9. CASE ~Upload(h) /\ ~Unlink(h) /\ ~HashEnd(h)
  <2>1. UNCHANGED pkg
      BY <1>9 DEF Install, Restore, request, Stop, BackupBegin, BackupData,
        BackupMode, CopyBegin, CopyData, CopyMode, Chmod, Launch, CheckUp, CheckDown,
        Decide, HashBegin, VersionBegin, VersionEnd, RestoreAbsent, RestoreBegin,
        RestoreData, RestoreMode, Relaunch, Fail
  <2>2. \/ Phase(to) = Phase(pc[h])
        \/ Phase(pc[h]) = "trying" /\ Phase(to) = "accepted"
        \/ Phase(pc[h]) \in {"trying", "accepted"} /\ Phase(to) \in {"ending", "idle"}
        \/ Phase(pc[h]) = "ending" /\ Phase(to) = "idle"
    <3>1. CASE Decide(h)
        BY <1>1, <1>2, <3>1 DEF Decide, At, Phase, Accepted, Recording, TypeOK
    <3>2. CASE CheckUp(h)
        BY <1>1, <1>2, <3>2 DEF CheckUp, At, Phase, Accepted, Recording, TypeOK
    <3>3. CASE Fail(h) \/ VersionEnd(h) \/ Relaunch(h)
      <4>1. to = "idle"
          BY <1>1, <1>2, <3>3, HandlerAt DEF Fail, VersionEnd, Relaunch, Done, At, TypeOK
      <4> QED BY <4>1 DEF Phase, Accepted, Recording
    <3>4. CASE \/ Stop(h) \/ BackupBegin(h) \/ BackupData(h) \/ BackupMode(h)
               \/ CopyBegin(h) \/ CopyData(h) \/ CopyMode(h) \/ Chmod(h) \/ Launch(h)
               \/ CheckDown(h)
      <4>1. Phase(to) = Phase(pc[h])
          BY <1>1, <1>2, <3>4 DEF Stop, BackupBegin, BackupData, BackupMode, CopyBegin,
            CopyData, CopyMode, Chmod, Launch, CheckDown, At, Phase, Accepted, Recording,
            TypeOK
      <4> QED BY <4>1
    <3>5. CASE \/ HashBegin(h) \/ VersionBegin(h) \/ RestoreAbsent(h) \/ RestoreBegin(h)
               \/ RestoreData(h) \/ RestoreMode(h)
      <4>1. Phase(to) = Phase(pc[h])
          BY <1>1, <1>2, <3>5 DEF HashBegin, VersionBegin, RestoreAbsent, RestoreBegin,
            RestoreData, RestoreMode, At, Phase, Accepted, Recording, TypeOK
      <4> QED BY <4>1
    <3> QED BY <1>9, <3>1, <3>2, <3>3, <3>4, <3>5 DEF Install, Restore
  <2> QED BY <1>3, <1>5, <1>9, <2>1, <2>2
          DEF Update!Accept, Update!Abandon, Update!End, Update!Moves
<1> QED BY <1>6, <1>7, <1>8, <1>9

\* An update is atomic under any failure, and two that meet only give up what was promised.
THEOREM Atomicity == Spec => UpdateIsAtomic
<1>1. Init => Update!AtomicInit
  <2> DEFINE Phases == [h \in Handlers |-> Phase(pc[h])]
             Img == IF tainted THEN Absent ELSE Committed
  <2> SUFFICES ASSUME Init PROVE Update!AtomicInit
      OBVIOUS
  <2>1. \A h \in Handlers : pc[h] = "idle"
      BY OtaAssumption DEF Init, Threads
  <2>2. Phases = [h \in Handlers |-> "idle"]
      BY <2>1 DEF Phase
  <2>3. Img = Factory
      BY OtaAssumption DEF Init, Committed, Recorded, Whole, NoFile
  <2>4. pkg = [h \in Handlers |-> Factory]
      BY DEF Init
  <2> QED BY <2>2, <2>3, <2>4 DEF Update!AtomicInit
<1>2. IInv /\ IInv' /\ [Next]_vars
        => [Update!AtomicNext]_<<IF tainted THEN Absent ELSE Committed,
                               [h \in Handlers |-> Phase(pc[h])], pkg>>
  <2> DEFINE Phases == [h \in Handlers |-> Phase(pc[h])]
             Img == IF tainted THEN Absent ELSE Committed
  <2> SUFFICES ASSUME IInv, IInv', [Next]_vars
               PROVE  Update!AtomicNext \/ UNCHANGED <<Img, Phases, pkg>>
      OBVIOUS
  <2>1. CASE \E h \in Handlers : Upload(h) \/ Install(h) \/ Restore(h) \/ Fail(h)
      BY <2>1, UploadIsAtomic DEF Update!AtomicNext
  <2>2. CASE BootStep \/ Restore(Boot) \/ Fail(Boot)
    <3>1. UNCHANGED <<pkg, tainted>>
        BY <2>2 DEF BootStep, Restore, request, history, Start, Validate, BootStop,
          RestoreAbsent, RestoreBegin, RestoreData, RestoreMode, Relaunch, Fail
    <3>2. Img' = Img
      <4>1. CASE tainted = TRUE
          BY <3>1, <4>1
      <4>2. CASE tainted = FALSE
          BY <2>2, <3>1, <4>2, BootKeepsImage
      <4> QED BY <4>1, <4>2 DEF IInv, TypeOK
    <3>3. \A h \in Handlers : pc'[h] = pc[h]
        BY <2>2, OtaAssumption DEF BootStep, Restore, At, Start, Validate, BootStop, Threads,
          RestoreAbsent, RestoreBegin, RestoreData, RestoreMode, Relaunch, Fail, IInv, TypeOK
    <3> QED BY <3>1, <3>2, <3>3
  <2>3. CASE Crash
    <3>1. UNCHANGED <<app, bak, hash, pkg, tainted>> /\ \A h \in Handlers : pc'[h] = "idle"
        BY <2>3, OtaAssumption DEF Crash, Threads, records, request
    <3>2. Phases' = [h \in Handlers |-> "idle"]
        BY <3>1 DEF Phase
    <3>3. Img' = Img
        BY <3>1 DEF Committed, Recorded, Whole
    <3> QED BY <3>1, <3>2, <3>3 DEF Update!AtomicNext, Update!PowerFails
  <2>4. CASE Die \/ AutoRestart \/ UNCHANGED vars
    <3>1. UNCHANGED <<app, bak, hash, pkg, tainted, pc>>
        BY <2>4 DEF Die, AutoRestart, vars, records, request, history
    <3> QED BY <3>1 DEF Committed, Recorded, Whole
  <2> QED BY <2>1, <2>2, <2>3, <2>4 DEF Next, Threads
<1> QED BY <1>1, <1>2, Invariant, PTL DEF Spec, UpdateIsAtomic, Update!AtomicSpec

\* No step leads an upload back, and the health loop counts: the bound that UploadAnswered
\* needs, for any number of uploads that meet.
THEOREM UploadIsBounded == Spec => UploadNearsEnd
<1>1. IInv /\ [Next]_vars
        => [\A h \in Handlers : pc[h] # "idle" =>
              \/ UNCHANGED <<pc[h], tries[h]>>
              \/ Left[pc'[h]] < Left[pc[h]]
              \/ pc'[h] = pc[h] /\ tries[h] < tries'[h] /\ tries'[h] < Checks]_vars
  <2> SUFFICES ASSUME IInv, Next, NEW h \in Handlers, pc[h] # "idle"
               PROVE  \/ UNCHANGED <<pc[h], tries[h]>>
                      \/ Left[pc'[h]] < Left[pc[h]]
                      \/ pc'[h] = pc[h] /\ tries[h] < tries'[h] /\ tries'[h] < Checks
      BY DEF vars
  <2>1. TypeOK /\ pc[h] \in HandlerStates /\ tries \in [Handlers -> 0..Checks - 1]
      BY DEF IInv, TypeOK
  <2>2. CASE Install(h)
    <3>1. \A from, to : At(h, from, to) => pc[h] = from /\ pc'[h] = to
        BY <2>1, Places DEF Threads
    <3>2. CASE CheckUp(h)
      <4>1. pc[h] = "check" /\ pc'[h] = IF tries[h] + 1 < Checks THEN "check" ELSE "decide"
          BY <3>1, <3>2 DEF CheckUp
      <4>2. tries'[h] = IF tries[h] + 1 < Checks THEN tries[h] + 1 ELSE 0
          BY <2>1, <3>2 DEF CheckUp
      <4>3. Left["decide"] < Left["check"]
          BY DEF Left
      <4> QED BY <2>1, <4>1, <4>2, <4>3, OtaAssumption
    <3>3. CASE Stop(h) \/ Unlink(h) \/ BackupBegin(h) \/ BackupData(h) \/ BackupMode(h)
      <4>1. \/ pc[h] = "stop" /\ pc'[h] = "unlink"
            \/ pc[h] = "unlink" /\ pc'[h] \in {"backup", "copy"}
            \/ pc[h] = "backup" /\ pc'[h] = "backingUp"
            \/ pc[h] = "backingUp" /\ pc'[h] = "backedUp"
            \/ pc[h] = "backedUp" /\ pc'[h] = "copy"
          BY <3>1, <3>3 DEF Stop, Unlink, BackupBegin, BackupData, BackupMode
      <4> QED BY <4>1 DEF Left
    <3>4. CASE CopyBegin(h) \/ CopyData(h) \/ CopyMode(h) \/ Chmod(h) \/ Launch(h)
      <4>1. \/ pc[h] = "copy" /\ pc'[h] = "copying"
            \/ pc[h] = "copying" /\ pc'[h] = "copied"
            \/ pc[h] = "copied" /\ pc'[h] = "chmod"
            \/ pc[h] = "chmod" /\ pc'[h] = "launch"
            \/ pc[h] = "launch" /\ pc'[h] = "check"
          BY <3>1, <3>4 DEF CopyBegin, CopyData, CopyMode, Chmod, Launch
      <4> QED BY <4>1 DEF Left
    <3>5. CASE \/ CheckDown(h) \/ Decide(h) \/ HashBegin(h) \/ HashEnd(h)
               \/ VersionBegin(h) \/ VersionEnd(h)
      <4>1. \/ pc[h] = "check" /\ pc'[h] = "decide"
            \/ pc[h] = "decide" /\ pc'[h] \in {"hash", "restore"}
            \/ pc[h] = "hash" /\ pc'[h] = "hashing"
            \/ pc[h] = "hashing" /\ pc'[h] = "version"
            \/ pc[h] = "version" /\ pc'[h] = "versioning"
            \/ pc[h] = "versioning" /\ pc'[h] = "idle"
          BY <3>1, <3>5 DEF CheckDown, Decide, HashBegin, HashEnd, VersionBegin, VersionEnd
      <4> QED BY <4>1 DEF Left
    <3> QED BY <2>2, <3>2, <3>3, <3>4, <3>5 DEF Install
  <2>3. CASE Restore(h)
    <3>1. \A from, to : At(h, from, to) => pc[h] = from /\ pc'[h] = to
        BY <2>1, Places DEF Threads
    <3>2. Done(h) = "idle"
        BY OtaAssumption DEF Done
    <3>3. \/ pc[h] = "restore" /\ pc'[h] \in {"restoring", "relaunch"}
          \/ pc[h] = "restoring" /\ pc'[h] = "restored"
          \/ pc[h] = "restored" /\ pc'[h] = "relaunch"
          \/ pc[h] = "relaunch" /\ pc'[h] = "idle"
        BY <2>3, <3>1, <3>2 DEF Restore, RestoreAbsent, RestoreBegin, RestoreData, RestoreMode,
          Relaunch
    <3> QED BY <3>3 DEF Left
  <2>4. Left["idle"] < Left[pc[h]]
      BY <2>1 DEF Left, HandlerStates, FileSteps
  <2>5. CASE Fail(h)
      BY <2>1, <2>4, <2>5, OtaAssumption DEF Fail, TypeOK, Threads
  <2>6. ASSUME NEW g \in Handlers \ {h}, Upload(g) \/ Install(g) \/ Restore(g) \/ Fail(g)
        PROVE  UNCHANGED <<pc[h], tries[h]>>
    <3>1. pc'[h] = pc[h]
        BY <2>6, HandlerAt
    <3>2. \/ tries' = tries
          \/ \E v : tries' = [tries EXCEPT ![g] = v]
        BY <2>6 DEF request, Upload, Install, Stop, Unlink, BackupBegin, BackupData,
          BackupMode, CopyBegin, CopyData, CopyMode, Chmod, Launch, CheckUp, CheckDown, Decide,
          HashBegin, HashEnd, VersionBegin, VersionEnd, Restore, RestoreAbsent, RestoreBegin,
          RestoreData, RestoreMode, Relaunch, Fail
    <3> QED BY <2>1, <3>1, <3>2
  <2>7. CASE Upload(h)
      BY <2>7 DEF Upload, At
  <2>8. CASE BootStep \/ Restore(Boot) \/ Fail(Boot)
      BY <2>8, BootMovesOn DEF IInv, Exclusive
  <2>9. CASE Die \/ AutoRestart
      BY <2>9 DEF Die, AutoRestart, request
  <2>10. CASE Crash
    <3>1. pc'[h] = "idle"
        BY <2>10, OtaAssumption DEF Crash, Threads
    <3> QED BY <2>4, <3>1
  <2> QED BY <2>2, <2>3, <2>5, <2>6, <2>7, <2>8, <2>9, <2>10 DEF Next, Threads
<1> QED BY <1>1, Invariant, PTL DEF Spec, UploadNearsEnd
=============================================================================
