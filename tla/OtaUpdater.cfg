SPECIFICATION FairSpec
CONSTANTS
    Images = {factory, flaky}
    Flaky = {flaky}
    Factory = factory
    Handlers = {h1, h2}
    Boot = Boot
    Checks = 2
    MaxCrashes = 1
    Meets <- MCMeets
    Absent = Absent
    Partial = Partial
INVARIANTS IInv ImageSurvives
PROPERTIES UpdateIsAtomic BootRecovers BootRuns RollbackRestores HealthyAppIsKept SuccessIsRecorded UploadNearsEnd UploadAnswered
