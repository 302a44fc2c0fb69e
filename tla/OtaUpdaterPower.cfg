SPECIFICATION Spec
CONSTANTS
    Images = {factory, new, flaky}
    Flaky = {flaky}
    Factory = factory
    Handlers = {h1}
    Boot = Boot
    Checks = 2
    MaxCrashes = 2
    Meets = {}
    Absent = Absent
    Partial = Partial
PROPERTY BootAlwaysRecovers
