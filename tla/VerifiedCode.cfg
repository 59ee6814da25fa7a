SPECIFICATION Spec
CONSTANTS
    Desc <- MCDesc
    Pool <- MCPool
    Copyable <- Plain
    Droppable <- Plain
    Keyed <- MCKeyed
    U64 = "u64"
    Sig <- MCSig
    Programs <- MCPrograms
    Arguments <- MCArguments
    Stored <- MCStored
    Inputs <- MCInputs
    StackLimit = 3
    CallLimit = 2
    MaxVector = 3
INVARIANTS
    NoFailedCheck
    NoDeadReference
    RunAsAnalysed
    RefsAsAnalysed
    ResourcesConserved
PROPERTY
    AnalysisProgresses
