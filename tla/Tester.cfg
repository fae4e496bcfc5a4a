SPECIFICATION TesterSpec
CONSTANTS
    Server = {0, 1}
    Command = {c1, c2}
    Nil = Nil
    MaxIndex = 2
    MaxTerm = 2
    MaxCalls = 1
    MaxChanges = 2
    MaxFaults = 1
SYMMETRY Symmetry
VIEW View
CONSTRAINT FaultsAreSimple
INVARIANTS
    NeverAccusesUnjustly
    NoticesDisagreement
    AgreementIsReal
CHECK_DEADLOCK FALSE
