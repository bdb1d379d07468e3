CONSTANTS
    owner = owner
    member = member
    nobody = nobody
    c1 = c1
    c2 = c2
    server = server
    cli = cli
    Members <- MCMembers
    Owner = owner
    Nobody = nobody
    Contexts <- MCContexts
    Procs <- MCProcs
    Coordinator = server
    Deliverer = cli
    Self = member
    MaxRev = 3
    MaxFaults = 1
SPECIFICATION Spec
SYMMETRY ContextSymmetry
INVARIANTS NoLostUpdate ProposalIsCurrent CertainOutcome
CHECK_DEADLOCK FALSE
