SPECIFICATION FairSpec
CONSTANTS
    Clients = {c1}
    MaxAccepts = 1
    TurnBudget = 1
    Quantum = 1
    Loads <- Working
    None = None
PROPERTIES LoopServesClients
CHECK_DEADLOCK FALSE
