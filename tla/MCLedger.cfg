SPECIFICATION Spec
CONSTANTS
    t1 = t1  t2 = t2  shop = shop  food = food  moves = moves  None = None
    Transaction = {t1, t2}
    Category = {food, moves}
    TransferCategory = moves
    Type <- Types
    Action <- Actions
    Correction <- Corrections
    Party <- Parties
    Narration <- Narrations
    Bank <- Sayings
    Internal <- Pairs
    Draft <- Drafts
    MaxRules = 2
    MaxReviews = 2
    MaxChanges = 3
SYMMETRY Symmetry
INVARIANTS PairsSymmetric RulesInForce
PROPERTIES ManualKept UndoLeavesNoTrace
