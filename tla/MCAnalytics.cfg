SPECIFICATION Spec
CONSTANTS
    a1 = a1  a2 = a2  a3 = a3  food = food  home = home  spare = spare  shop = shop
    t1 = t1  t2 = t2  t3 = t3  i1 = i1  i2 = i2  None = None
    Account = {a1, a2, a3}  Opened = {a1, a2}  Category = {food, home, spare}  Party = {shop}
    Transaction = {t1, t2, t3}  Import = {i1, i2}  Number = {n1}
    Scope = {"personal", "business"}
    Bank <- Bookings  Rows <- Statements  Reconciled <- Reconciliation2
    Type <- Types  Flag <- Flags  Taxonomy <- FirstCategories
    AccountEdit <- AccountEdits  CategoryEdit <- CategoryEdits  PartyEdit <- PartyEdits
    TransactionEdit <- TransactionEdits Selection <- Selections Parting <- Partings  Opinion <- Opinions
    Query <- Queries
    MaxChanges = 3
INVARIANTS AnswersAreCurrent MoneyCountedOnce CategoriesFormATree
CHECK_DEADLOCK FALSE
