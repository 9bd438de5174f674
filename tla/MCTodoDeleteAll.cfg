CONSTANTS
    None = None
    d1 = d1
    d2 = d2
    q1 = q1
    Owners <- MCOwners
    TodoIds <- MCTodoIdsSmall
    BatchSize = 1
    PageLimit = 1
    Deleters = {d1}
    Pagers = {q1}
    Actors <- MCActors
    InitTodos <- MCInitTodosSmall
SPECIFICATION Spec
INVARIANT TypeOK
INVARIANT DeleteAllComplete
PROPERTY DeleteAllTerminates
INVARIANT PaginationTotality
