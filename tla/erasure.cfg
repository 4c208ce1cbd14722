\* Deletes of two agents and their board that overlap with each other, with
\* approvals, submissions and the retention sweep.
SPECIFICATION Spec
CONSTANTS
    r1 = r1
    r2 = r2
    agent1 = agent1
    agent2 = agent2
    boardTenant = boardTenant
    Request = {r1, r2}
    Tenant = {agent1, agent2, boardTenant}
    Scope <- Scopes
    MaxRow = 2
    MaxDelete = 2
INVARIANTS
    TypeOK
    ErasedOnlyOnRequest
    ErasureReachesAll
    NothingDangles
    LastEraserRemovesCandidate
CHECK_DEADLOCK FALSE
