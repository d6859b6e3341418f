SPECIFICATION Spec
CONSTANTS
    owner = owner  helper = helper
    main = main  v1 = v1  o1 = o1  o2 = o2
    r1 = r1  r2 = r2  a1 = a1  a2 = a2
    c1 = c1  c2 = c2  w = w
    None = None  Null = Null
    Key = {owner, helper}
    Addr = {a1, a2}
    Kind = {"announcement", "state", "patch"}
    AdminReq = {r1, r2}
    Configs <- MCConfigs
    Pushing <- MCPushing
    MaxTracked = 1
    MaxMinute = 1
    Author = {owner, helper}
    Owner = owner
    Branch = {main}
    Tag = {v1}
    Oid = {o1, o2}
    Client = {c1, c2}
    Visitor = {w}
    GitProcesses = 1
    Updates <- MCUpdates
    StateRefs <- MCStateRefs
    Maintainers <- MCMaintainers
    MaxCreatedAt = 2
INVARIANTS PolicySurvivesRestart EventRateHeld OnePackBuffered MovesFollowStateEvents
 
