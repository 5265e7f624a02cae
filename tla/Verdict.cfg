SPECIFICATION Spec
CONSTANTS
    always = always
    never = never
    ai = ai
    rag = rag
    oauth = oauth
    server = server
    mail = mail
    xml = xml
    v1 = v1
    v2 = v2
    v3 = v3
    v4 = v4
    v5 = v5
    c1 = c1
    ch = ch
    sec = sec
    Condition = {always, never, ai, rag, oauth, server, mail, xml}
    Always = always
    Never = never
    Ai = ai
    AboutAi = {rag}
    Oauth = oauth
    AuthServer = server
    Derived = {xml}
    Requirement = {v1, v2, v3, v4, v5, c1}
    Level <- MCLevel
    Scope = {v1, v2, v3, v4, v5, c1, ch, sec}
    ScopesOf <- MCScopesOf
    Base <- MCBase
    Overlay <- MCOverlay
    ManualOnly = {v3}
    NotForTests = {c1}
    Process = {c1}
    Findings = 7
    Names <- MCNames
    Severity <- MCSeverity
    Own = {2, 3, 5, 6, 7}
    Quiet = {6}
    Line <- MCLine
    Now <- MCNow
    Before <- MCBefore
    Running = 5
    NotHeld = 7
    Profiles <- MCProfiles
    Later <- Laters
INVARIANTS NothingLeftOut EveryFindingCounts CleanMeansClean
CHECK_DEADLOCK FALSE
