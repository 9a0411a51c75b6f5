\* Kernel: three providers, two scopes.  HTTP: two requests at a time to sign in.  Retrieval:
\* two callers.  Views: two processes, two renders.  Storage: two clients.
SPECIFICATION Spec
CONSTANTS
    None = None
    Null = Null
    p1 = p1
    p2 = p2
    p3 = p3
    Root = root
    Child = {r1, r2}
    a1 = a1
    a2 = a2
    c1 = c1
    c2 = c2
    Caller = {c1, c2}
    MaxCalls = 3
    MaxFaults = 1
    SignIn = {r3, r4}
    r1 = r1
    r2 = r2
    Client = {c1, c2}
VIEW PartView
INVARIANTS DatabaseInv KernelInv HttpInv ContentInv
CHECK_DEADLOCK FALSE
