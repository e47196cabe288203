SPECIFICATION FairSpec
CONSTANTS
    Handle = {h1, h2}
    Client = {c1, c2, c3}
    Ssr = Ssr
    None = None
INVARIANTS TypeOK NoUseAfterDestroy CounterExact HolderNeverBlocks OneDestroyer IteratorValid
PROPERTIES CloseReturns ImplementsLifetime
