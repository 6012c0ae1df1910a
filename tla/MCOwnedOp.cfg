SPECIFICATION FairSpec
INVARIANT OneOwner
PROPERTIES EveryoneReturns Refines
