CONSTANT Apps <- Viewers
SPECIFICATION Spec
INVARIANTS TypeOK HandlersHaveLink FlowNotStuck OneSource LiveIsShown
