SPECIFICATION Spec
INVARIANTS
    PlansAreOrdered   ExpressionsKeepMeaning
    ArtifactsAreFaithful LibrariesAreFound
CHECK_DEADLOCK FALSE
