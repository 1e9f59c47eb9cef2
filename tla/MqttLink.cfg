SPECIFICATION FairSpec
INVARIANTS TypeOK OneSocket PublishScheduled SessionKnown LedFollowsFlag CommandsSubscribed
PROPERTIES Implements NeverSilent StaleFlagHeals LedHeals
