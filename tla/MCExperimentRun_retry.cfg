SPECIFICATION StudioSpec
CONSTANTS
  Seeds = {"s1", "s2"}
  Drafts = {"a"}
INVARIANT RetryIsWatched
CHECK_DEADLOCK FALSE
