SPECIFICATION FairSpec
INVARIANTS SortExact TreeComplete SumsComplete OnceUnlessEarly  FieldOnce
PROPERTY Termination
CHECK_DEADLOCK FALSE
