SPECIFICATION ZoneSpec
CONSTANT Holders <- MCHolders
INVARIANT ExtendedNumberIsRead
CHECK_DEADLOCK FALSE
