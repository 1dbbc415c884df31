SPECIFICATION SpecSum
CHECK_DEADLOCK FALSE
INVARIANT ConnectionsKeepOrder
INVARIANT CodecsAgree
INVARIANT RoutedFaithfully
INVARIANT EnrolledOnce
INVARIANT VerdictsHold
INVARIANT HandshakesPair
INVARIANT DevicesAreFound
PROPERTY StepsKeepPromises
