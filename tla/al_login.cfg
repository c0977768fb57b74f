CONSTANTS
  u1 = u1
  u2 = u2
  None = None
  Users = {u1, u2}
  Fields <- Typed
  Slots = {1, 2}
  MaxActs = 3
SPECIFICATION FairSpec
INVARIANTS TypeOK OneSignIn OneUser StaysOut
PROPERTIES SignInEnds SignedInAgain
CHECK_DEADLOCK FALSE
