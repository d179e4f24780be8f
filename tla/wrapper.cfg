SPECIFICATION Spec
CONSTANTS
  MaxRequests = 3
  Asks = {{}, {"error"}, {"ok", "error"}}
  MaxRestored = 1
  Handles = {11, 12}
  IdMod = 5
  UserCalls = {"request", "tick", "disconnect", "setUserData", "destroy"}
  CallbackCalls = {"request", "tick", "disconnect", "setUserData"}
  MaxDepth = 3
  MaxThrows = 1
INVARIANT TypeOK
INVARIANT CallbackReached
INVARIANT EntriesLast
INVARIANT HandlesAreValid
INVARIANT SessionsAreHeld
