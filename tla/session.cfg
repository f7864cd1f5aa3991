SPECIFICATION SessionSpec
CONSTANTS
  Endpoints = {e, f}
  None = None
  Offlineable = {e}
  Agents = {f}
  Clicks = {s}
INVARIANT ShownIsUsed
PROPERTIES OfflineSettles LogoutForgets
