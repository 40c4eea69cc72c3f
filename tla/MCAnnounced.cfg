CONSTANTS
  Device = {p1}
  Requester = {}
  None = None
  MaxListeners = 1
  MaxAuthorized = 1
  MaxHolders = 1
  MaxBelow = 0
  MaxInbox = 1
SPECIFICATION Spec
PROPERTY AnnouncedGetsOffer
