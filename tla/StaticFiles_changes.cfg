CONSTANTS
  Names <- MCNames
  Urls <- AllUrls
  Index = "index"
  Kinds = {"file", "dir", "denied", "opaque"}
  MaxChanges = 2
SPECIFICATION StaticSpec
INVARIANTS NotFoundIsTrue ServedWasThere SPAServesIndex
