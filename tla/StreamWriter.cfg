SPECIFICATION Spec
CONSTANTS
  NSPrefixes = {"", "p"}
  URIs = {1, 2}
  Contents <- MCContents
  Values <- MCValues
  MaxDepth = 2
  MaxContent = 3
INVARIANTS OutputAgrees ScopesAgree
PROPERTY RefusalIsClean
