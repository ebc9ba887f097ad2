SPECIFICATION CacheSpec
CONSTANTS
  Calls <- ThreeCalls
  Scopes <- TwoScopes
  Texts <- OneText
  Credentials <- TwoKeys
  MaxEntries = 2
  Ttl = 1
  MaxTime = 3
  NoKey = NoKey
  c1 = c1
  c2 = c2
  c3 = c3
  alice = alice
  bob = bob
  query = query
  old = old
  current = current
SYMMETRY Symmetric
INVARIANT CacheTypeOK
INVARIANT HitsAreOwn
INVARIANT HitsAreFresh
