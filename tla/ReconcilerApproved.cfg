SPECIFICATION Spec
CONSTANTS
  server = server
  policy = policy
  dns = dns
  Resources = {server, policy, dns}
  Rank <- MCRank
  Required = {policy, dns}
  Named = {server}
  Hashes = {h1, h2}
  NoHash = NoHash
  MaxRuns = 3
  MaxEdits = 2
SYMMETRY Symmetry
CHECK_DEADLOCK FALSE
INVARIANT
  OnlyApprovedSent
