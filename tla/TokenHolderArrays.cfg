\* Two governors, two voters, two shared ids, up to five entries.
CONSTANTS
  Accounts = {a1, a2}
  Governors = {g1, g2}
  Holder = Holder
  ProposalIds = {p1, p2}
  MaxVotes = 5
SPECIFICATION ArraysSpec
PROPERTIES
  ImplementsBags
