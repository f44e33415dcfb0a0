SPECIFICATION Spec
CONSTANTS
  Sessions = {s1, s2}
  Observers = {o1, o2, stranger}
  o1 = o1
  o2 = o2
  stranger = stranger
  Chains = {1, 2}
  Signers = {1, 2, 3}
  Width = 4
  MaxObservers = 2
  MaxSignatures = 2
  NoKey = nokey
  MaxBalance = 3
SYMMETRY Symmetry
INVARIANTS PostingsAreEarned
PROPERTIES RailsCommitTransitions
