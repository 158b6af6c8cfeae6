CONSTANTS
  h0 = h0
  h1 = h1
  h2 = h2
  s1 = s1
  A = A
  B = B
  Hellos = {h0, h1, h2}
  Samples = {s1}
  Detector = Detector
  Peers = {A, B}
  PeerOf <- TwoPeers
  MaxRounds = 0
SPECIFICATION Spec
INVARIANTS HellosAreListed
CHECK_DEADLOCK FALSE
