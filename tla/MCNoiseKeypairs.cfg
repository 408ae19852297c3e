CONSTANTS
  NoKeypair = NoKeypair
  Keypairs = {k1, k2, k3, k4}
  Rx = {rx}
  Tx = {tx}
  ClearsWhileLinking = FALSE
SPECIFICATION FairSpec

  
PROPERTIES
  CurrentIsConfirmed
  DroppedIsFreed
