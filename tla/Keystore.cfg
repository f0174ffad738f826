CONSTANTS
  alice = alice
  own = own
  bob = bob
  mallory = mallory
  gui = gui
  cli = cli
  Programs = {gui, cli}
  Windows = {gui}
  Labels <- MCLabels
  Own <- MCOwn
  Foreign <- MCForeign
  Genuine <- MCGenuine
  KeyFiles <- MCFiles
  Torn <- MCTorn
  Accented = {}
  MaxKeys = 2
  MaxVerified = 1
  MaxLines = 2
SPECIFICATION Spec
INVARIANTS TypeOK TrustIsConfirmed SecretsKept
