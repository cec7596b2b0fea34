SPECIFICATION MifareFairSpec
CONSTANTS
  Kinds = {"MIFARE"}
  MaxNoise = 1
  Chips = {"S70", "SLE", "UL"}
  Keys = {"factory", "other"}
  Numbers = {0}
  FactoryKey = "factory"
  CardKey = "factory"
  Blocks = {14, 128}
  Lengths = {0, 8, 32}
INVARIANTS MifareTypeOK SessionSurvivesPolls OkMeansWritten SparesTrailers
PROPERTIES AuthenticationTrusted ImplementsSession AccessComesBack
