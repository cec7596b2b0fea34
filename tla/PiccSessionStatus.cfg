SPECIFICATION Spec
CONSTANTS
  Kinds = {"TYPEA_TCL", "TYPEB_TCL", "MIFARE", "FELICA", "TOPAZ"}
  MaxNoise = 2
PROPERTY PowerOnActivates
