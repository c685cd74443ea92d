SPECIFICATION LiveSpec
CONSTANTS
  Refs = {own, fork}
  Own = own
  Top = 2
  MaxFaults = 2
  None = None
INVARIANTS TypeOK BootstrapMeansBuilt  RerunFills
PROPERTIES RaisedWhereItGrows StopSeesOff CommandEnds GrowCompletes
