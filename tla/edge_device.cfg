CONSTANTS
  MaxChange = 3
  EdgeFaults = {"adc_init", "adc_read", "service", "char", "descr"}
SPECIFICATION EdgeFairSpec
INVARIANTS
  EdgeTypeOK
  InterfaceMatches
PROPERTIES
  TableFinal
  AnswersNeverOlder
  Published
  Notified
  RemoteSpec
