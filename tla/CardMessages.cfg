\* The real limits; every bit, byte and cut of each message, one at a time.
SPECIFICATION Spec
CONSTANTS
  Rejected = Rejected  None = None
  FieldSpecs <- MCFieldSpecs
  CurrencyOf <- MCCurrencyOf
  Routes <- MCRoutes
  Requests <- MCRequests
  Messages <- MCMessages
  Payloads <- MCPayloads
  MessageIds <- MCMessageIds
  MaxEdits = 1
  MaxTagBytes = 4  MaxLengthBytes = 3  MaxNesting = 8
CHECK_DEADLOCK FALSE
INVARIANTS LosslessOnTheWire OneFormPerMessage MappingKeepsElements LossesAreDeclared ChipDataHasOneForm RouteIsUnique
