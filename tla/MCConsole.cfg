\* Bytes of two bits, ids of two bytes: 16 ids, of which 15, 11 and 51 are typed.
CONSTANTS
  Base = 4
  IdBytes = 2
  LengthBytes = 2
  Modulus = 16
  Lines <- MCLines
  MaxIds = 2
  MaxText = 3
SPECIFICATION Spec
INVARIANTS TypeOK NoUnderflow ShownAsTyped NumberIsAccepted
\* A behaviour is one line, text or list.
CHECK_DEADLOCK FALSE
