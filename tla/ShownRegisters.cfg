CONSTANTS
  Value <- MCValue
  MinG = 2
  Registers = 4
  Ring = 4
  MaxO = 5

SPECIFICATION MachineSpec

INVARIANT
  ShowsTheProgramsRegisters
