\* Two registers from 30 on, the second unmapped, and two from 512 on, the second
\* measured; the console sets the first of all, and the host writes the value of an
\* erased half-word too.
CONSTANTS
  BaseNum = 2
  ExNum = 2
  PageLen = 7
  Spare = {2}
  Live = {4}
  Watch = {1}
  Factory = {1}
  FactoryValue = 50
  Value = {0, 7, 50, 999, 42402, 65535}
  Written = {7, 65535}
  MAGIC = 42402
  ERASED = 65535
  NullValue = 999
SPECIFICATION Spec
INVARIANTS
  TypeOK
  ProgramsErased
  StoredWhole
  CutIsPrefix
  FlagWritten
  SaveOwed
PROPERTIES
  SavesParameters
