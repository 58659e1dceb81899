SPECIFICATION Spec
CONSTANT FirstReads <- MCFirstReads
INVARIANT SerialPortServed
