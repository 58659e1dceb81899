------------------------------ MODULE MCI2cBus ------------------------------
EXTENDS I2cBus, TLC

CONSTANTS t1, t2, t3

MCThreads == {t1, t2, t3}
MCKind == (t1 :> "lsm303c") @@ (t2 :> "mlx90393") @@ (t3 :> "lsm303dlhc")
=============================================================================
