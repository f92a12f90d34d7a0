---- MODULE MCOrderSweep ----
\* Instances of OrderSweep for TLC.
EXTENDS OrderSweep, TLC

CONSTANTS d1, d2, d3
====
