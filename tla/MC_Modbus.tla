------------------------------ MODULE MC_Modbus ------------------------------
EXTENDS Modbus

(* One row of each way the slave and the master treat one.  The test       *)
(* registers, polled over UART only, are also a holding register that the  *)
(* slave does not count.                                                   *)
FewRows == <<"HOLD_DATA_0", "HOLD_TEST_REG", "RELAY_P2">>

=============================================================================
