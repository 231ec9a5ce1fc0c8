----------------------------- MODULE ModbusRuns -----------------------------
(***************************************************************************)
(* The runs of a Modbus program, as ModbusService has them, under names    *)
(* that neither the loops of module Modbus nor the other parts use: so     *)
(* MC_Parts can put them beside those parts, and Modbus_proofs can have    *)
(* theorems about the loops and the services around them.                  *)
(***************************************************************************)
EXTENDS Integers, Sequences

CONSTANTS Slaves, Queries, MaxRuns

VARIABLES program, resolver, step, up, table, tries, early, announced, runs

serviceVars == <<program, resolver, step, up, table, tries, early, announced, runs>>

Services == INSTANCE ModbusService WITH Devices <- Slaves, pc <- step

ASSUME RunsAssumption == Services!CountsOK

(* Services stand on those below them, and a Modbus program that operates  *)
(* knows its slaves.                                                       *)
ServicesHold == Services!ServicesHold
=============================================================================
