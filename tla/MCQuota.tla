------------------------------ MODULE MCQuota ------------------------------
(* The instance of Quota: one client, and minutes of two instants in hours *)
(* of four, the second instant of a minute being its last millisecond.     *)
EXTENDS Quota

CONSTANTS MINUTELY, HOURLY

MCPeriods == <<MINUTELY, HOURLY>>

MCLength == [p \in Period |-> IF p = MINUTELY THEN 2 ELSE 4]

MCLoads == [p \in Period |-> IF p = MINUTELY THEN {100} ELSE {100, 50}]

MCLimit == [p \in Period |-> IF p = MINUTELY THEN 1 ELSE 2]
=============================================================================
