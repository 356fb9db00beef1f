------------------------------ MODULE MCXappAgent ------------------------------
EXTENDS XappAgentProperties, TLC

CONSTANTS u1, u2

\* A chain of moves, from 2 to 3 and from 3 to 4, and sometimes both vehicles or
\* none in 3 and none in 2.
ChainOfVehicles == 2 :> {{}, {u1}} @@ 3 :> {{}, {u2}, {u1, u2}} @@ 4 :> {{}}

\* One vehicle and an RSU for it to move to, which now and then counts another
\* one as well, which is leaving it.
SometimesTwo == 2 :> {{u1}} @@ 3 :> {{}, {u1, u2}}
================================================================================
