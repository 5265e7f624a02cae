---------------------------- MODULE MCDockerRun ----------------------------
(* Three processes of one machine: one that was killed, one that meets every *)
(* fault, and one beside or after it that meets none.                        *)
EXTENDS DockerRun

CONSTANTS r1, r2

OneMachine == [r \in Everyone |-> "machine"]
OwnPids == [r \in Everyone |-> IF r = r1 THEN 1 ELSE IF r = r2 THEN 2 ELSE 3]

EveryFault == [r \in Run |-> IF r = r1 THEN {"docker", "rm", "ctrl-c", "kill"} ELSE {}]
=============================================================================
