-------------------------- MODULE MCRouterMigration --------------------------
(* Two tunnels at once; one tunnel with a fault; one job from its tunnel to    *)
(* its import; two imports at once into one router, with a fault.             *)
EXTENDS RouterMigration

CONSTANTS a, b, c, d

MCJob == {a, b, c, d}
MCKnown == {b, c}
MCReachable == {a, c}
MCImportable == {c, d}
Scenario(J, s) == [j \in MCJob |-> IF j \in J THEN s ELSE "failed"]
Alone == Scenario({a}, "none")
Imports == Scenario({c, d}, "exported")
MCBegun == {Scenario({a, b}, "none"), Alone, Scenario({c}, "none"), Imports}
MCMaxFaults == [s \in MCBegun |-> IF s \in {Alone, Imports} THEN 1 ELSE 0]
=============================================================================
