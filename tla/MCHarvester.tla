---------------------------- MODULE MCHarvester ----------------------------
(* Instances of Harvester: a tree and a rock, a store, and the               *)
(* foundations of a hut.                                                     *)
EXTENDS Harvester

CONSTANTS tree, rock, store, hut, wood, stone, us, them, here, none

MCKindOf == [d \in Deposits |-> IF d = rock THEN stone ELSE wood]
MCInGround == [d \in Deposits |-> 1]
MCOnes == [r \in Resource |-> 1]
MCMaxCarry == [r \in Resource |-> IF r = wood THEN 1 ELSE 2]
MCPriority == <<wood>>
MCStock == [e \in Sites |-> [r \in Resource |-> IF r = wood THEN 1 ELSE 0]]
MCRoom == [e \in Sites |-> [r \in Resource |-> IF r = wood THEN 2 ELSE 1]]
MCWish == [e \in Sites |-> [r \in Resource |-> 1]]
MCNeeds == [e \in Buildings |-> [r \in Resource |-> IF r = wood THEN 1 ELSE 0]]
=============================================================================
