---------------------------- MODULE MCPoolClient ----------------------------
(* Values of PoolClient's constants for TLC: ta precedes hbar, and hbar tb, *)
(* in the order of their addresses.                                        *)
EXTENDS PoolClient

CONSTANTS ta, hbar, tb

World(c, ts, f, o) == [client |-> c, tokens |-> ts, fee |-> f, others |-> o]

MCWorlds ==
  {World("pair.ts", <<hbar, ta>>, 100, FALSE),
   World("pair.ts", <<hbar, tb>>, 50, TRUE),
   World("factory.ts", <<ta, tb>>, 50, FALSE),
   World("factory.ts", <<tb, hbar>>, 100, FALSE),
   World("factory.ts", <<ta, tb>>, 100, TRUE),
   World("factory.ts", <<tb, hbar>>, 250, TRUE),
   World("PairTest", <<tb, ta>>, 100, FALSE),
   World("PairTest", <<ta, tb>>, 50, FALSE),
   World("FactoryTest", <<tb, hbar>>, 100, FALSE),
   World("FactoryTest", <<tb, hbar>>, 50, FALSE)}
MCAddress == [t \in Tokens |-> IF t = ta THEN 1 ELSE IF t = tb THEN 3 ELSE 2]
MCTransactionFees == <<50, 100, 250>>
=============================================================================
