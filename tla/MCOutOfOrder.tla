---------------------------- MODULE MCOutOfOrder ----------------------------
EXTENDS OutOfOrder
A == 1
B == 2
Op(loads, stores, reads, writes) ==
  [loads |-> loads, stores |-> stores, reads |-> reads, writes |-> writes]
Alu(reads, writes) == Op({}, {}, reads, writes)
Load(a, reads, writes) == Op({a}, {}, reads, writes)
Store(a, reads) == Op({}, {a}, reads, {})

\* Two stores to one address, loads before, between and behind them, and a chain of registers.
Aliases == <<Load(A, {}, {1}), Store(A, {1}), Load(A, {}, {2}), Store(A, {}), Load(A, {}, {1}),
             Store(B, {1, 2}), Load(B, {}, {})>>
\* An instruction with two loads and one with two stores; the loads fill the load queue.
Pairs == <<Op({A, B}, {}, {}, {1}), Op({}, {A, B}, {1}, {}), Op({A, B}, {}, {}, {2}),
           Load(A, {}, {}), Store(B, {}), Load(B, {2}, {})>>
\* Writers of one register that complete in either order, readers of two registers.
Writers == <<Load(A, {}, {1}), Load(B, {}, {2}), Alu({1}, {1}), Alu({1, 2}, {1}), Alu({}, {1}),
             Op({A}, {A}, {1, 2}, {}), Store(A, {1})>>
\* A load that a younger store to its address overtakes.
Overtaken == <<Alu({}, {1}), Load(A, {1}, {2}), Store(A, {}), Load(A, {}, {1}), Store(A, {2}),
               Load(A, {1}, {}), Store(B, {})>>
MCPrograms == {Aliases, Pairs, Writers, Overtaken}

\* A load of A and B behind a store to both, with a nearer store to A.
MCCrossed == {<<Op({}, {A, B}, {}, {}), Store(A, {}), Op({A, B}, {}, {}, {})>>}

\* Loads of four stored addresses fill the load queue while the stores wait for an older load.
MCFullLoadQueue == {<<Alu({}, {1}), Load(5, {1}, {2}), Op({}, {1, 2}, {2}, {}), Op({}, {3, 4}, {2}, {}),
                      Op({1, 2, 3, 4}, {}, {}, {}), Op({1, 3}, {}, {}, {})>>}
=============================================================================
