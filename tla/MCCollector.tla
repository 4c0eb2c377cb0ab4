---------------------------- MODULE MCCollector ----------------------------
(***************************************************************************)
(* The collector for TLC: pairs of the tokens the parser tells apart, other *)
(* single tokens, a payload with every key, and three statuses.            *)
(***************************************************************************)
EXTENDS Collector, FiniteSetsExt, TLC

Tok(k, kind, n) == [key |-> k, value |-> [kind |-> kind, n |-> n]]

Tokens == {Tok("pe", "int", 1), Tok("pe", "junk", 0),
           Tok("tc_dis", "int", 0), Tok(NoKey, "int", 1)}

Others == {Tok("tc_dis", "float", 0), Tok("tc_dis", "int", 2),
           Tok("w1", "float", 3), Tok("zz", "int", 1)}

PayloadKeys == {"pe", "kn", "do", "lv", "bc", "bs", "pt", "it", "lmo", "lmi",
                "tc_dis", "w1", "w2", "g1", "g2", "o1", "o2", "tl", "th", "b1",
                "b2", "a0", "a1", "a2", "m0", "m1", "m2", "m3"}

FullPayload == FoldSet(LAMBDA k, p : Append(p, Tok(k, "int", 1)), <<>>,
                       PayloadKeys)

MCPayloads ==
    {FullPayload} \cup {<<t>> : t \in Others}
                  \cup {<<t, u>> : t \in Tokens, u \in Tokens}

MCStatuses ==
    {[f \in {} |-> 0], [f \in {"SOCPercent", "Out1Enabled"} |-> 1],
     [f \in {r[1] : r \in StatusRows} |-> 1]}

Symmetry == Permutations(Scrapers)
=============================================================================
