---------------------------- MODULE MCQueryScan ----------------------------
(* Small instances of QueryPages for TLC. Tokens: values below ids and field *)
(* names, one id below the names and one above.                              *)
EXTENDS QueryPages

A == 100
B == 101
MCValue == {-1, 0, 1}

On(name, fields) == [name |-> name, fields |-> fields, primary |-> FALSE]
MCIndex == {[name |-> "primary", fields |-> <<PK>>, primary |-> TRUE],
            On("a", <<A>>), On("ab", <<A, B>>), On("b", <<B>>)}
MCField == {A, B}

By(f, desc) == [field |-> f, desc |-> desc]
MCOrders == {<< >>, <<By(PK, TRUE)>>, <<By(A, FALSE)>>,
             <<By(A, TRUE), By(B, FALSE)>>, <<By(B, FALSE), By(A, TRUE)>>}
=============================================================================
