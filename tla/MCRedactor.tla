----------------------------- MODULE MCRedactor -----------------------------
(* Instances of Redactor for TLC. *)
EXTENDS RedactorExact

CONSTANTS stdout, stderr, K1, K2

Secret(name, value) == [name |-> name, value |-> value]

\* Forms that cannot overlap; two secrets with the same value; a secret whose
\* encoded forms include one another; secrets that overlap, contain one another
\* or begin alike; a secret that overlaps itself; an empty one; none.
MCFamilies == {
    <<Secret(K1, <<1, 2>>), Secret(K2, <<3>>)>>,
    <<Secret(K1, <<1, 2>>), Secret(K2, <<1, 2>>)>>,
    <<Secret(K1, <<1, 1, 2>>)>>,
    <<Secret(K1, <<1, 2>>), Secret(K2, <<2, 3>>)>>,
    <<Secret(K1, <<1>>), Secret(K2, <<1, 2, 3>>)>>,
    <<Secret(K1, <<>>), Secret(K2, <<1, 1>>)>>,
    <<>>}

\* The secrets of TestRedact_OverlapAcrossSplitWrites.
Overlapping == {<<Secret(K1, <<1, 2, 3>>), Secret(K2, <<2, 3, 4>>)>>}

\* With and without padding, like two of the base64 alphabets.
MCEncoded ==
    [v \in {f[s].value : <<f, s>> \in UNION {{f} \X DOMAIN f : f \in MCFamilies \cup Overlapping}} |->
        IF Len(v) < 3 THEN <<>> ELSE <<<<3, 2, 2>>, <<3, 2>>, <<3, 2, 2>>, <<3, 2>>>>]
=============================================================================
