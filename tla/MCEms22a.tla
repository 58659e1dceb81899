------------------------------ MODULE MCEms22a ------------------------------
(* Streams with one or two ones or up to one zero: every bit of every      *)
(* frame in both values, next to a one and next to a zero, with right and  *)
(* with wrong parity, alone and together with the same bit of the next     *)
(* device (17 bits later) and of the next word (16 bits later).            *)
EXTENDS Ems22a

OneAt(s) == [p \in Positions |-> IF p \in s THEN 1 ELSE 0]
MCStreams ==
    {OneAt({p, p + d} \cap Positions) : p \in Positions, d \in {0, 1, 16, 17}}
    \cup {OneAt({}), OneAt(Positions)}
    \cup {OneAt(Positions \ {p}) : p \in Positions}
=============================================================================
