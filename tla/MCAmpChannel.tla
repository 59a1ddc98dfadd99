---------------------------- MODULE MCAmpChannel ----------------------------
(* AmpChannel with a small universe of facts: two rival transitions out of *)
(* epoch 0 and one out of epoch 1.                                         *)
EXTENDS AmpChannel

CONSTANTS a, b, w1, w2, s1, s2, v1, v2

MCBy == [c \in Call |-> IF c \in Send THEN a ELSE b]

Tr(e, c, p, i) ==
  [epoch |-> e, parent |-> c, next |-> e + 1, policy |-> p, n |-> i]

Prop(t, o) == [type |-> "proposed", tr |-> t, id |-> t, order |-> o]
Plain(kind, t) == [type |-> kind, tr |-> t]
Cert(t, sigs) == [type |-> "certified", tr |-> t, signatures |-> sigs, threshold |-> 2]

Remove == Tr(0, 0, "Subtractive", 0)
Rival == Tr(0, 0, "Normal", 1)
Later == Tr(1, 0, "Quarantine", 0)

(* A proposal with the id of the removal and other fields; it comes before *)
(* the real one in the order of facts.                                     *)
Unbound ==
  [type |-> "proposed", tr |-> Tr(1, 0, "Quarantine", 1), id |-> Remove, order |-> 0]

RivalFacts ==
  { Prop(Remove, 1), Unbound, Cert(Remove, <<w1, w2>>), Plain("committed", Remove),
    Cert(Rival, <<w1, w2>>), Cert(Later, <<w2, w2>>) }

(* The rival is certified where a is; the removal is proposed, certified    *)
(* and committed where b is.                                                *)
RivalOrigin ==
  [r \in Replica |->
     LET atA == {Unbound, Cert(Rival, <<w1, w2>>)}
     IN IF r = a THEN atA ELSE RivalFacts \ atA]

(* A certified transition of the parent with commitment 1, and a proposal  *)
(* built by ProposedChannelEpochBump::new, whose parent commitment is the  *)
(* default one, the first in hash order.                                   *)
DefaultProposalFacts ==
  { Prop(Tr(0, 1, "Subtractive", 0), 0),
    Cert(Tr(0, 1, "Subtractive", 0), <<w1, w2>>),
    Prop(Tr(0, 0, "Normal", 1), 1) }

Everywhere == [r \in Replica |-> Fact]

=============================================================================
