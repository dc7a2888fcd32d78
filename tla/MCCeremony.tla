------------------------------ MODULE MCCeremony ------------------------------
\* Ceremony with a quorum "q" of the members "a" and "b": thresholds of one
\* and two, and command lines that must be refused.
EXTENDS Ceremony, MCTrustStore

Run(t, signers, subject, retroactive) ==
  [quorum |-> "q", threshold |-> t, members |-> <<"a", "b">>,
   signers |-> signers, subject |-> subject, retroactive |-> retroactive]

\* Signed by both, by one, for another subject; one signer of two, one signer
\* twice, a stranger, one too many, and a prospective reason.
MCRuns ==
  {Run(2, <<"a", "b">>, "s", TRUE), Run(1, <<"b">>, "s", TRUE),
   Run(2, <<"b", "a">>, "far", TRUE),
   Run(2, <<"a">>, "s", TRUE), Run(2, <<"a", "a">>, "s", TRUE),
   Run(2, <<"a", "q">>, "s", TRUE), Run(1, <<"a", "b">>, "s", TRUE),
   Run(2, <<"a", "b">>, "s", FALSE)}

MCGroupKey ==
  [s \in {<<"q", t, {"a", "b"}>> : t \in {1, 2}} |->
     IF s[2] = 1 THEN "kh" ELSE "kg"]

NodeQ3 == Put1("q", Group(3), {})
NodeAB == Put1("a", Plain, {"ka", "kb"})

\* Two member keys and a declaration signed by those; the member registered
\* again without them; the quorum registered again with another threshold,
\* with a member's key.
MCOthers == {NodeAB, NodeA0, ByMembers, NodeQ3, NodeQA}

MCRequests == MCOthers \cup Documents

\* What the theorem about DeclarationsSigned supposes is so here.
ASSUME KeysHeld
=============================================================================
