---------------------------- MODULE QuorumVerdict ----------------------------
(***************************************************************************)
(* src/quorum.rs: when an attestation by a quorum is quorate.              *)
(*                                                                         *)
(* A graph is a function from node ids to [kind, keys]; an unregistered    *)
(* node has kind Absent and no keys.  An attestation names the quorum      *)
(* node, claims a threshold, and carries signature slots.  The signature   *)
(* arithmetic is external: a slot is [key, good], good saying that it      *)
(* verifies under that key's public half over this attestation's canonical *)
(* bytes (which bind the statement, the quorum and the claimed threshold). *)
(***************************************************************************)
EXTENDS Naturals, FiniteSets

\* A ThresholdGroup { threshold, .. }, and the three kinds that are none.
Group(t) == [group |-> TRUE, threshold |-> t]
Plain    == [group |-> FALSE, threshold |-> 0]

\* KeyDirectory::resolve over TrustGraph::key_directory: any node's key.
Resolves(nodes, k) == \E n \in DOMAIN nodes : k \in nodes[n].keys

\* Keys of the slots that verify.
Signers(att) == {s.key : s \in {x \in att.slots : x.good}}

\* A slot verifies under a key registered on the quorum node itself.
GroupVerified(nodes, att) == Signers(att) \cap nodes[att.node].keys # {}

\* Mutant: the graph's own threshold is not compared.
GroupSigned(nodes, att) == GroupVerified(nodes, att)

\* ... and the graph asserts the threshold the attestation claims.
GroupCertifies(nodes, att) ==
  /\ GroupVerified(nodes, att)
  /\ nodes[att.node].kind = Group(att.threshold)

\* Distinct verifying keys of the directory that are not the quorum node's.
MemberKeys(nodes, att) ==
  {k \in Signers(att) : Resolves(nodes, k) /\ k \notin nodes[att.node].keys}

Quorate(nodes, att) ==
  \/ GroupCertifies(nodes, att)
  \/ Cardinality(MemberKeys(nodes, att)) >= att.threshold
=============================================================================
