----------------------------- MODULE SeedFixtures -----------------------------
(***************************************************************************)
(* src/seed.rs: the demonstration trust graph, twice, as the source has    *)
(* it: built directly (build_graph, build_trust_lists, build_master_list,  *)
(* build_ledger), and as the ops an empty store records (seed_ops).        *)
(***************************************************************************)
EXTENDS TrustState

WitnessIds == <<"witness-1", "witness-2", "witness-3">>
QuorumIds  == <<"quorum-1", "quorum-2", "quorum-3">>
SeedNodeIds ==
  {WitnessIds[i] : i \in 1..3} \cup {QuorumIds[i] : i \in 1..3}
    \cup {"eu-super-quorum", "eu-root", "eu-notified", "issuer-key-a"}

\* SeedKeys::load: a key is named by the node it is registered on.
KeysOf(id) ==
  CASE id = "eu-super-quorum" -> {}
    [] id = "issuer-key-a"    -> {"issuer-a", "issuer-a-alt"}
    [] OTHER                  -> {id}
SeedKeyNames == UNION {KeysOf(id) : id \in SeedNodeIds}

KindOf(id) == IF id = "eu-super-quorum" THEN Group(2) ELSE Plain

Hop(parent, child) == [parent |-> parent, child |-> child, key |-> parent]

FromT0 == [from |-> 0, until |-> Absent]

\* What the two seeded declarations are about: the issuer's key.
Issuer(window) == [kind |-> "key", id |-> "issuer-a", window |-> window]

Misissuance ==
  [subject |-> Issuer("T0+3000..T0+8000"), retroactive |-> TRUE,
   quorum |-> [node |-> "eu-super-quorum", threshold |-> 2,
               slots |-> {[key |-> QuorumIds[i], good |-> TRUE] : i \in 1..3}]]
KeyCompromise ==
  [subject |-> Issuer("T0+9500.."), retroactive |-> FALSE, quorum |-> Absent]

RootAttestations ==
  {[witness |-> WitnessIds[i], key |-> WitnessIds[i]] : i \in 1..3}

\* The constants have the values that the fixtures name, and None is not an
\* attestation.
SeedVocabulary ==
  /\ SeedNodeIds \subseteq NodeId /\ SeedKeyNames \subseteq Key
  /\ "EU" \in ListName /\ "EU" \in Jurisdiction /\ Upper["EU"] = "EU"
  /\ "espr" \in Framework /\ FromT0 \in Dates
  /\ Misissuance.subject \in Subject /\ KeyCompromise.subject \in Subject
  /\ Absent # Misissuance.quorum
-----------------------------------------------------------------------------
\* build_graph, build_trust_lists, build_master_list and build_ledger.
Fixtures ==
  [EmptyStore EXCEPT
     !.nodes = [n \in NodeId |->
                  IF n \in SeedNodeIds
                  THEN [kind |-> KindOf(n), keys |-> KeysOf(n)] ELSE @[n]],
     !.edges = <<Hop("eu-root", "eu-notified"),
                 Hop("eu-notified", "issuer-key-a")>>,
     !.lists = [@ EXCEPT !["EU"] =
                  [framework |-> "espr",
                   entries |-> [n \in NodeId |-> IF n = "eu-root" THEN FromT0
                                                 ELSE Absent]]],
     !.m = 2,
     !.witnesses = [n \in NodeId |->
                      IF \E i \in 1..3 : n = WitnessIds[i] THEN {n} ELSE {}],
     !.roots = [@ EXCEPT !["eu-root"] = RootAttestations],
     !.ledger = <<Misissuance, KeyCompromise>>]

-----------------------------------------------------------------------------
(* seed_ops.                                                               *)

RegisterOp(id) ==
  [type |-> "register-node", id |-> id, kind |-> KindOf(id),
   keys |-> KeysOf(id)]

\* The emitted nodes in order: witnesses, quorum members, the quorum, the
\* chain from the root to the issuer.
NodeOps ==
  LET ids == WitnessIds \o QuorumIds
               \o <<"eu-super-quorum", "eu-root", "eu-notified",
                    "issuer-key-a">>
  IN  [i \in DOMAIN ids |-> RegisterOp(ids[i])]

EdgeOps ==
  << [type |-> "add-edge", edge |-> Hop("eu-root", "eu-notified")],
     [type |-> "add-edge", edge |-> Hop("eu-notified", "issuer-key-a")] >>

ListOps ==
  << [type |-> "register-trust-list", name |-> "EU", framework |-> "espr"],
     [type |-> "upsert-trust-entry", name |-> "EU", node |-> "eu-root",
      dates |-> FromT0] >>

MasterOps ==
  << [type |-> "set-witnesses", m |-> 2,
      witnesses |-> [i \in 1..3 |-> <<WitnessIds[i], WitnessIds[i]>>]],
     [type |-> "upsert-master-entry", node |-> "eu-root",
      attestations |-> RootAttestations] >>

RevocationOps ==
  << [type |-> "declare-revocation", revocation |-> Misissuance],
     [type |-> "declare-revocation", revocation |-> KeyCompromise] >>

\* Mutant: the edges before the nodes they join.
SeedOpsEdgesFirst ==
  EdgeOps \o NodeOps \o ListOps \o MasterOps \o RevocationOps

\* "Order is meaningful (nodes before edges; lists before entries)".
SeedOps == NodeOps \o EdgeOps \o ListOps \o MasterOps \o RevocationOps
=============================================================================
