----------------------------- MODULE TrustState -----------------------------
(***************************************************************************)
(* src/store.rs: the in-memory Store as a record, what each journaled Op   *)
(* does to it (apply_op) and what each typed entry point checks before it  *)
(* records one.  Everything here is a pure operator: TrustStore adds the   *)
(* journal, the crashes and the handlers.                                  *)
(*                                                                         *)
(* HashMaps are total functions whose missing keys map to Absent.  An op   *)
(* is a record whose "type" is the journal's op token.  Payloads nothing   *)
(* here looks into (a scope document, an entry's two dates, the content of *)
(* an evidence document) are opaque values.                                *)
(***************************************************************************)
EXTENDS Integers, Sequences, FiniteSets, QuorumVerdict

CONSTANTS
  NodeId,        \* trust-graph node ids
  Key,           \* public keys; a key id is derived from the key (wire.rs)
  Spelling,      \* jurisdictions as requests spell them
  ListName,      \* spellings without blanks: validate_token lets a list be
                 \* registered under no other
  Jurisdiction,  \* jurisdictions as the maps key them
  Upper,         \* [Spelling -> Jurisdiction], str::to_ascii_uppercase
  Framework,     \* a list's framework, "no framework" being one of them
  Dates,         \* a trust-list entry's (not_before, superseded_at)
  Subject,       \* what a revocation is about, with its window
  EvidenceId, Scope,  \* neither is ever blank
  Absent         \* no such entry in a map; None

ASSUME UpperAssumption ==
  Upper \in [Spelling -> Jurisdiction] /\ ListName \subseteq Spelling

\* An attestation is a list of slots.
ASSUME KeyAssumption == IsFiniteSet(Key)

Kind == [group: BOOLEAN, threshold: Nat]

ASSUME AbsentAssumption ==
  Absent \notin Kind \cup Framework \cup Dates \cup Scope

Node == [kind: Kind \cup {Absent}, keys: SUBSET Key]

\* A delegation credential and the key that signed it.
Credential == [parent: NodeId, child: NodeId, key: Key]

\* A witness attestation on a master-list entry and the key that signed it.
Witnessing == [witness: NodeId, key: Key]

Attestation ==
  [node: NodeId, threshold: Nat, slots: SUBSET [key: Key, good: BOOLEAN]]

Revocation ==
  [subject: Subject, retroactive: BOOLEAN,
   quorum: Attestation \cup {Absent}]

Elements(s) == {s[i] : i \in DOMAIN s}

-----------------------------------------------------------------------------
\* enum Op, under the tokens AuditRecord::to_json writes.
Op ==
       [type: {"register-node"}, id: NodeId, kind: Kind, keys: SUBSET Key]
  \cup [type: {"add-edge"}, edge: Credential]
  \cup [type: {"register-trust-list"}, name: ListName, framework: Framework]
  \cup [type: {"upsert-trust-entry"}, name: Spelling, node: NodeId,
        dates: Dates]
  \cup [type: {"set-witnesses"}, m: Nat, witnesses: Seq(NodeId \X Key)]
  \cup [type: {"upsert-master-entry"}, node: NodeId,
        attestations: SUBSET Witnessing]
  \cup [type: {"declare-revocation"}, revocation: Revocation]
  \cup [type: {"register-evidence"}, id: EvidenceId, scope: Scope]
  \cup [type: {"evidence-released"}, id: EvidenceId, scope: Scope]

\* struct AuditRecord; id is a history tag, the number of records ever made.
AuditRecord == [id: Nat, seq: Nat, op: Op]

TrustList == [framework: Framework \cup {Absent},
              entries: [NodeId -> Dates \cup {Absent}]]

Store ==
  [nodes: [NodeId -> Node],
   edges: Seq(Credential),
   lists: [Jurisdiction -> TrustList],
   m: Nat,
   witnesses: [NodeId -> SUBSET Key],   \* of at most one key each
   roots: [NodeId -> (SUBSET Witnessing) \cup {Absent}],
   ledger: Seq(Revocation),
   evidence: [EvidenceId -> Scope \cup {Absent}],
   log: Seq(AuditRecord)]

\* Store::open before the replay: MasterList::new(1, {}) and empty maps.
EmptyStore ==
  [nodes |-> [n \in NodeId |-> [kind |-> Absent, keys |-> {}]],
   edges |-> << >>,
   lists |-> [j \in Jurisdiction |->
                [framework |-> Absent,
                 entries |-> [n \in NodeId |-> Absent]]],
   m |-> 1,
   witnesses |-> [n \in NodeId |-> {}],
   roots |-> [n \in NodeId |-> Absent],
   ledger |-> << >>,
   evidence |-> [e \in EvidenceId |-> Absent],
   log |-> << >>]

-----------------------------------------------------------------------------
(* External: what this crate relies on TrustGraph::add_edge and            *)
(* RevocationLedger::declare to check.                                     *)

Registered(s, n) == s.nodes[n].kind # Absent

\* Both endpoints are registered and the parent's key signed it.
EdgeAccepted(s, e) ==
  /\ Registered(s, e.parent)
  /\ Registered(s, e.child)
  /\ e.key \in s.nodes[e.parent].keys

\* The ledger's own guard: retroactive reasons carry an attestation.
LedgerAccepts(r) == r.retroactive => r.quorum # Absent

-----------------------------------------------------------------------------
(* apply_op's own conditions, one per fallible arm: when an arm fails the  *)
(* store is left as it was (replay and record only report it).             *)

ListKnown(s, name) == s.lists[Upper[name]].framework # Absent

WitnessSetSound(m, ws) == m # 0 /\ ws # << >> /\ m <= Len(ws)

WitnessesKnown(s, attestations) ==
  \A a \in attestations : s.witnesses[a.witness] # {}

\* Mutant: the journal is trusted, the quorum is not judged again.
RevocationTrusted(s, r) == r.retroactive => r.quorum # Absent

\* Retroactive reasons need an attestation that is quorate in this graph.
RevocationSound(s, r) ==
  r.retroactive => r.quorum # Absent /\ Quorate(s.nodes, r.quorum)

Applies(s, op) ==
  CASE op.type = "add-edge"            -> EdgeAccepted(s, op.edge)
    [] op.type = "register-trust-list" -> ~ListKnown(s, op.name)
    [] op.type = "upsert-trust-entry"  -> ListKnown(s, op.name)
    [] op.type = "set-witnesses"       -> WitnessSetSound(op.m, op.witnesses)
    [] op.type = "upsert-master-entry" -> WitnessesKnown(s, op.attestations)
    [] op.type = "declare-revocation"  -> /\ RevocationSound(s, op.revocation)
                                          /\ LedgerAccepts(op.revocation)
    [] op.type = "register-evidence"   -> s.evidence[op.id] = Absent
    [] OTHER                           -> TRUE

-----------------------------------------------------------------------------
(* What each arm does when it does not fail.                               *)

\* Mutant: the incoming keys replace as well.
PutNodeReplacing(s, op) ==
  [s EXCEPT !.nodes[op.id] = [kind |-> op.kind, keys |-> op.keys]]

\* The incoming kind replaces, the incoming keys merge.
PutNode(s, op) ==
  [s EXCEPT !.nodes[op.id] = [kind |-> op.kind, keys |-> @.keys \cup op.keys]]

PutEdge(s, op) == [s EXCEPT !.edges = Append(@, op.edge)]

\* Mutant: the name is stored where the framework belongs.
PutListSwapped(s, op) ==
  [s EXCEPT !.lists[Upper[op.name]] =
     [framework |-> op.name, entries |-> [n \in NodeId |-> Absent]]]

\* A fresh TrustList: no entries.
PutList(s, op) ==
  [s EXCEPT !.lists[Upper[op.name]] =
     [framework |-> op.framework, entries |-> [n \in NodeId |-> Absent]]]

PutEntry(s, op) == [s EXCEPT !.lists[Upper[op.name]].entries[op.node] = op.dates]

\* BTreeMap::from_iter: of two pairs with one id the later one stays.
LastKeyOf(ws, n) ==
  {k \in Key : \E i \in DOMAIN ws :
                 /\ ws[i] = <<n, k>>
                 /\ \A j \in DOMAIN ws : j > i => ws[j][1] # n}

\* The witness set is replaced, the entries survive it.
PutWitnesses(s, op) ==
  [s EXCEPT !.m = op.m,
            !.witnesses = [n \in NodeId |-> LastKeyOf(op.witnesses, n)]]

\* Mutant: the other roots go.
PutRootAlone(s, op) ==
  [s EXCEPT !.roots = [n \in NodeId |-> IF n = op.node THEN op.attestations
                                        ELSE Absent]]

PutRoot(s, op) == [s EXCEPT !.roots[op.node] = op.attestations]

PutRevocation(s, op) == [s EXCEPT !.ledger = Append(@, op.revocation)]

PutEvidence(s, op) == [s EXCEPT !.evidence[op.id] = op.scope]

Effect(s, op) ==
  CASE op.type = "register-node"       -> PutNode(s, op)
    [] op.type = "add-edge"            -> PutEdge(s, op)
    [] op.type = "register-trust-list" -> PutList(s, op)
    [] op.type = "upsert-trust-entry"  -> PutEntry(s, op)
    [] op.type = "set-witnesses"       -> PutWitnesses(s, op)
    [] op.type = "upsert-master-entry" -> PutRoot(s, op)
    [] op.type = "declare-revocation"  -> PutRevocation(s, op)
    [] op.type = "register-evidence"   -> PutEvidence(s, op)
    [] op.type = "evidence-released"   -> s

ApplyOp(s, op) == IF Applies(s, op) THEN Effect(s, op) ELSE s

\* The tail that replay and record share: apply the op, push the record --
\* pushed even when the op did not apply.
Absorb(s, rec) ==
  LET t == ApplyOp(s, rec.op) IN [t EXCEPT !.log = Append(@, rec)]

\* Mutant: numbers from 0.
NextSeqFromZero(s) == Len(s.log)

\* A new record's seq.
NextSeq(s) == Len(s.log) + 1

-----------------------------------------------------------------------------
(* The typed entry points: what each checks before it records.             *)

\* Mutant: the edge is recorded before it is checked.
MayAddEdgeUnchecked(s, op) == TRUE

MayAddEdge(s, op)  == EdgeAccepted(s, op.edge)

MayRegisterList(s, op) == s.lists[Upper[op.name]].framework = Absent

MayUpsertEntry(s, op)  == s.lists[Upper[op.name]].framework # Absent

\* Mutant: m is not compared with the number of witnesses.
MaySetWitnessesUnbounded(s, op) == ~(op.m = 0 \/ op.witnesses = << >>)

MaySetWitnesses(s, op) ==
  ~(op.m = 0 \/ op.witnesses = << >> \/ op.m > Len(op.witnesses))

MayUpsertRoot(s, op) ==
  \A a \in op.attestations : s.witnesses[a.witness] # {}

MayDeclare(s, op) ==
  LET r == op.revocation
  IN  /\ r.retroactive => r.quorum # Absent /\ Quorate(s.nodes, r.quorum)
      /\ LedgerAccepts(r)

\* That id, scope and content are not blank is a check on the document alone:
\* the model's documents pass it.
MayRegisterEvidence(s, op) == s.evidence[op.id] = Absent

\* release_evidence: the document exists and the request names its scope.
MayRelease(s, op) == s.evidence[op.id] # Absent /\ s.evidence[op.id] = op.scope

-----------------------------------------------------------------------------
(* wire::master_entry_quorate: distinct witnesses whose attestation        *)
(* verifies under the key registered for them now.                         *)

\* Mutant: an attestation counts by the name it gives.
AttestingByName(s, n) == {a.witness : a \in s.roots[n]}

Attesting(s, n) ==
  {a.witness : a \in {x \in s.roots[n] : x.key \in s.witnesses[x.witness]}}

RootAccepted(s, n) ==
  s.roots[n] # Absent /\ Cardinality(Attesting(s, n)) >= s.m
=============================================================================
