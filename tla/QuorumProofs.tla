---------------------------- MODULE QuorumProofs ----------------------------
(***************************************************************************)
(* What retroactive revocations rest on, for every value of the constants: *)
(* a key of the graph behind each one in the ledger, whatever the journal  *)
(* has lost, and a live verdict that only its quorum node can undo.        *)
(***************************************************************************)
EXTENDS TrustStoreProofs, FiniteSetTheorems

\* What an op does to the nodes, the ledger and the log.
LEMMA EffectOnNodes ==
  ASSUME NEW s \in Store, NEW op \in Op
  PROVE  LET t == Effect(s, op) IN
         /\ t.nodes \in [NodeId -> Node] /\ t.log = s.log
         /\ \A n \in NodeId : s.nodes[n].keys \subseteq t.nodes[n].keys
         /\ \A n \in NodeId :
              ~(op.type = "register-node" /\ op.id = n)
                => t.nodes[n] = s.nodes[n]
         /\ t.ledger = IF op.type = "declare-revocation"
                       THEN Append(s.ledger, op.revocation) ELSE s.ledger
<1> DEFINE t == Effect(s, op)
<1>1. t \in Store
  BY EffectType
<1>2. s.nodes \in [NodeId -> Node] /\ t.nodes \in [NodeId -> Node]
  BY <1>1 DEF Store
<1>3. CASE op.type = "register-node"
  <2>1. op.id \in NodeId /\ op.kind \in Kind /\ op.keys \in SUBSET Key
    BY <1>3 DEF Op
  <2>2. t = [s EXCEPT !.nodes[op.id] =
               [kind |-> op.kind, keys |-> s.nodes[op.id].keys \cup op.keys]]
    BY <1>3 DEF Effect, PutNode
  <2>3. t.ledger = s.ledger /\ t.log = s.log
    BY <2>2 DEF Store
  <2>4. t.nodes = [s.nodes EXCEPT ![op.id] =
               [kind |-> op.kind, keys |-> s.nodes[op.id].keys \cup op.keys]]
    BY <2>2 DEF Store
  <2>5. ASSUME NEW n \in NodeId
        PROVE  /\ s.nodes[n].keys \subseteq t.nodes[n].keys
               /\ op.id # n => t.nodes[n] = s.nodes[n]
    BY <1>2, <2>1, <2>4
  <2>6. QED BY <1>2, <1>3, <2>3, <2>5
<1>4. CASE op.type = "declare-revocation"
  <2>1. t = [s EXCEPT !.ledger = Append(s.ledger, op.revocation)]
    BY <1>4 DEF Effect, PutRevocation
  <2>2. /\ t.nodes = s.nodes /\ t.log = s.log
        /\ t.ledger = Append(s.ledger, op.revocation)
    BY <2>1 DEF Store
  <2>3. QED BY <1>2, <1>4, <2>2
<1>5. CASE op.type \notin {"register-node", "declare-revocation"}
  <2>1. t.nodes = s.nodes /\ t.ledger = s.ledger /\ t.log = s.log
    BY <1>5 DEF Op, Effect, Store, PutEdge, PutList, PutEntry, PutWitnesses,
                PutRoot, PutEvidence
  <2>2. QED BY <1>2, <1>5, <2>1
<1>6. QED BY <1>3, <1>4, <1>5

-----------------------------------------------------------------------------
\* A quorate attestation that asks for anybody has a signer whose key is in
\* the graph.
LEMMA QuorateIsSigned ==
  ASSUME NEW nodes \in [NodeId -> Node], NEW att \in Attestation,
         Quorate(nodes, att), att.threshold # 0
  PROVE  \E k \in Signers(att) : Resolves(nodes, k)
<1>1. att.node \in NodeId /\ att.threshold \in Nat
  BY DEF Attestation
<1>2. CASE GroupCertifies(nodes, att)
  BY <1>1, <1>2 DEF GroupCertifies, GroupVerified, Resolves
<1>3. CASE Cardinality(MemberKeys(nodes, att)) >= att.threshold
  <2>1. MemberKeys(nodes, att) # {}
    <3>1. SUFFICES ASSUME MemberKeys(nodes, att) = {} PROVE FALSE
      OBVIOUS
    <3>2. Cardinality({}) = 0
      BY FS_EmptySet
    <3>3. 0 >= att.threshold
      BY <1>3, <3>1, <3>2
    <3>4. QED BY <1>1, <3>3
  <2>2. QED BY <2>1 DEF MemberKeys
<1>4. QED BY <1>2, <1>3 DEF Quorate

\* Registering keys can only add to what an attestation reaches, as long as
\* its quorum node is left alone.
LEMMA QuorateGrows ==
  ASSUME NEW a \in [NodeId -> Node], NEW b \in [NodeId -> Node],
         NEW att \in Attestation, Quorate(a, att),
         \A n \in NodeId : a[n].keys \subseteq b[n].keys,
         b[att.node] = a[att.node]
  PROVE  Quorate(b, att)
<1>1. att.node \in NodeId /\ att.threshold \in Nat
  BY DEF Attestation
<1>2. CASE GroupCertifies(a, att)
  <2>1. GroupCertifies(b, att)
    BY <1>2 DEF GroupCertifies, GroupVerified
  <2>2. QED BY <2>1 DEF Quorate
<1>3. CASE Cardinality(MemberKeys(a, att)) >= att.threshold
  <2>1. MemberKeys(a, att) \subseteq MemberKeys(b, att)
    BY DEF MemberKeys, Resolves
  <2>2. MemberKeys(b, att) \subseteq Key
    BY DEF MemberKeys, Signers, Attestation
  <2>3. IsFiniteSet(MemberKeys(b, att))
    BY <2>2, KeyAssumption, FS_Subset
  <2>4. /\ IsFiniteSet(MemberKeys(a, att))
        /\ Cardinality(MemberKeys(a, att)) <= Cardinality(MemberKeys(b, att))
    BY <2>1, <2>3, FS_Subset
  <2>5. /\ Cardinality(MemberKeys(a, att)) \in Nat
        /\ Cardinality(MemberKeys(b, att)) \in Nat
    BY <2>3, <2>4, FS_CardinalityType
  <2>6. Cardinality(MemberKeys(b, att)) >= att.threshold
    BY <1>1, <1>3, <2>4, <2>5
  <2>7. QED BY <2>6 DEF Quorate
<1>4. QED BY <1>2, <1>3 DEF Quorate

-----------------------------------------------------------------------------
\* What the ledger rests on: an attestation, and a key of the graph behind it.
Rests(s, r) ==
  r.retroactive =>
    /\ r.quorum # Absent
    /\ r.quorum.threshold # 0 => \E k \in Signers(r.quorum) : Resolves(s.nodes, k)

LedgerRests(s) == \A i \in DOMAIN s.ledger : Rests(s, s.ledger[i])

\* apply_op keeps it so: it judges a declaration again, replayed or not, and
\* never takes a key out of the graph.
LEMMA EffectRests ==
  ASSUME NEW s \in Store, NEW op \in Op, LedgerRests(s), Applies(s, op)
  PROVE  LedgerRests(Effect(s, op))
<1> DEFINE t == Effect(s, op)
<1>1. /\ s.nodes \in [NodeId -> Node] /\ s.ledger \in Seq(Revocation)
      /\ t.nodes \in [NodeId -> Node]
      /\ \A n \in NodeId : s.nodes[n].keys \subseteq t.nodes[n].keys
      /\ op.type = "declare-revocation" =>
           t.ledger = Append(s.ledger, op.revocation) /\ t.nodes = s.nodes
      /\ op.type # "declare-revocation" => t.ledger = s.ledger
  <2>1. s.nodes \in [NodeId -> Node] /\ s.ledger \in Seq(Revocation)
    BY DEF Store
  <2>2. op.type = "declare-revocation" => t.nodes = s.nodes
    BY DEF Effect, PutRevocation, Store
  <2>3. QED BY <2>1, <2>2, EffectOnNodes
<1>2. ASSUME NEW r, Rests(s, r)
      PROVE  Rests(t, r)
  BY <1>1, <1>2 DEF Rests, Resolves
<1>3. CASE op.type = "declare-revocation"
  <2>1. op.revocation \in Revocation
    BY <1>3 DEF Op
  <2>2. RevocationSound(s, op.revocation)
    BY <1>3 DEF Applies
  <2>3. Rests(s, op.revocation)
    <3>1. SUFFICES ASSUME op.revocation.retroactive
                   PROVE  Rests(s, op.revocation)
      BY DEF Rests
    <3>2. /\ op.revocation.quorum \in Attestation
          /\ op.revocation.quorum # Absent
          /\ Quorate(s.nodes, op.revocation.quorum)
      BY <2>1, <2>2, <3>1 DEF RevocationSound, Revocation
    <3>3. QED BY <1>1, <3>2, QuorateIsSigned DEF Rests
  <2>4. ASSUME NEW i \in DOMAIN t.ledger
        PROVE  Rests(s, t.ledger[i])
    <3>1. t.ledger = Append(s.ledger, op.revocation)
      BY <1>1, <1>3
    <3>2. CASE i \in DOMAIN s.ledger
      BY <1>1, <3>1, <3>2 DEF LedgerRests
    <3>3. CASE i = Len(s.ledger) + 1
      BY <1>1, <2>3, <3>1, <3>3
    <3>4. QED BY <1>1, <2>4, <3>1, <3>2, <3>3
  <2>5. QED BY <1>2, <2>4 DEF LedgerRests
<1>4. CASE op.type # "declare-revocation"
  BY <1>1, <1>2, <1>4 DEF LedgerRests
<1>5. QED BY <1>3, <1>4

\* Replaying a line leaves retroactive revocations resting on keys.
LEMMA ReplayedRests ==
  ASSUME NEW s \in Store, NEW line \in Line, LedgerRests(s)
  PROVE  LedgerRests(Replayed(s, line))
<1>1. CASE line.kind = "record"
  <2> DEFINE op == line.rec.op
             t  == ApplyOp(s, op)
             u  == [t EXCEPT !.log = Append(@, line.rec)]
  <2>1. op \in Op
    BY <1>1 DEF Line, AuditRecord
  <2>2. LedgerRests(t) /\ t \in Store
    BY <2>1, EffectRests, EffectType DEF ApplyOp
  <2>3. u.nodes = t.nodes /\ u.ledger = t.ledger
    BY <2>2 DEF Store
  <2> HIDE DEF t, u
  <2>4. LedgerRests(u)
    BY <2>2, <2>3 DEF LedgerRests, Rests
  <2>5. QED BY <1>1, <2>4 DEF Replayed, Absorb, t, u
<1>2. CASE line.kind # "record"
  BY <1>2 DEF Replayed
<1>3. QED BY <1>1, <1>2

\* So does every step, whatever the journal has lost.
LEMMA LedgerRestsAlways == Spec => [](StoreInv /\ LedgerRests(store))
<1>1. Init => LedgerRests(store)
  BY DEF Init, EmptyStore, LedgerRests
<1>2. StoreInv /\ LedgerRests(store) /\ [Next]_vars => LedgerRests(store)'
  <2> SUFFICES ASSUME StoreInv, LedgerRests(store), [Next]_vars
               PROVE  LedgerRests(store')
    BY DEF LedgerRests, Rests, Resolves
  <2>1. store \in Store
    BY DEF StoreInv, TypeOK
  <2>2. LedgerRests(EmptyStore)
    BY DEF EmptyStore, LedgerRests
  <2>3. \A line \in Line : LedgerRests(Replayed(store, line))
    BY <2>1, ReplayedRests
  <2>4. QED BY <2>2, <2>3, StoreSteps
<1>3. QED BY <1>1, <1>2, StoreInvariant, PTL DEF Spec

\* Pinning is load-bearing, for all requests, seeds and faults: no retroactive
\* revocation is ever in the ledger without a signing key that the graph has,
\* also after a restart on a journal that lost the key's record.
THEOREM KeysArePinned == Spec => []PinnedFirst
<1>1. LedgerRests(store) => PinnedFirst
  BY DEF LedgerRests, Rests, PinnedFirst
<1>2. QED BY <1>1, LedgerRestsAlways, PTL

-----------------------------------------------------------------------------
\* A step that appends a record to the log absorbs it.
LEMMA AppendsAbsorb ==
  ASSUME StoreInv, [Next]_vars, Appends
  PROVE  \E rec \in AuditRecord : store' = Absorb(store, rec) /\ NewOp = rec.op
<1>1. store \in Store /\ store.log \in Seq(AuditRecord)
  BY DEF StoreInv, TypeOK, Store
<1>2. Len(store'.log) = Len(store.log) + 1 /\ Len(store.log) \in Nat
  BY <1>1 DEF Appends
<1>3. store' # store
  BY <1>2
<1>4. store' # EmptyStore
  BY <1>2 DEF EmptyStore
<1>5. PICK line \in Line : store' = Replayed(store, line)
  BY <1>3, <1>4, StoreSteps
<1>6. line.kind = "record"
  BY <1>3, <1>5 DEF Replayed
<1>7. line.rec \in AuditRecord /\ line.rec.op \in Op
  BY <1>6 DEF Line, AuditRecord
<1>8. store' = Absorb(store, line.rec)
  BY <1>5, <1>6 DEF Replayed
<1>9. store'.log = Append(store.log, line.rec)
  <2> DEFINE t == ApplyOp(store, line.rec.op)
  <2>1. t \in Store /\ t.log = store.log
    BY <1>1, <1>7, EffectType, EffectOnNodes DEF ApplyOp
  <2> HIDE DEF t
  <2>2. [t EXCEPT !.log = Append(@, line.rec)].log = Append(store.log, line.rec)
    BY <2>1 DEF Store
  <2>3. QED BY <1>8, <2>2 DEF Absorb, t
<1>10. NewOp = line.rec.op
  BY <1>1, <1>9 DEF NewOp
<1>11. QED BY <1>7, <1>8, <1>10

\* The live verdict of a retroactive revocation is undone by nothing but a
\* registration of its own quorum node, for all requests and attestations.
THEOREM VerdictsAreStable == Spec => VerdictStable
<1> DEFINE Stays ==
      Appends =>
        \A i \in DOMAIN store.ledger :
          LET r == store.ledger[i] IN
          /\ r.retroactive
          /\ Quorate(store.nodes, r.quorum)
          /\ ~Quorate(store'.nodes, r.quorum)
          => NewOp.type = "register-node" /\ NewOp.id = r.quorum.node
<1>1. StoreInv /\ LedgerRests(store) /\ [Next]_vars => Stays
  <2> SUFFICES ASSUME StoreInv, LedgerRests(store), [Next]_vars, Appends,
                      NEW i \in DOMAIN store.ledger,
                      store.ledger[i].retroactive,
                      Quorate(store.nodes, store.ledger[i].quorum),
                      ~(NewOp.type = "register-node"
                          /\ NewOp.id = store.ledger[i].quorum.node)
               PROVE  Quorate(store'.nodes, store.ledger[i].quorum)
    BY Zenon
  <2> DEFINE att == store.ledger[i].quorum
  <2>1. store \in Store /\ store.nodes \in [NodeId -> Node]
    BY DEF StoreInv, TypeOK, Store
  <2>2. att \in Attestation
    <3>1. store.ledger \in Seq(Revocation)
      BY <2>1 DEF Store
    <3>2. store.ledger[i] \in Revocation
      BY <3>1
    <3>3. Rests(store, store.ledger[i])
      BY DEF LedgerRests
    <3>4. QED BY <3>2, <3>3 DEF Revocation, Rests
  <2>3. PICK rec \in AuditRecord : store' = Absorb(store, rec) /\ NewOp = rec.op
    BY AppendsAbsorb
  <2> DEFINE t == ApplyOp(store, rec.op)
  <2>4. rec.op \in Op
    BY DEF AuditRecord
  <2>5. /\ t \in Store /\ t.nodes \in [NodeId -> Node]
        /\ \A n \in NodeId : store.nodes[n].keys \subseteq t.nodes[n].keys
        /\ t.nodes[att.node] = store.nodes[att.node]
    <3>1. att.node \in NodeId
      BY <2>2 DEF Attestation
    <3>2. CASE Applies(store, rec.op)
      <4>1. t = Effect(store, rec.op)
        BY <3>2 DEF ApplyOp
      <4>2. QED BY <2>1, <2>3, <2>4, <3>1, <4>1, EffectOnNodes, EffectType
    <3>3. CASE ~Applies(store, rec.op)
      BY <2>1, <3>3 DEF ApplyOp
    <3>4. QED BY <3>2, <3>3
  <2>6. store'.nodes = t.nodes
    BY <2>3, <2>5 DEF Absorb, Store
  <2>7. Quorate(t.nodes, att)
    <3> HIDE DEF t, att
    <3>1. Quorate(store.nodes, att)
      BY DEF att
    <3>2. QED BY <2>1, <2>2, <2>5, <3>1, QuorateGrows
  <2>8. QED BY <2>6, <2>7
<1>2. QED BY <1>1, LedgerRestsAlways, PTL DEF Spec, VerdictStable
=============================================================================
