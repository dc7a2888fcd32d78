-------------------------- MODULE TrustStoreProofs --------------------------
(***************************************************************************)
(* Theorems about TrustStore, for every value of its constants: any        *)
(* requests, seeds, unreadable ops, kinds of tear and bounds.              *)
(***************************************************************************)
EXTENDS TrustStore, TLAPS

-----------------------------------------------------------------------------
(* The operators of TrustState keep the Store well typed.                  *)

\* Store::open starts from a well-typed store.
LEMMA EmptyStoreType == EmptyStore \in Store
  BY DEF EmptyStore, Store, Node, TrustList

\* Each arm of apply_op returns a store when it is given one.
LEMMA EffectType ==
  ASSUME NEW s \in Store, NEW op \in Op
  PROVE  Effect(s, op) \in Store
<1>1. CASE op.type = "register-node"
  <2>1. op.id \in NodeId /\ op.kind \in Kind /\ op.keys \in SUBSET Key
    BY <1>1 DEF Op
  <2>2. s.nodes \in [NodeId -> Node]
    BY DEF Store
  <2>3. [kind |-> op.kind, keys |-> s.nodes[op.id].keys \cup op.keys] \in Node
    BY <2>1, <2>2 DEF Node
  <2>4. PutNode(s, op) \in Store
    BY <2>1, <2>2, <2>3 DEF PutNode, Store
  <2>5. QED BY <1>1, <2>4 DEF Effect
<1>2. CASE op.type = "add-edge"
  <2>1. op.edge \in Credential
    BY <1>2 DEF Op
  <2>2. Append(s.edges, op.edge) \in Seq(Credential)
    BY <2>1 DEF Store
  <2>3. PutEdge(s, op) \in Store
    BY <2>2 DEF PutEdge, Store
  <2>4. QED BY <1>2, <2>3 DEF Effect
<1>3. CASE op.type = "register-trust-list"
  <2>1. Upper[op.name] \in Jurisdiction /\ op.framework \in Framework
    BY <1>3, UpperAssumption DEF Op
  <2> DEFINE j == Upper[op.name]
  <2>2. s.lists[j] \in TrustList
    BY <2>1 DEF Store
  <2> DEFINE fresh == [framework |-> op.framework,
                       entries |-> [n \in NodeId |-> Absent]]
  <2>3. fresh \in TrustList
    BY <2>1 DEF TrustList
  <2>4. [s.lists EXCEPT ![j] = fresh] \in [Jurisdiction -> TrustList]
    BY <2>1, <2>3 DEF Store
  <2>5. PutList(s, op) \in Store
    BY <2>4 DEF PutList, Store
  <2>6. QED BY <1>3, <2>5 DEF Effect
<1>4. CASE op.type = "upsert-trust-entry"
  <2>1. /\ Upper[op.name] \in Jurisdiction
        /\ op.node \in NodeId /\ op.dates \in Dates
    BY <1>4, UpperAssumption DEF Op
  <2> DEFINE j == Upper[op.name]
  <2>2. s.lists[j] \in TrustList
    BY <2>1 DEF Store
  <2>3. [s.lists[j] EXCEPT !.entries[op.node] = op.dates] \in TrustList
    BY <2>1, <2>2 DEF TrustList
  <2>4. [s.lists EXCEPT ![j].entries[op.node] = op.dates]
          \in [Jurisdiction -> TrustList]
    BY <2>3 DEF Store
  <2>5. PutEntry(s, op) \in Store
    BY <2>4 DEF PutEntry, Store
  <2>6. QED BY <1>4, <2>5 DEF Effect
<1>5. CASE op.type = "set-witnesses"
  <2>1. op.m \in Nat /\ op.witnesses \in Seq(NodeId \X Key)
    BY <1>5 DEF Op
  <2>2. ASSUME NEW n \in NodeId
        PROVE  LastKeyOf(op.witnesses, n) \in SUBSET Key
    BY DEF LastKeyOf
  <2>3. PutWitnesses(s, op) \in Store
    BY <2>1, <2>2 DEF PutWitnesses, Store
  <2>4. QED BY <1>5, <2>3 DEF Effect
<1>6. CASE op.type = "upsert-master-entry"
  <2>1. op.node \in NodeId /\ op.attestations \in SUBSET Witnessing
    BY <1>6 DEF Op
  <2>2. PutRoot(s, op) \in Store
    BY <2>1 DEF PutRoot, Store
  <2>3. QED BY <1>6, <2>2 DEF Effect
<1>7. CASE op.type = "declare-revocation"
  <2>1. op.revocation \in Revocation
    BY <1>7 DEF Op
  <2>2. Append(s.ledger, op.revocation) \in Seq(Revocation)
    BY <2>1 DEF Store
  <2>3. PutRevocation(s, op) \in Store
    BY <2>2 DEF PutRevocation, Store
  <2>4. QED BY <1>7, <2>3 DEF Effect
<1>8. CASE op.type = "register-evidence"
  <2>1. op.id \in EvidenceId /\ op.scope \in Scope
    BY <1>8 DEF Op
  <2>2. PutEvidence(s, op) \in Store
    BY <2>1 DEF PutEvidence, Store
  <2>3. QED BY <1>8, <2>2 DEF Effect
<1>9. CASE op.type = "evidence-released"
  BY <1>9 DEF Effect
<1>10. QED
  BY <1>1, <1>2, <1>3, <1>4, <1>5, <1>6, <1>7, <1>8, <1>9 DEF Op

\* apply_op keeps a store a store, whether the op applies or not.
LEMMA AbsorbType ==
  ASSUME NEW s \in Store, NEW rec \in AuditRecord
  PROVE  Absorb(s, rec) \in Store
<1> DEFINE t == ApplyOp(s, rec.op)
<1>1. rec.op \in Op
  BY DEF AuditRecord
<1>2. t \in Store
  BY <1>1, EffectType DEF ApplyOp
<1>3. Append(t.log, rec) \in Seq(AuditRecord)
  BY <1>2 DEF Store
<1>4. [t EXCEPT !.log = Append(@, rec)] \in Store
  BY <1>2, <1>3 DEF Store
<1> QED BY <1>4 DEF Absorb

\* One replayed line keeps a store a store.
LEMMA ReplayedType ==
  ASSUME NEW s \in Store, NEW line \in Line
  PROVE  Replayed(s, line) \in Store
BY AbsorbType DEF Replayed, Line

\* Every text a write can leave is a line.
LEMMA TextType ==
  ASSUME NEW rec \in AuditRecord
  PROVE  /\ Text(rec) \in Line
         /\ \A t \in Tears : Piece(t, rec) \in Line
BY BoundsAssumption DEF Text, Piece, Unparsed, Line

\* Text after text on one line is a line, and no record.
LEMMA GluedType ==
  ASSUME NEW a, NEW b
  PROVE  Glued(a, b) \in Line /\ Glued(a, b).kind # "record"
BY DEF Glued, Unparsed, Line

-----------------------------------------------------------------------------
(* Edges are anchored.                                                     *)

Anchored(s) == \A i \in DOMAIN s.edges : EdgeAccepted(s, s.edges[i])

\* Nodes stay registered and keep their keys, so edges stay anchored.
LEMMA GrownNodesAnchor ==
  ASSUME NEW s \in Store, NEW t, Anchored(s), t.edges = s.edges,
         \A n \in NodeId : /\ Registered(s, n) => Registered(t, n)
                           /\ s.nodes[n].keys \subseteq t.nodes[n].keys
  PROVE  Anchored(t)
<1>1. ASSUME NEW i \in DOMAIN t.edges
      PROVE  EdgeAccepted(t, t.edges[i])
  <2>1. i \in DOMAIN s.edges /\ s.edges[i] \in Credential
    BY <1>1 DEF Store
  <2>2. s.edges[i].parent \in NodeId /\ s.edges[i].child \in NodeId
    BY <2>1 DEF Credential
  <2>3. EdgeAccepted(s, s.edges[i])
    BY <2>1 DEF Anchored
  <2>4. QED BY <2>2, <2>3 DEF EdgeAccepted
<1>2. QED BY <1>1 DEF Anchored

\* apply_op leaves the edges anchored, also when it replays a record whose
\* predecessors are missing: registering a node merges keys and never takes
\* the node away, and an edge is checked again before it is added.
LEMMA EffectAnchored ==
  ASSUME NEW s \in Store, NEW op \in Op, Anchored(s), Applies(s, op)
  PROVE  Anchored(Effect(s, op))
<1> DEFINE t == Effect(s, op)
<1>1. CASE op.type = "register-node"
  <2>1. op.id \in NodeId /\ op.kind \in Kind /\ op.keys \in SUBSET Key
    BY <1>1 DEF Op
  <2>2. s.nodes \in [NodeId -> Node]
    BY DEF Store
  <2>3. t = [s EXCEPT !.nodes[op.id] =
               [kind |-> op.kind, keys |-> s.nodes[op.id].keys \cup op.keys]]
    BY <1>1 DEF Effect, PutNode
  <2>4. t.edges = s.edges
    BY <2>3 DEF Store
  <2>5. t.nodes = [s.nodes EXCEPT ![op.id] =
               [kind |-> op.kind, keys |-> s.nodes[op.id].keys \cup op.keys]]
    BY <2>3 DEF Store
  <2>6. op.kind # Absent
    BY <2>1, AbsentAssumption
  <2>7. ASSUME NEW n \in NodeId
        PROVE  /\ Registered(s, n) => Registered(t, n)
               /\ s.nodes[n].keys \subseteq t.nodes[n].keys
    BY <2>1, <2>2, <2>5, <2>6 DEF Registered
  <2>8. QED BY <2>4, <2>7, GrownNodesAnchor
<1>2. CASE op.type = "add-edge"
  <2>1. t = [s EXCEPT !.edges = Append(s.edges, op.edge)]
    BY <1>2 DEF Effect, PutEdge
  <2>2. /\ t.nodes = s.nodes /\ t.edges = Append(s.edges, op.edge)
        /\ s.edges \in Seq(Credential)
    BY <2>1 DEF Store
  <2>3. EdgeAccepted(s, op.edge)
    BY <1>2 DEF Applies
  <2>4. ASSUME NEW i \in DOMAIN t.edges
        PROVE  EdgeAccepted(s, t.edges[i])
    <3>1. CASE i \in DOMAIN s.edges
      BY <3>1, <2>2 DEF Anchored
    <3>2. CASE i = Len(s.edges) + 1
      BY <3>2, <2>2, <2>3
    <3>3. QED BY <2>2, <2>4, <3>1, <3>2
  <2>5. QED BY <2>2, <2>4 DEF Anchored, EdgeAccepted, Registered
<1>3. CASE op.type \notin {"register-node", "add-edge"}
  <2>1. t.nodes = s.nodes /\ t.edges = s.edges
    BY <1>3 DEF Op, Effect, Store, PutList, PutEntry, PutWitnesses, PutRoot,
                PutRevocation, PutEvidence
  <2>2. QED BY <2>1, GrownNodesAnchor DEF Registered
<1>4. QED BY <1>1, <1>2, <1>3

\* Replaying a line keeps edges anchored.
LEMMA ReplayedAnchored ==
  ASSUME NEW s \in Store, NEW line \in Line, Anchored(s)
  PROVE  Anchored(Replayed(s, line))
<1>1. CASE line.kind = "record"
  <2> DEFINE op == line.rec.op
             t  == ApplyOp(s, op)
  <2>1. op \in Op
    BY <1>1 DEF Line, AuditRecord
  <2>2. Anchored(t) /\ t \in Store
    BY <2>1, EffectAnchored, EffectType DEF ApplyOp
  <2> DEFINE u == [t EXCEPT !.log = Append(@, line.rec)]
  <2>3. u.nodes = t.nodes /\ u.edges = t.edges
    BY <2>2 DEF Store
  <2>4. \A n \in NodeId : /\ Registered(t, n) => Registered(u, n)
                           /\ t.nodes[n].keys \subseteq u.nodes[n].keys
    BY <2>3 DEF Registered
  <2> HIDE DEF t, u
  <2>5. Anchored(u)
    BY <2>2, <2>3, <2>4, GrownNodesAnchor
  <2>6. QED BY <1>1, <2>5 DEF Replayed, Absorb, t, u
<1>2. CASE line.kind # "record"
  BY <1>2 DEF Replayed
<1>3. QED BY <1>1, <1>2

-----------------------------------------------------------------------------
(* The inductive invariant.                                                *)

\* Writing a line, terminated or not, on a line of its own or glued to the
\* last one, leaves hist the replay of the file.
LEMMA PutKeepsHist ==
  ASSUME TypeOK, HistIsReplay, OpenOnLine,
         NEW line \in Line, NEW terminated \in BOOLEAN,
         Put(line, terminated)
  PROVE  /\ journal' \in Seq(Line) /\ hist' \in Seq(Store)
         /\ open' \in BOOLEAN
         /\ HistIsReplay' /\ OpenOnLine'
         /\ ~open => hist'[Len(hist')] = Replayed(hist[Len(hist)], line)
<1> DEFINE n == Len(journal)
<1>1. /\ journal \in Seq(Line) /\ hist \in Seq(Store)
      /\ n \in Nat /\ Len(hist) = n + 1
  BY DEF TypeOK, HistIsReplay
<1>2. open' = ~terminated
  BY DEF Put
<1>3. CASE open
  <2>1. n \in Nat \ {0}
    BY <1>1, <1>3 DEF OpenOnLine
  <2>2. /\ journal' = [journal EXCEPT ![n] = Glued(journal[n], line)]
        /\ hist' = [hist EXCEPT ![n + 1] = hist[n]]
    BY <1>3 DEF Put
  <2>3. Glued(journal[n], line) \in Line
        /\ Glued(journal[n], line).kind # "record"
    BY GluedType
  <2>4. hist[n] \in Store
    BY <1>1, <2>1
  <2>5. journal' \in Seq(Line) /\ Len(journal') = n
    BY <1>1, <2>1, <2>2, <2>3
  <2>6. hist' \in Seq(Store) /\ Len(hist') = n + 1
    BY <1>1, <2>1, <2>2, <2>4
  <2>7. hist'[1] = EmptyStore
    BY <1>1, <2>1, <2>2 DEF HistIsReplay
  <2>8. ASSUME NEW i \in 1..n
        PROVE  hist'[i + 1] = Replayed(hist'[i], journal'[i])
    <3>1. CASE i < n
      BY <3>1, <1>1, <2>1, <2>2 DEF HistIsReplay
    <3>2. CASE i = n
      <4>1. hist'[n + 1] = hist[n] /\ hist'[n] = hist[n]
        BY <1>1, <2>1, <2>2
      <4>2. journal'[n].kind # "record"
        BY <1>1, <2>1, <2>2, <2>3
      <4>3. QED BY <3>2, <4>1, <4>2 DEF Replayed
    <3>3. QED BY <3>1, <3>2, <1>1
  <2>9. HistIsReplay'
    BY <2>5, <2>6, <2>7, <2>8 DEF HistIsReplay
  <2>10. OpenOnLine'
    BY <2>1, <2>5 DEF OpenOnLine
  <2>11. QED BY <1>2, <1>3, <2>5, <2>6, <2>9, <2>10
<1>4. CASE ~open
  <2>1. /\ journal' = Append(journal, line)
        /\ hist' = Append(hist, Replayed(hist[n + 1], line))
    BY <1>4 DEF Put
  <2>2. hist[n + 1] \in Store /\ Replayed(hist[n + 1], line) \in Store
    BY <1>1, ReplayedType
  <2>3. /\ journal' \in Seq(Line) /\ Len(journal') = n + 1
        /\ hist' \in Seq(Store) /\ Len(hist') = n + 2
    BY <1>1, <2>1, <2>2
  <2>4. /\ \A i \in 1..n : journal'[i] = journal[i]
        /\ \A i \in 1..(n + 1) : hist'[i] = hist[i]
        /\ journal'[n + 1] = line
        /\ hist'[n + 2] = Replayed(hist[n + 1], line)
    BY <1>1, <2>1, <2>2
  <2>5. ASSUME NEW i \in 1..(n + 1)
        PROVE  hist'[i + 1] = Replayed(hist'[i], journal'[i])
    <3>1. CASE i \in 1..n
      BY <3>1, <1>1, <2>4 DEF HistIsReplay
    <3>2. CASE i = n + 1
      BY <3>2, <1>1, <2>4
    <3>3. QED BY <3>1, <3>2, <1>1
  <2>6. HistIsReplay'
    BY <1>1, <2>3, <2>4, <2>5 DEF HistIsReplay
  <2>7. OpenOnLine'
    BY <1>1, <2>3 DEF OpenOnLine
  <2>8. QED BY <1>1, <1>2, <2>3, <2>4, <2>6, <2>7
<1>5. QED BY <1>3, <1>4

\* The record that Record(op, ..) makes.
NewRec(op) == [id |-> issued + 1, seq |-> NextSeq(store), op |-> op]

\* The record that is made next is one.
LEMMA NewRecType ==
  ASSUME TypeOK, NEW op \in Op
  PROVE  NewRec(op) \in AuditRecord
<1>1. issued + 1 \in Nat /\ NextSeq(store) \in Nat
  BY DEF TypeOK, Store, NextSeq
<1>2. QED BY <1>1 DEF NewRec, AuditRecord

\* After a death the invariant holds of whatever is on the disk.
LEMMA DeadKeepsInv ==
  ASSUME StoreInv, Dead,
         journal' \in Seq(Line), hist' \in Seq(Store), open' \in BOOLEAN,
         HistIsReplay', OpenOnLine',
         issued' \in Nat, torn' \in Nat, failed' \in Nat
  PROVE  StoreInv'
<1>1. TypeOK'
  <2>1. todo' \in Seq(Op \cup {Malformed})
    BY DEF Dead
  <2>2. pos' \in Nat \ {0} /\ started' \in Nat /\ acked' \subseteq AuditRecord
    BY DEF Dead, StoreInv, TypeOK
  <2>3. mode' = "down" /\ store' \in Store /\ tainted' \in BOOLEAN
    BY EmptyStoreType DEF Dead
  <2>4. QED BY <2>1, <2>2, <2>3 DEF TypeOK
<1>2. SeedingOps' /\ ReplayAlongHist' /\ RestartExact'
  BY DEF Dead, SeedingOps, ReplayAlongHist, RestartExact
<1>3. QED BY <1>1, <1>2 DEF StoreInv

\* Surviving a write keeps the invariant, provided the write either tainted
\* the process or put into the file what went into memory.
LEMMA SurviveKeepsInv ==
  ASSUME StoreInv, mode \in {"seeding", "serving"},
         NEW op \in Op, NEW rest \in Seq(Op \cup {Malformed}),
         mode = "seeding" => rest \in Seq(Op),
         Survive(NewRec(op), rest),
         issued' = issued + 1, torn' \in Nat, failed' \in Nat,
         journal' \in Seq(Line), hist' \in Seq(Store), open' \in BOOLEAN,
         HistIsReplay', OpenOnLine', tainted' \in BOOLEAN,
         ~tainted' => ~tainted /\ hist'[Len(hist')] = Absorb(store, NewRec(op))
  PROVE  StoreInv'
<1> DEFINE rec == NewRec(op)
           first == IF todo = << >> THEN rec.id ELSE started
<1>1. /\ rec \in AuditRecord /\ rec.id = issued + 1
      /\ issued \in Nat /\ started \in Nat /\ acked \subseteq AuditRecord
  BY NewRecType DEF StoreInv, TypeOK, NewRec
<1>2. store' = Absorb(store, rec) /\ store' \in Store
  BY <1>1, AbsorbType DEF Survive, StoreInv, TypeOK
<1>3. todo' = rest /\ pos' = pos
  BY DEF Survive
<1>4. started' \in Nat /\ acked' \subseteq AuditRecord
  <2>1. first \in Nat /\ MadeSince(store'.log, first) \subseteq AuditRecord
    BY <1>1, <1>2 DEF MadeSince, Store
  <2>2. CASE rest = << >>
    <3>1. started' = 0
      BY <2>2 DEF Survive
    <3>2. acked' = IF mode = "serving"
                   THEN acked \cup MadeSince(store'.log, first)
                   ELSE acked
      BY <2>2 DEF Survive
    <3>3. QED BY <1>1, <2>1, <3>1, <3>2
  <2>3. CASE rest # << >>
    BY <1>1, <2>1, <2>3 DEF Survive
  <2>4. QED BY <2>2, <2>3
<1>5. /\ mode' \in {"seeding", "serving"}
      /\ mode' = "seeding" => mode = "seeding"
  BY DEF Survive
<1>6. TypeOK'
  BY <1>1, <1>2, <1>3, <1>4, <1>5 DEF StoreInv, TypeOK
<1>7. SeedingOps' /\ ReplayAlongHist'
  BY <1>3, <1>5 DEF SeedingOps, ReplayAlongHist
<1>8. RestartExact'
  BY <1>2 DEF RestartExact
<1>9. QED BY <1>6, <1>7, <1>8 DEF StoreInv

\* Store::record keeps the invariant, whatever becomes of its write.
LEMMA RecordKeepsInv ==
  ASSUME StoreInv, mode \in {"seeding", "serving"},
         NEW op \in Op, NEW rest \in Seq(Op \cup {Malformed}),
         mode = "seeding" => rest \in Seq(Op),
         Record(op, rest)
  PROVE  StoreInv'
<1> DEFINE rec == NewRec(op)
<1>1. rec \in AuditRecord /\ rec.op = op
  BY NewRecType DEF StoreInv, NewRec
<1>2. TypeOK /\ HistIsReplay /\ OpenOnLine
  BY DEF StoreInv
<1>3. /\ issued' = issued + 1 /\ issued' \in Nat
      /\ torn \in Nat /\ failed \in Nat /\ tainted \in BOOLEAN
  BY <1>2 DEF Record, TypeOK
<1>4. Text(rec) \in Line /\ \A t \in Tears : Piece(t, rec) \in Line
  BY <1>1, TextType
<1>5. CASE WriteWhole(rec) /\ Survive(rec, rest)
  <2>1. Put(Text(rec), TRUE) /\ torn' = torn /\ failed' = failed
    BY <1>5 DEF WriteWhole
  <2>2. tainted' = (tainted \/ open \/ rec.op \in Unreadable)
    BY <1>5 DEF WriteWhole
  <2>3. /\ journal' \in Seq(Line) /\ hist' \in Seq(Store) /\ open' \in BOOLEAN
        /\ HistIsReplay' /\ OpenOnLine'
        /\ ~open => hist'[Len(hist')] = Replayed(hist[Len(hist)], Text(rec))
    BY <1>2, <1>4, <2>1, PutKeepsHist
  <2>4. ASSUME ~tainted'
        PROVE  ~tainted /\ hist'[Len(hist')] = Absorb(store, rec)
    <3>1. ~tainted /\ ~open /\ rec.op \notin Unreadable
      BY <2>2, <2>4
    <3>2. store = hist[Len(hist)]
      BY <3>1 DEF StoreInv, RestartExact
    <3>3. Replayed(store, Text(rec)) = Absorb(store, rec)
      BY <3>1 DEF Replayed, Text
    <3>4. QED BY <2>3, <3>1, <3>2, <3>3
  <2>5. tainted' \in BOOLEAN
    BY <2>2
  <2>6. QED BY <1>3, <1>5, <2>1, <2>3, <2>4, <2>5, SurviveKeepsInv
<1>6. CASE WriteFails(rec) /\ Survive(rec, rest)
  <2>1. torn' = torn /\ failed' = failed + 1 /\ tainted' = TRUE
    BY <1>6 DEF WriteFails
  <2>2. /\ journal' \in Seq(Line) /\ hist' \in Seq(Store) /\ open' \in BOOLEAN
        /\ HistIsReplay' /\ OpenOnLine'
    <3>1. CASE UNCHANGED disk
      BY <1>2, <3>1 DEF disk, TypeOK, HistIsReplay, OpenOnLine
    <3>2. CASE \E t \in Tears : Put(Piece(t, rec), FALSE)
      BY <1>2, <1>4, <3>2, PutKeepsHist
    <3>3. QED BY <1>6, <3>1, <3>2 DEF WriteFails
  <2>3. QED BY <1>3, <1>6, <2>1, <2>2, SurviveKeepsInv
<1>7. CASE WriteTorn(rec) /\ Dead
  <2>1. torn' = torn + 1 /\ failed' = failed
    BY <1>7 DEF WriteTorn
  <2>2. PICK t \in Tears : Put(Piece(t, rec), FALSE)
    BY <1>7 DEF WriteTorn
  <2>3. /\ journal' \in Seq(Line) /\ hist' \in Seq(Store) /\ open' \in BOOLEAN
        /\ HistIsReplay' /\ OpenOnLine'
    BY <1>2, <1>4, <2>2, PutKeepsHist
  <2>4. QED BY <1>3, <1>7, <2>1, <2>3, DeadKeepsInv
<1>8. CASE Put(Text(rec), TRUE) /\ Dead /\ UNCHANGED <<torn, failed>>
  <2>1. /\ journal' \in Seq(Line) /\ hist' \in Seq(Store) /\ open' \in BOOLEAN
        /\ HistIsReplay' /\ OpenOnLine'
    BY <1>2, <1>4, <1>8, PutKeepsHist
  <2>2. QED BY <1>3, <1>8, <2>1, DeadKeepsInv
<1>9. QED BY <1>5, <1>6, <1>7, <1>8 DEF Record, NewRec

\* A store that was never opened has an empty file and an empty memory.
LEMMA InitInv == Init => StoreInv
<1> SUFFICES ASSUME Init PROVE StoreInv
  OBVIOUS
<1>1. /\ journal = << >> /\ Len(journal) = 0 /\ journal \in Seq(Line)
      /\ todo = << >> /\ todo \in Seq(Op \cup {Malformed})
  BY DEF Init
<1>2. /\ hist = <<EmptyStore>> /\ hist \in Seq(Store) /\ Len(hist) = 1
      /\ hist[1] = EmptyStore
  BY EmptyStoreType DEF Init
<1>3. TypeOK
  <2>1. mode = "down" /\ store \in Store /\ open \in BOOLEAN
    BY EmptyStoreType DEF Init
  <2>2. /\ pos = 1 /\ issued = 0 /\ started = 0 /\ torn = 0 /\ failed = 0
        /\ tainted \in BOOLEAN
    BY DEF Init
  <2>3. acked \subseteq AuditRecord
    BY DEF Init
  <2>4. QED BY <1>1, <1>2, <2>1, <2>2, <2>3 DEF TypeOK
<1>4. HistIsReplay /\ OpenOnLine
  BY <1>1, <1>2 DEF Init, HistIsReplay, OpenOnLine
<1>5. SeedingOps /\ ReplayAlongHist /\ RestartExact
  BY DEF Init, SeedingOps, ReplayAlongHist, RestartExact
<1>6. QED BY <1>3, <1>4, <1>5 DEF StoreInv

\* Opening, replaying and the move to seeding or serving keep the invariant.
LEMMA StartupKeepsInv ==
  ASSUME StoreInv, Open \/ ReplayLine \/ ReplayRefused \/ ReplayDone
  PROVE  StoreInv'
<1>1. /\ TypeOK /\ HistIsReplay /\ OpenOnLine
      /\ journal \in Seq(Line) /\ hist \in Seq(Store)
      /\ Len(hist) = Len(journal) + 1 /\ hist[1] = EmptyStore
  BY DEF StoreInv, TypeOK, HistIsReplay
<1>2. /\ UNCHANGED <<journal, open, hist, issued, started, acked, torn,
                     failed, tainted>>
  BY DEF Open, ReplayLine, ReplayRefused, ReplayDone, disk
<1>3. HistIsReplay' /\ OpenOnLine'
  BY <1>1, <1>2 DEF HistIsReplay, OpenOnLine
<1>4. CASE Open \/ ReplayRefused
  <2>1. /\ mode' \in {"replaying", "refused"} /\ pos' = 1
        /\ store' = EmptyStore /\ todo' = todo
    BY <1>4 DEF Open, ReplayRefused
  <2>2. TypeOK'
    BY <1>1, <1>2, <2>1, EmptyStoreType DEF TypeOK
  <2>3. SeedingOps' /\ ReplayAlongHist' /\ RestartExact'
    BY <1>1, <1>2, <2>1 DEF SeedingOps, ReplayAlongHist, RestartExact
  <2>4. QED BY <1>3, <2>2, <2>3 DEF StoreInv
<1>5. CASE ReplayLine
  <2>1. /\ mode = "replaying" /\ mode' = mode /\ todo' = todo
        /\ pos \in 1..Len(journal) /\ pos' = pos + 1
        /\ store' = Replayed(store, journal[pos])
    BY <1>1, <1>5 DEF ReplayLine, TypeOK
  <2>2. store = hist[pos] /\ hist[pos + 1] = Replayed(hist[pos], journal[pos])
    BY <1>1, <2>1 DEF StoreInv, ReplayAlongHist, HistIsReplay
  <2>3. store' = hist[pos + 1] /\ store' \in Store /\ pos + 1 <= Len(hist)
    BY <1>1, <2>1, <2>2
  <2>4. TypeOK'
    BY <1>1, <1>2, <2>1, <2>3 DEF TypeOK
  <2>5. SeedingOps' /\ ReplayAlongHist' /\ RestartExact'
    BY <1>2, <2>1, <2>3 DEF SeedingOps, ReplayAlongHist, RestartExact
  <2>6. QED BY <1>3, <2>4, <2>5 DEF StoreInv
<1>6. CASE ReplayDone
  <2>1. /\ mode = "replaying" /\ pos > Len(journal)
        /\ store' = store /\ pos' = 1
        /\ todo' \in {Seeds, << >>}
        /\ mode' \in {"serving", "seeding"}
    BY <1>6 DEF ReplayDone
  <2>2. store = hist[Len(hist)]
    BY <1>1, <2>1 DEF StoreInv, ReplayAlongHist, TypeOK
  <2>3. Seeds \in Seq(Op) /\ << >> \in Seq(Op)
    BY RequestsAssumption
  <2>4. Seeds \in Seq(Op \cup {Malformed}) /\ << >> \in Seq(Op \cup {Malformed})
    BY <2>3
  <2>5. todo' \in Seq(Op) /\ todo' \in Seq(Op \cup {Malformed})
    BY <2>1, <2>3, <2>4
  <2>6. TypeOK'
    BY <1>1, <1>2, <2>1, <2>5 DEF TypeOK
  <2>7. SeedingOps' /\ ReplayAlongHist' /\ RestartExact'
    BY <1>2, <2>1, <2>2, <2>5 DEF SeedingOps, ReplayAlongHist, RestartExact
  <2>8. QED BY <1>3, <2>6, <2>7 DEF StoreInv
<1>7. QED BY <1>4, <1>5, <1>6

\* The rest of an unfinished list of ops.
LEMMA RestOfTodo ==
  ASSUME NEW S, NEW s \in Seq(S), s # << >>
  PROVE  Head(s) \in S /\ Tail(s) \in Seq(S)
OBVIOUS

\* Every step keeps the invariant.
LEMMA NextKeepsInv == StoreInv /\ [Next]_vars => StoreInv'
<1> SUFFICES ASSUME StoreInv, [Next]_vars PROVE StoreInv'
  OBVIOUS
<1>1. CASE Open \/ ReplayLine \/ ReplayRefused \/ ReplayDone
  BY <1>1, StartupKeepsInv
<1>2. CASE SeedNext
  <2>1. mode = "seeding" /\ todo # << >> /\ todo \in Seq(Op)
    BY <1>2 DEF SeedNext, StoreInv, SeedingOps
  <2>2. Head(todo) \in Op /\ Tail(todo) \in Seq(Op)
    BY <2>1, RestOfTodo
  <2>3. Tail(todo) \in Seq(Op \cup {Malformed})
    BY <2>2
  <2>4. Record(Head(todo), Tail(todo))
    BY <1>2 DEF SeedNext
  <2>5. QED BY <2>1, <2>2, <2>3, <2>4, RecordKeepsInv
<1>3. CASE Crash
  <2>1. /\ Dead /\ UNCHANGED <<journal, open, hist, issued, torn, failed>>
    BY <1>3 DEF Crash, disk
  <2>2. /\ journal' \in Seq(Line) /\ hist' \in Seq(Store) /\ open' \in BOOLEAN
        /\ HistIsReplay' /\ OpenOnLine'
        /\ issued' \in Nat /\ torn' \in Nat /\ failed' \in Nat
    BY <2>1 DEF StoreInv, TypeOK, HistIsReplay, OpenOnLine
  <2>3. QED BY <2>1, <2>2, DeadKeepsInv
<1>4. ASSUME NEW op \in Requests, Serve(op)
      PROVE  StoreInv'
  <2>1. mode = "serving" /\ Record(op, << >>)
    BY <1>4 DEF Serve, RegisterNode, AddEdge, UpsertTrustEntry, SetWitnesses,
                UpsertMasterEntry, DeclareRevocation, RegisterEvidence,
                ReleaseEvidence, Asked
  <2>2. op \in Op /\ << >> \in Seq(Op \cup {Malformed})
    BY RequestsAssumption
  <2>3. QED BY <2>1, <2>2, RecordKeepsInv
<1>5. ASSUME NEW b \in Batches, RegisterTrustList(b)
      PROVE  StoreInv'
  <2>1. mode = "serving" /\ Record(b.list, b.entries)
    BY <1>5 DEF RegisterTrustList, Asked
  <2>2. b.list \in Op /\ b.entries \in Seq(Op \cup {Malformed})
    BY RequestsAssumption
  <2>3. QED BY <2>1, <2>2, RecordKeepsInv
<1>6. CASE ListEntry
  <2>1. /\ mode = "serving" /\ todo # << >> /\ Head(todo) # Malformed
        /\ Record(Head(todo), Tail(todo))
    BY <1>6 DEF ListEntry
  <2>2. todo \in Seq(Op \cup {Malformed})
    BY DEF StoreInv, TypeOK
  <2>3. Head(todo) \in Op /\ Tail(todo) \in Seq(Op \cup {Malformed})
    BY <2>1, <2>2, RestOfTodo
  <2>4. QED BY <2>1, <2>3, RecordKeepsInv
<1>7. CASE ListEntryRejected
  <2>1. /\ UNCHANGED <<mode, store, journal, open, hist, pos, issued, acked,
                       torn, failed, tainted>>
        /\ mode = "serving" /\ todo' = << >> /\ started' = 0
    BY <1>7 DEF ListEntryRejected, disk
  <2>2. todo' \in Seq(Op \cup {Malformed}) /\ started' \in Nat
    BY <2>1
  <2>3. TypeOK'
    BY <2>1, <2>2 DEF StoreInv, TypeOK
  <2>4. /\ HistIsReplay' /\ OpenOnLine' /\ SeedingOps'
        /\ ReplayAlongHist' /\ RestartExact'
    BY <2>1 DEF StoreInv, HistIsReplay, OpenOnLine, SeedingOps,
                ReplayAlongHist, RestartExact
  <2>5. QED BY <2>3, <2>4 DEF StoreInv
<1>8. CASE UNCHANGED vars
  BY <1>8 DEF vars, disk, StoreInv, TypeOK, HistIsReplay, OpenOnLine,
              SeedingOps, ReplayAlongHist, RestartExact
<1>9. QED
  BY <1>1, <1>2, <1>3, <1>4, <1>5, <1>6, <1>7, <1>8 DEF Next, Startup

-----------------------------------------------------------------------------
\* The strengthened invariant holds in every reachable state.
THEOREM StoreInvariant == Spec => []StoreInv
BY InitInv, NextKeepsInv, PTL DEF Spec

\* Every variable keeps its type: in particular memory is a Store and every
\* line of the file a record, garbage, or not text, whatever was torn.
THEOREM TypeCorrect == Spec => []TypeOK
<1>1. StoreInv => TypeOK
  BY DEF StoreInv
<1>2. QED BY <1>1, StoreInvariant, PTL

\* "The journal replays losslessly on start" (store.rs:1), for all requests,
\* seeds, crashes, torn and failed writes: while every write of the running
\* process was whole and on a line of its own, a restart gives its memory back.
THEOREM RestartIsExact == Spec => []RestartExact
<1>1. StoreInv => RestartExact
  BY DEF StoreInv
<1>2. QED BY <1>1, StoreInvariant, PTL

\* Memory changes only by being emptied and by absorbing a record.
LEMMA StoreSteps ==
  ASSUME StoreInv, [Next]_vars
  PROVE  \/ store' \in {store, EmptyStore}
         \/ \E line \in Line : store' = Replayed(store, line)
<1>1. ASSUME NEW op \in Op, NEW rest, Record(op, rest)
      PROVE  \/ store' = EmptyStore
             \/ \E line \in Line : store' = Replayed(store, line)
  <2> DEFINE rec  == NewRec(op)
             line == [kind |-> "record", rec |-> rec]
  <2>1. rec \in AuditRecord
    BY NewRecType DEF StoreInv
  <2>2. line \in Line
    BY <2>1 DEF Line
  <2>3. Survive(rec, rest) \/ Dead
    BY <1>1 DEF Record, NewRec
  <2>4. CASE Survive(rec, rest)
    <3>1. store' = Absorb(store, rec)
      BY <2>4 DEF Survive
    <3>2. store' = Replayed(store, line)
      BY <3>1 DEF Replayed
    <3>3. QED BY <2>2, <3>2
  <2>5. CASE Dead
    BY <2>5 DEF Dead
  <2>6. QED BY <2>3, <2>4, <2>5
<1>2. todo # << >> => Head(todo) \in Op \cup {Malformed}
  BY RestOfTodo DEF StoreInv, TypeOK
<1>3. CASE Open \/ ReplayRefused \/ ReplayDone \/ Crash \/ ListEntryRejected
  BY <1>3 DEF Open, ReplayRefused, ReplayDone, Crash, Dead, ListEntryRejected
<1>4. CASE ReplayLine
  <2>1. /\ store' = Replayed(store, journal[pos])
        /\ pos \in 1..Len(journal) /\ journal \in Seq(Line)
    BY <1>4 DEF ReplayLine, StoreInv, TypeOK
  <2>2. journal[pos] \in Line
    BY <2>1
  <2>3. QED BY <2>1, <2>2
<1>5. CASE SeedNext
  <2>1. todo # << >> /\ todo \in Seq(Op) /\ Record(Head(todo), Tail(todo))
    BY <1>5 DEF SeedNext, StoreInv, SeedingOps
  <2>2. Head(todo) \in Op
    BY <2>1, RestOfTodo
  <2>3. QED BY <1>1, <2>1, <2>2
<1>6. CASE \E op \in Requests : Serve(op)
  <2>1. PICK op \in Requests : Record(op, << >>)
    BY <1>6 DEF Serve, RegisterNode, AddEdge, UpsertTrustEntry, SetWitnesses,
                UpsertMasterEntry, DeclareRevocation, RegisterEvidence,
                ReleaseEvidence
  <2>2. op \in Op
    BY RequestsAssumption
  <2>3. QED BY <1>1, <2>1, <2>2
<1>7. CASE \E b \in Batches : RegisterTrustList(b)
  <2>1. PICK b \in Batches : Record(b.list, b.entries)
    BY <1>7 DEF RegisterTrustList
  <2>2. b.list \in Op
    BY RequestsAssumption
  <2>3. QED BY <1>1, <2>1, <2>2
<1>8. CASE ListEntry
  <2>1. /\ todo # << >> /\ Head(todo) # Malformed
        /\ Record(Head(todo), Tail(todo))
    BY <1>8 DEF ListEntry
  <2>2. QED BY <1>1, <1>2, <2>1
<1>9. CASE UNCHANGED vars
  BY <1>9 DEF vars
<1>10. QED
  BY <1>3, <1>4, <1>5, <1>6, <1>7, <1>8, <1>9 DEF Next, Startup

\* No edge of the graph ever hangs in the air: whatever records a torn, glued
\* or failed write cost, replay checks each edge against the graph it has
\* rebuilt so far, and registering a node again merges its keys.
THEOREM EdgesStayAnchored == Spec => []EdgesAnchored
<1>1. Init => Anchored(store)
  BY DEF Init, EmptyStore, Anchored
<1>2. StoreInv /\ Anchored(store) /\ [Next]_vars => Anchored(store)'
  <2> SUFFICES ASSUME StoreInv, Anchored(store), [Next]_vars
               PROVE  Anchored(store')
    BY DEF Anchored, EdgeAccepted, Registered
  <2>1. store \in Store
    BY DEF StoreInv, TypeOK
  <2>2. Anchored(EmptyStore)
    BY DEF EmptyStore, Anchored
  <2>3. \A line \in Line : Anchored(Replayed(store, line))
    BY <2>1, ReplayedAnchored
  <2>4. QED BY <2>2, <2>3, StoreSteps
<1>3. Anchored(store) => EdgesAnchored
  BY DEF Anchored, EdgesAnchored
<1>4. QED BY <1>1, <1>2, <1>3, StoreInvariant, PTL DEF Spec

=============================================================================
