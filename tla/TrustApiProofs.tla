---------------------------- MODULE TrustApiProofs ----------------------------
(***************************************************************************)
(* What the clients of the HTTP API may rely on, for every value of the    *)
(* constants: the service is still the store of TrustStore, its answers    *)
(* agree with each other, a pinned anchor says which keys it stands for, a *)
(* seeded store holds the fixtures, and, when no write is cut short or     *)
(* fails, what was once read stays.                                        *)
(***************************************************************************)
EXTENDS TrustApi, RefinementProofs

\* A step of the service is a step of the store, or nothing to it.
LEMMA StepIsStoreStep ==
  ASSUME [ANext]_avars
  PROVE  [Next]_vars
<1>1. CASE Boot \/ Process
  BY <1>1 DEF Boot, Process, Next
<1>2. CASE \E op \in Requests : Ask(op)
  BY <1>2 DEF Ask, Next
<1>3. CASE Pin \/ ReadGraph \/ ReadLog \/ UNCHANGED avars
  BY <1>3 DEF Pin, ReadGraph, ReadLog, avars
<1>4. QED BY <1>1, <1>2, <1>3 DEF ANext

\* The service with its keyring and its clients is the store of TrustStore:
\* whatever is proved of Spec holds of the running process behind the API
\* (api.rs run and the handlers).
THEOREM ApiIsStore == ASpec => Spec
<1>1. AInit => Init
  BY DEF AInit
<1>2. [ANext]_avars => [Next]_vars
  BY StepIsStoreStep
<1>3. QED BY <1>1, <1>2, PTL DEF ASpec, Spec

-----------------------------------------------------------------------------
(* Anchors.                                                                *)

Keyrings == {FromEnv(env) : env \in Envs}

\* A process has chosen its keys, and who pinned anchors pinned such ones.
KeyringInv ==
  /\ mode \in {"replaying", "seeding", "serving"} => keyring \in Keyrings
  /\ keyring \in Keyrings \cup {Absent}
  /\ pin \in {KeyringView(k) : k \in Keyrings} \cup {Absent}

\* Only Boot chooses keys, and it chooses both.
LEMMA KeyringStep ==
  ASSUME KeyringInv, [ANext]_avars
  PROVE  KeyringInv'
<1>1. CASE Boot
  BY <1>1 DEF Boot, clients, Open, KeyringInv, Keyrings
<1>2. CASE Process
  <2>1. mode \in {"replaying", "seeding", "serving"}
    BY <1>2 DEF Process, Startup, Crash, ReplayLine, ReplayRefused, ReplayDone,
                SeedNext
  <2>2. QED BY <1>2, <2>1 DEF Process, clients, KeyringInv
<1>3. ASSUME NEW op \in Requests, Ask(op)
      PROVE  KeyringInv'
  <2>1. mode = "serving" /\ pin' = pin
    BY <1>3 DEF Ask, Serve, RegisterNode, AddEdge, UpsertTrustEntry,
                SetWitnesses, UpsertMasterEntry, DeclareRevocation,
                RegisterEvidence, ReleaseEvidence, Asked
  <2>2. keyring' = IF mode' = "down" THEN Absent ELSE keyring
    BY <1>3 DEF Ask
  <2>3. QED BY <2>1, <2>2 DEF KeyringInv
<1>4. CASE Pin
  BY <1>4 DEF Pin, KeyringInv, vars
<1>5. CASE ReadGraph \/ ReadLog \/ UNCHANGED avars
  BY <1>5 DEF ReadGraph, ReadLog, avars, clients, KeyringInv, vars
<1>6. QED BY <1>1, <1>2, <1>3, <1>4, <1>5 DEF ANext

\* Two keyrings that share the key of one role are of one mode.
LEMMA SharedKeyMeansMode ==
  ASSUME NEW j \in Keyrings, NEW k \in Keyrings,
         j.ed = k.ed \/ j.p256 = k.p256
  PROVE  j.mode = k.mode
<1> DEFINE Operated(x) == /\ x.mode = "env-key"
                          /\ x.ed[2] \in GoodSeeds /\ x.p256[2] \in GoodSeeds
           Developed(x) == /\ x.mode = "seeded-dev"
                           /\ x.ed[2] \notin GoodSeeds /\ x.p256[2] \notin GoodSeeds
<1>1. ASSUME NEW x \in Keyrings
      PROVE  Operated(x) \/ Developed(x)
  <2>1. PICK env \in Envs : x = FromEnv(env)
    BY DEF Keyrings
  <2>2. CASE /\ Unset \notin {env.ed, env.p256}
             /\ {env.ed, env.p256} \subseteq GoodSeeds
    <3>1. x = EnvKey(env.ed, env.p256)
      BY <2>1, <2>2 DEF FromEnv
    <3>2. x.mode = "env-key" /\ x.ed[2] = env.ed /\ x.p256[2] = env.p256
      BY <3>1 DEF EnvKey
    <3>3. QED BY <2>2, <3>2
  <2>3. CASE x = Dev(env.dev)
    <3> DEFINE e == EdMaterial(env.dev)
               p == P256Material(env.dev)
    <3>1. e \notin GoodSeeds /\ p \notin GoodSeeds
      BY SeedAssumption
    <3>2. x = [mode |-> "seeded-dev", ed |-> <<"ed25519", e>>,
               p256 |-> <<"ecdsa-p256", p>>]
      BY <2>3 DEF Dev
    <3> HIDE DEF e, p
    <3>3. x.mode = "seeded-dev" /\ x.ed[2] = e /\ x.p256[2] = p
      BY <3>2
    <3>4. QED BY <3>1, <3>3
  <2>4. QED BY <2>1, <2>2, <2>3 DEF FromEnv
<1>2. QED BY <1>1

\* An anchor pinned from one process verifies an answer of another, for either
\* role, only if both are of one mode, and the pinned one carried the warning
\* exactly when that is the development mode (keyring.rs:149).
THEOREM AnchorsTellMode == ASpec => []AnchorsMeanMode
<1>1. AInit => KeyringInv
  BY DEF AInit, Init, KeyringInv
<1>2. KeyringInv => AnchorsMeanMode
  <2> SUFFICES ASSUME KeyringInv, pin # Absent, keyring # Absent,
                      pin.ed = keyring.ed \/ pin.p256 = keyring.p256
               PROVE  /\ pin.mode = keyring.mode
                      /\ pin.warning = (keyring.mode = "seeded-dev")
    BY DEF AnchorsMeanMode
  <2>1. PICK k \in Keyrings : pin = KeyringView(k)
    BY DEF KeyringInv
  <2>2. keyring \in Keyrings
    BY DEF KeyringInv
  <2>3. /\ pin.ed = k.ed /\ pin.p256 = k.p256 /\ pin.mode = k.mode
        /\ pin.warning = (k.mode = "seeded-dev")
    BY <2>1 DEF KeyringView
  <2>4. k.mode = keyring.mode
    BY <2>1, <2>2, <2>3, SharedKeyMeansMode
  <2>5. QED BY <2>3, <2>4
<1>3. QED BY <1>1, <1>2, KeyringStep, PTL DEF ASpec

-----------------------------------------------------------------------------
(* Pages.                                                                  *)

\* A registered node has a page, and only such a node.
LEMMA PageIsPage ==
  ASSUME NEW s \in Store, NEW n \in NodeId, NEW t
  PROVE  OperatorView(s, n, t) # Absent <=> Registered(s, n)
<1> DEFINE page == OperatorView(s, n, t)
<1>1. CASE ~Registered(s, n)
  BY <1>1 DEF OperatorView
<1>2. CASE Registered(s, n)
  <2>1. page.keys \in SUBSET Key
    BY <1>2 DEF OperatorView, Store, Node
  <2>2. /\ page.delegatedBy \in SUBSET Credential
        /\ page.delegates \in SUBSET Credential
        /\ page.revocations \in SUBSET Revocation
    BY <1>2 DEF OperatorView, Store, Elements
  <2>3. page.memberships \in SUBSET [jurisdiction: Jurisdiction, dates: Dates,
                                     inForce: BOOLEAN]
    <3>1. \A j \in Jurisdiction : s.lists[j].entries[n] \in Dates \cup {Absent}
      BY DEF Store, TrustList
    <3>2. \A d : InForce(d, t) \in BOOLEAN
      BY DEF InForce
    <3>3. QED BY <1>2, <3>1, <3>2 DEF OperatorView, Listed
  <2>4. page.attestedBy \in (SUBSET NodeId) \cup {Absent}
    <3>1. s.roots[n] \in (SUBSET Witnessing) \cup {Absent}
      BY DEF Store
    <3>2. QED BY <1>2, <3>1 DEF OperatorView, Witnessing
  <2>5. page \in OperatorPage
    <3>1. page = [keys |-> page.keys, delegatedBy |-> page.delegatedBy,
                  delegates |-> page.delegates,
                  memberships |-> page.memberships,
                  attestedBy |-> page.attestedBy,
                  revocations |-> page.revocations]
      BY <1>2 DEF OperatorView
    <3> HIDE DEF page
    <3>2. QED BY <2>1, <2>2, <2>3, <2>4, <3>1 DEF OperatorPage
  <2>6. QED BY <1>2, <2>5, DocumentAssumption
<1>3. QED BY <1>1, <1>2

\* GET /graph and GET /operators/{node} tell the same story, whatever records
\* the journal has lost: each edge is on the pages of both its ends, which
\* exist, and the pages show no other edge (api.rs graph_view, operator_view).
THEOREM PagesAlwaysMeet == ASpec => []PagesMeet
<1>1. StoreInv /\ EdgesAnchored => PagesMeet
  <2> SUFFICES ASSUME StoreInv, EdgesAnchored, NEW t \in Instants
               PROVE
      LET page  == [n \in NodeId |-> OperatorView(store, n, t)]
          graph == Elements(GraphView(store).edges)
          known == {n \in NodeId : page[n] # Absent}
      IN  /\ \A e \in graph : {e.parent, e.child} \subseteq known
          /\ graph = UNION {page[n].delegatedBy : n \in known}
          /\ {e \in graph : e.parent # e.child}
               = UNION {page[n].delegates : n \in known}
    BY DEF PagesMeet
  <2> DEFINE page  == [n \in NodeId |-> OperatorView(store, n, t)]
             graph == Elements(GraphView(store).edges)
             known == {n \in NodeId : page[n] # Absent}
  <2>1. store \in Store
    BY DEF StoreInv, TypeOK
  <2>2. \A n \in NodeId : n \in known <=> Registered(store, n)
    BY <2>1, PageIsPage
  <2>3. /\ graph = Elements(store.edges)
        /\ \A e \in graph : /\ e.parent \in NodeId /\ Registered(store, e.parent)
                            /\ e.child \in NodeId /\ Registered(store, e.child)
    <3>1. graph = Elements(store.edges)
      BY DEF GraphView
    <3>2. \A i \in DOMAIN store.edges :
            /\ store.edges[i] \in Credential
            /\ EdgeAccepted(store, store.edges[i])
      BY <2>1 DEF Store, EdgesAnchored
    <3> HIDE DEF graph
    <3>3. QED BY <3>1, <3>2 DEF Elements, Credential, EdgeAccepted
  <2>4. \A n \in known :
          /\ page[n].delegatedBy = {e \in graph : e.child = n}
          /\ page[n].delegates = {e \in graph : e.child # n /\ e.parent = n}
    BY <2>2, <2>3 DEF OperatorView
  <2> HIDE DEF page, graph, known
  <2>5. \A e \in graph : e.parent \in known /\ e.child \in known
    BY <2>2, <2>3
  <2>6. graph = UNION {page[n].delegatedBy : n \in known}
    BY <2>4, <2>5
  <2>7. {e \in graph : e.parent # e.child}
          = UNION {page[n].delegates : n \in known}
    BY <2>4, <2>5
  <2>8. QED BY <2>5, <2>6, <2>7 DEF page, graph, known
<1>2. QED BY <1>1, ApiIsStore, StoreInvariant, EdgesStayAnchored, PTL

-----------------------------------------------------------------------------
(* The anchor bundle.                                                      *)

\* Every list was registered under a name without blanks.
Named(s) == \A j \in Listed(s) : \E x \in ListName : Upper[x] = j

\* An op registers a list under its own name, and leaves the others as they
\* are.
LEMMA EffectNamed ==
  ASSUME NEW s \in Store, NEW op \in Op, Named(s)
  PROVE  Named(Effect(s, op))
<1> DEFINE t == Effect(s, op)
<1>1. CASE op.type = "register-trust-list"
  <2>1. op.name \in ListName
    BY <1>1 DEF Op
  <2>2. \A j \in Jurisdiction : j # Upper[op.name] => t.lists[j] = s.lists[j]
    BY <1>1 DEF Effect, PutList, Store
  <2>3. QED BY <2>1, <2>2 DEF Named, Listed
<1>2. CASE op.type = "upsert-trust-entry"
  <2>1. /\ s.lists \in [Jurisdiction -> TrustList]
        /\ t.lists = [s.lists EXCEPT ![Upper[op.name]].entries[op.node] = op.dates]
    BY <1>2 DEF Effect, PutEntry, Store
  <2>2. ASSUME NEW j \in Jurisdiction
        PROVE  t.lists[j].framework = s.lists[j].framework
    <3>1. s.lists[j] \in TrustList
      BY <2>1
    <3>2. t.lists[j] = [s.lists[j] EXCEPT !.entries =
                          IF j = Upper[op.name]
                          THEN [s.lists[j].entries EXCEPT ![op.node] = op.dates]
                          ELSE @]
      BY <2>1, <3>1 DEF TrustList
    <3>3. QED BY <3>1, <3>2 DEF TrustList
  <2> HIDE DEF t
  <2>3. QED BY <2>2 DEF Named, Listed, t
<1>3. CASE op.type \notin {"register-trust-list", "upsert-trust-entry"}
  <2>1. t.lists = s.lists
    BY <1>3 DEF Op, Effect, Store, PutNode, PutEdge, PutWitnesses, PutRoot,
                PutRevocation, PutEvidence
  <2>2. QED BY <2>1 DEF Named, Listed
<1>4. QED BY <1>1, <1>2, <1>3

\* And so does a line of the journal.
LEMMA ReplayedNamed ==
  ASSUME NEW s \in Store, NEW line \in Line, Named(s)
  PROVE  Named(Replayed(s, line))
<1>1. CASE line.kind = "record"
  <2> DEFINE t == ApplyOp(s, line.rec.op)
             u == [t EXCEPT !.log = Append(@, line.rec)]
  <2>1. line.rec.op \in Op
    BY <1>1 DEF Line, AuditRecord
  <2>2. Named(t) /\ t \in Store
    BY <2>1, EffectNamed, EffectType DEF ApplyOp
  <2>3. u.lists = t.lists
    BY <2>2 DEF Store
  <2>4. Replayed(s, line) = u
    BY <1>1 DEF Replayed, Absorb
  <2> HIDE DEF t, u
  <2>5. QED BY <2>2, <2>3, <2>4 DEF Named, Listed
<1>2. CASE line.kind # "record"
  BY <1>2 DEF Replayed
<1>3. QED BY <1>1, <1>2

LEMMA ListsAreNamed == Spec => []Named(store)
<1>1. Named(EmptyStore)
  BY DEF EmptyStore, Named, Listed
<1>2. Init => Named(store)
  BY <1>1 DEF Init
<1>3. StoreInv /\ Named(store) /\ [Next]_vars => Named(store)'
  <2> SUFFICES ASSUME StoreInv, Named(store), [Next]_vars
               PROVE  Named(store')
    BY DEF Named, Listed
  <2>1. store \in Store
    BY DEF StoreInv, TypeOK
  <2>2. \A line \in Line : Named(Replayed(store, line))
    BY <2>1, ReplayedNamed
  <2>3. QED BY <1>1, <2>2, StoreSteps
<1>4. QED BY <1>2, <1>3, StoreInvariant, PTL DEF Spec

\* A query parameter that is there is trimmed, and one that has blanks does
\* not name a list as it is.
LEMMA QueryIsTrimmed ==
  ASSUME NEW sp \in Spelling
  PROVE  /\ OptQuery(sp) \in Spelling \cup {Absent}
         /\ \A x \in ListName : Upper[x] = Upper[sp] => Trim[sp] = sp
BY DocumentAssumption, TrimAssumption, UpperAssumption DEF OptQuery

\* A known list has a body, and only such a list.
LEMMA ListIsListing ==
  ASSUME NEW s \in Store, NEW sp \in Spelling, NEW t
  PROVE  /\ TrustListOne(s, sp, t) # Absent <=> Upper[sp] \in Listed(s)
         /\ TrustListOne(s, sp, t) \in {ListView(s, Upper[sp], t), Absent}
<1> DEFINE j == Upper[sp]
<1>1. j \in Jurisdiction
  BY UpperAssumption
<1> HIDE DEF j
<1>2. ASSUME j \in Listed(s)
      PROVE  ListView(s, j, t) \in Listing
  <2>1. \A n \in NodeId : s.lists[j].entries[n] \in Dates \cup {Absent}
    BY <1>1 DEF Store, TrustList
  <2>2. \A d : InForce(d, t) \in BOOLEAN
    BY DEF InForce
  <2>3. Entries(s.lists[j], t)
          \in SUBSET [node: NodeId, dates: Dates, inForce: BOOLEAN]
    BY <2>1, <2>2 DEF Entries
  <2>4. s.lists[j].framework \in Framework
    BY <1>1, <1>2 DEF Listed, Store, TrustList
  <2>5. QED BY <1>1, <2>3, <2>4 DEF ListView, Listing
<1>3. QED BY <1>2, DocumentAssumption DEF TrustListOne, j

\* And a bundle, for a parameter that is there.
LEMMA BundleIsBundle ==
  ASSUME NEW s \in Store, NEW sp \in Spelling, OptQuery(sp) # Absent
  PROVE  AnchorBundle(s, sp) # Absent <=> Upper[OptQuery(sp)] \in Listed(s)
<1> DEFINE j == Upper[OptQuery(sp)]
           b == AnchorBundle(s, sp)
<1>1. j \in Jurisdiction
  BY UpperAssumption, QueryIsTrimmed
<1>2. CASE j \in Listed(s)
  <2>1. \A n \in NodeId : s.lists[j].entries[n] \in Dates \cup {Absent}
    BY <1>1 DEF Store, TrustList
  <2>2. b.entries \in SUBSET [node: NodeId, dates: Dates]
    BY <1>2, <2>1 DEF AnchorBundle
  <2>3. b.m \in Nat
    BY <1>2 DEF AnchorBundle, Store
  <2>4. b.witnesses \in SUBSET [node: NodeId, key: Key]
    BY <1>2 DEF AnchorBundle, WitnessSet, Store
  <2>5. b.roots \in SUBSET [node: NodeId, attestations: SUBSET Witnessing]
    <3>1. \A n \in Roots(s) : n \in NodeId /\ s.roots[n] \in SUBSET Witnessing
      BY DEF Roots, Store
    <3>2. QED BY <1>2, <3>1 DEF AnchorBundle
  <2>6. b = [entries |-> b.entries, m |-> b.m, witnesses |-> b.witnesses,
             roots |-> b.roots]
    BY <1>2 DEF AnchorBundle
  <2> HIDE DEF b
  <2>7. b \in Bundle
    BY <2>2, <2>3, <2>4, <2>5, <2>6 DEF Bundle
  <2>8. QED BY <1>2, <2>7, DocumentAssumption DEF b
<1>3. CASE j \notin Listed(s)
  BY <1>3 DEF AnchorBundle
<1>4. QED BY <1>2, <1>3

\* A verifier counts the witnesses that the master list counts.
LEMMA BundleAttests ==
  ASSUME NEW s \in Store, NEW n \in Roots(s)
  PROVE  {a.witness : a \in {x \in s.roots[n] :
           [node |-> x.witness, key |-> x.key] \in WitnessSet(s)}}
         = Attesting(s, n)
<1>1. s.roots[n] \in SUBSET Witnessing
  BY DEF Roots, Store
<1>2. \A x \in s.roots[n] :
        [node |-> x.witness, key |-> x.key] \in WitnessSet(s)
          <=> x.key \in s.witnesses[x.witness]
  <2> SUFFICES ASSUME NEW x \in s.roots[n]
               PROVE  [node |-> x.witness, key |-> x.key] \in WitnessSet(s)
                        <=> x.key \in s.witnesses[x.witness]
    OBVIOUS
  <2>1. x.witness \in NodeId
    BY <1>1 DEF Witnessing
  <2>2. ASSUME NEW w \in NodeId, NEW k \in s.witnesses[w],
               [node |-> x.witness, key |-> x.key] = [node |-> w, key |-> k]
        PROVE  x.witness = w /\ x.key = k
    BY <2>2
  <2> DEFINE pair == [node |-> x.witness, key |-> x.key]
             Of(w) == {[node |-> w, key |-> k] : k \in s.witnesses[w]}
  <2>3. WitnessSet(s) = UNION {Of(w) : w \in NodeId}
    BY DEF WitnessSet
  <2>4. ASSUME pair \in WitnessSet(s)
        PROVE  x.key \in s.witnesses[x.witness]
    <3>1. PICK w \in NodeId : pair \in Of(w)
      BY <2>3, <2>4
    <3>2. PICK k \in s.witnesses[w] : pair = [node |-> w, key |-> k]
      BY <3>1
    <3>3. QED BY <2>2, <3>2
  <2>5. ASSUME x.key \in s.witnesses[x.witness]
        PROVE  pair \in WitnessSet(s)
    <3>1. pair \in Of(x.witness)
      BY <2>5
    <3> HIDE DEF pair, Of
    <3>2. QED BY <2>1, <2>3, <3>1
  <2>6. QED BY <2>4, <2>5
<1>3. QED BY <1>2 DEF Attesting

\* GET /trust-lists shows the list of the name, or every list when there is no
\* name.
LEMMA ListsAreShown ==
  ASSUME NEW s \in Store, NEW sp \in Spelling, NEW t, Named(s)
  PROVE  LET name == OptQuery(sp) IN
         TrustLists(s, Absent, sp, t) =
           IF name = Absent
           THEN {TrustListOne(s, x, t) : x \in Spelling} \ {Absent}
           ELSE {TrustListOne(s, name, t)} \ {Absent}
<1> DEFINE name  == OptQuery(sp)
           shown == TrustLists(s, Absent, sp, t)
           one   == [x \in Spelling |-> TrustListOne(s, x, t)]
           view  == [j \in Jurisdiction |-> ListView(s, j, t)]
<1>1. shown = {view[j] : j \in {x \in Listed(s) : name = Absent \/ Upper[name] = x}}
  BY DEF TrustLists, OptQuery, Listed
<1>2. \A x \in Spelling : /\ one[x] # Absent <=> Upper[x] \in Listed(s)
                          /\ Upper[x] \in Listed(s) => one[x] = view[Upper[x]]
                          /\ Upper[x] \in Jurisdiction
  <2> SUFFICES ASSUME NEW x \in Spelling
               PROVE  /\ one[x] # Absent <=> Upper[x] \in Listed(s)
                      /\ Upper[x] \in Listed(s) => one[x] = view[Upper[x]]
                      /\ Upper[x] \in Jurisdiction
    OBVIOUS
  <2>1. Upper[x] \in Jurisdiction
    BY UpperAssumption
  <2>2. one[x] # Absent <=> Upper[x] \in Listed(s)
    BY ListIsListing
  <2>3. Upper[x] \in Listed(s) => one[x] = view[Upper[x]]
    BY <2>1 DEF TrustListOne
  <2>4. QED BY <2>1, <2>2, <2>3
<1>3. \A j \in Listed(s) : \E x \in Spelling : Upper[x] = j
  BY UpperAssumption DEF Named
<1>4. name \in Spelling \cup {Absent}
  BY QueryIsTrimmed
<1> HIDE DEF name, shown, one, view
<1>5. CASE name = Absent
  <2>1. shown = {one[x] : x \in Spelling} \ {Absent}
    BY <1>1, <1>2, <1>3, <1>5
  <2>2. QED BY <1>5, <2>1 DEF shown, one, name
<1>6. CASE name # Absent
  <2>1. shown = {one[name]} \ {Absent}
    BY <1>1, <1>2, <1>4, <1>6
  <2>2. QED BY <1>4, <1>6, <2>1 DEF shown, one, name
<1>7. QED BY <1>5, <1>6

\* A verifier that has only GET /anchor-bundle accepts exactly the roots that
\* GET /trust-lists/{jur} shows in force and GET /master-list shows quorate,
\* for every content of the store; the query parameters may be padded, the
\* path may not (api.rs anchor_bundle, trust_lists, trust_list_one, opt_query).
THEOREM BundleAlwaysDecides == ASpec => []BundleDecides
<1>1. StoreInv /\ Named(store) => BundleDecides
  <2> SUFFICES ASSUME StoreInv, Named(store), NEW sp \in Spelling,
                      NEW t \in Instants
               PROVE
      LET name  == OptQuery(sp)
          b     == AnchorBundle(store, sp)
          lists == TrustLists(store, Absent, sp, t)
          Path(text) == TrustListOne(store, text, t)
      IN  /\ Trim[sp] # sp => Path(sp) = Absent
          /\ name = Absent =>
               lists = {Path(x) : x \in Spelling} \ {Absent}
          /\ name # Absent =>
               /\ (b = Absent) = (Path(name) = Absent)
               /\ lists = {Path(name)} \ {Absent}
               /\ b # Absent => \A n \in NodeId :
                    VerifierAccepts(b, n, t)
                      <=> /\ \E e \in Path(name).entries : e.node = n /\ e.inForce
                          /\ \E r \in MasterView(store).entries :
                               r.node = n /\ r.quorate
    BY DEF BundleDecides
  <2> DEFINE s     == store
             name  == OptQuery(sp)
             j     == Upper[name]
             b     == AnchorBundle(s, sp)
             list  == TrustListOne(s, name, t)
             lists == TrustLists(s, Absent, sp, t)
             all   == {TrustListOne(s, x, t) : x \in Spelling} \ {Absent}
  <2>1. s \in Store /\ Named(s)
    BY DEF StoreInv, TypeOK
  <2> HIDE DEF s
  <2>2. Trim[sp] # sp => TrustListOne(s, sp, t) = Absent
    <3>1. Upper[sp] \in Listed(s) => Trim[sp] = sp
      BY <2>1, QueryIsTrimmed DEF Named
    <3>2. QED BY <2>1, <3>1, ListIsListing
  <2>3. /\ name = Absent => lists = all
        /\ name # Absent => lists = {list} \ {Absent}
    BY <2>1, ListsAreShown
  <2>4. ASSUME name # Absent
        PROVE  (b # Absent <=> j \in Listed(s)) /\ (list # Absent <=> j \in Listed(s))
    <3>1. name \in Spelling
      BY <2>4, QueryIsTrimmed
    <3>2. b # Absent <=> j \in Listed(s)
      BY <2>1, <2>4, BundleIsBundle
    <3>3. list # Absent <=> j \in Listed(s)
      BY <2>1, <3>1, ListIsListing
    <3>4. QED BY <3>2, <3>3
  <2>5. ASSUME name # Absent, b # Absent, NEW n \in NodeId
        PROVE  VerifierAccepts(b, n, t)
                 <=> /\ \E e \in list.entries : e.node = n /\ e.inForce
                     /\ \E r \in MasterView(s).entries :
                          r.node = n /\ r.quorate
    <3> DEFINE dates   == s.lists[j].entries
               held    == {x \in NodeId : dates[x] # Absent}
               Seen(a) == {v.witness : v \in {x \in a :
                             [node |-> x.witness, key |-> x.key] \in b.witnesses}}
    <3>1. /\ b.entries = {[node |-> x, dates |-> dates[x]] : x \in held}
          /\ b.roots = {[node |-> x, attestations |-> s.roots[x]] : x \in Roots(s)}
          /\ b.m = s.m /\ b.witnesses = WitnessSet(s)
          /\ list.entries = {[node |-> x, dates |-> dates[x],
                              inForce |-> InForce(dates[x], t)] : x \in held}
      BY <2>4, <2>5 DEF AnchorBundle, TrustListOne, ListView, Entries
    <3> HIDE DEF b, list, dates, name
    <3>2. (\E e \in b.entries : e.node = n /\ InForce(e.dates, t))
            <=> n \in held /\ InForce(dates[n], t)
      <4>1. ASSUME NEW e \in b.entries, e.node = n, InForce(e.dates, t)
            PROVE  n \in held /\ InForce(dates[n], t)
        <5>1. PICK x \in held : e = [node |-> x, dates |-> dates[x]]
          BY <3>1
        <5>2. e.node = x /\ e.dates = dates[x]
          BY <5>1
        <5>3. QED BY <4>1, <5>2
      <4>2. ASSUME n \in held, InForce(dates[n], t)
            PROVE  \E e \in b.entries : e.node = n /\ InForce(e.dates, t)
        <5> DEFINE e == [node |-> n, dates |-> dates[n]]
        <5>1. e \in b.entries /\ e.node = n /\ e.dates = dates[n]
          BY <3>1, <4>2
        <5> HIDE DEF e
        <5>2. QED BY <4>2, <5>1
      <4>3. QED BY <4>1, <4>2
    <3>3. (\E e \in list.entries : e.node = n /\ e.inForce)
            <=> n \in held /\ InForce(dates[n], t)
      <4> DEFINE Row(x) == [node |-> x, dates |-> dates[x],
                            inForce |-> InForce(dates[x], t)]
      <4>1. /\ list.entries = {Row(x) : x \in held}
            /\ \A x : Row(x).node = x /\ Row(x).inForce = InForce(dates[x], t)
        BY <3>1
      <4> HIDE DEF Row, held
      <4>2. ASSUME NEW e \in list.entries, e.node = n, e.inForce
            PROVE  n \in held /\ InForce(dates[n], t)
        <5>1. PICK x \in held : e = Row(x)
          BY <4>1
        <5>2. QED BY <4>1, <4>2, <5>1
      <4>3. ASSUME n \in held, InForce(dates[n], t)
            PROVE  \E e \in list.entries : e.node = n /\ e.inForce
        <5>1. Row(n) \in list.entries
          BY <4>1, <4>3
        <5>2. QED BY <4>1, <4>3, <5>1
      <4>4. QED BY <4>2, <4>3
    <3>4. (\E r \in b.roots :
             r.node = n /\ Cardinality(Seen(r.attestations)) >= b.m)
            <=> RootAccepted(s, n)
      <4>1. n \in Roots(s) <=> s.roots[n] # Absent
        BY DEF Roots
      <4>2. n \in Roots(s) => Seen(s.roots[n]) = Attesting(s, n)
        BY <2>1, <3>1, BundleAttests
      <4> HIDE DEF Seen
      <4>3. (\E r \in b.roots :
               r.node = n /\ Cardinality(Seen(r.attestations)) >= b.m)
              <=> n \in Roots(s) /\ Cardinality(Seen(s.roots[n])) >= s.m
        <5>1. ASSUME NEW r \in b.roots, r.node = n,
                     Cardinality(Seen(r.attestations)) >= b.m
              PROVE  n \in Roots(s) /\ Cardinality(Seen(s.roots[n])) >= s.m
          <6>1. PICK x \in Roots(s) : r = [node |-> x, attestations |-> s.roots[x]]
            BY <3>1
          <6>2. r.node = x /\ r.attestations = s.roots[x]
            BY <6>1
          <6>3. QED BY <3>1, <5>1, <6>2
        <5>2. ASSUME n \in Roots(s), Cardinality(Seen(s.roots[n])) >= s.m
              PROVE  \E r \in b.roots :
                       r.node = n /\ Cardinality(Seen(r.attestations)) >= b.m
          <6> DEFINE r == [node |-> n, attestations |-> s.roots[n]]
          <6>1. r \in b.roots /\ r.node = n /\ r.attestations = s.roots[n]
            BY <3>1, <5>2
          <6> HIDE DEF r
          <6>2. QED BY <3>1, <5>2, <6>1
        <5>3. QED BY <5>1, <5>2
      <4>4. QED BY <4>1, <4>2, <4>3 DEF RootAccepted
    <3>5. (\E r \in MasterView(s).entries : r.node = n /\ r.quorate)
            <=> RootAccepted(s, n)
      <4>1. MasterView(s).entries = {RootView(s, x) : x \in Roots(s)}
        BY DEF MasterView
      <4>2. \A x : /\ RootView(s, x).node = x
                   /\ RootView(s, x).quorate = RootAccepted(s, x)
        BY DEF RootView
      <4>3. RootAccepted(s, n) => n \in Roots(s)
        BY DEF RootAccepted, Roots
      <4>4. QED BY <4>1, <4>2, <4>3
    <3>6. VerifierAccepts(b, n, t)
            <=> /\ \E e \in b.entries : e.node = n /\ InForce(e.dates, t)
                /\ \E r \in b.roots :
                     r.node = n /\ Cardinality(Seen(r.attestations)) >= b.m
      BY Zenon DEF VerifierAccepts
    <3> HIDE DEF Seen
    <3>7. QED BY <3>2, <3>3, <3>4, <3>5, <3>6
  <2> HIDE DEF b, list, lists, name, all
  <2>6. QED BY <2>2, <2>3, <2>4, <2>5 DEF s, name, b, list, lists, all
<1>2. QED BY <1>1, ApiIsStore, StoreInvariant, ListsAreNamed, PTL

-----------------------------------------------------------------------------
(* What was read stays.                                                    *)

Begins(a, b) == Len(a) <= Len(b) /\ \A i \in DOMAIN a : a[i] = b[i]

\* Nothing that a client reads of s is missing in t.
Grows(s, t) ==
  /\ \A n \in NodeId : s.nodes[n].keys \subseteq t.nodes[n].keys
  /\ Begins(s.edges, t.edges)
  /\ Begins(s.log, t.log)

\* A sequence begins itself, and whatever is appended to it.
LEMMA AppendBegins ==
  ASSUME NEW S, NEW a \in Seq(S), NEW x \in S
  PROVE  Begins(a, a) /\ Begins(a, Append(a, x))
BY DEF Begins

\* A beginning of a beginning is a beginning.
LEMMA BeginsTrans ==
  ASSUME NEW S, NEW a \in Seq(S), NEW b \in Seq(S), NEW c \in Seq(S),
         Begins(a, b), Begins(b, c)
  PROVE  Begins(a, c)
BY DEF Begins

\* A record adds to the graph and to the log, and takes nothing away.
LEMMA AbsorbGrows ==
  ASSUME NEW s \in Store, NEW rec \in AuditRecord
  PROVE  Grows(s, Absorb(s, rec))
<1> DEFINE op == rec.op
           t  == ApplyOp(s, op)
           u  == Absorb(s, rec)
<1>1. op \in Op
  BY DEF AuditRecord
<1>2. s.log \in Seq(AuditRecord) /\ s.edges \in Seq(Credential)
  BY DEF Store
<1>3. Begins(s.log, u.log)
  BY <1>2, AbsorbLog, AppendBegins
<1>4. /\ \A n \in NodeId : s.nodes[n].keys \subseteq t.nodes[n].keys
      /\ t \in Store
  BY <1>1, EffectOnNodes, EffectType DEF ApplyOp
<1>5. Begins(s.edges, t.edges)
  <2>1. \/ t.edges = s.edges
        \/ \E e \in Credential : t.edges = Append(s.edges, e)
    <3>1. CASE t = s
      BY <3>1
    <3>2. CASE op.type = "add-edge" /\ t = Effect(s, op)
      BY <1>1, <3>2 DEF Op, Effect, PutEdge, Store
    <3>3. CASE op.type # "add-edge" /\ t = Effect(s, op)
      BY <1>1, <3>3 DEF Op, Effect, Store, PutNode, PutList, PutEntry,
                        PutWitnesses, PutRoot, PutRevocation, PutEvidence
    <3>4. QED BY <3>1, <3>2, <3>3 DEF ApplyOp
  <2> HIDE DEF t
  <2>2. \A e \in Credential : /\ Begins(s.edges, s.edges)
                              /\ Begins(s.edges, Append(s.edges, e))
    BY <1>2, AppendBegins
  <2>3. Begins(s.edges, s.edges)
    BY <1>2 DEF Begins
  <2>4. QED BY <2>1, <2>2, <2>3
<1>6. u.nodes = t.nodes /\ u.edges = t.edges
  <2>1. u = [t EXCEPT !.log = Append(t.log, rec)]
    BY DEF Absorb
  <2> HIDE DEF t, u
  <2>2. QED BY <1>4, <2>1 DEF Store
<1> HIDE DEF t, u
<1>7. QED BY <1>3, <1>4, <1>5, <1>6 DEF Grows, u

\* The keys of a posted node are in the graph once it is recorded.
LEMMA PostedKeys ==
  ASSUME NEW s \in Store, NEW rec \in AuditRecord,
         rec.op.type = "register-node"
  PROVE  /\ rec.op.id \in NodeId /\ rec.op.keys \in SUBSET Key
         /\ rec.op.keys \subseteq Absorb(s, rec).nodes[rec.op.id].keys
<1> DEFINE op == rec.op
           t  == Effect(s, op)
<1>1. op \in Op /\ op.id \in NodeId /\ op.keys \in SUBSET Key
  BY DEF AuditRecord, Op
<1>2. t \in Store
  BY <1>1, EffectType
<1>3. t.nodes[op.id].keys = s.nodes[op.id].keys \cup op.keys
  BY <1>1 DEF Effect, PutNode, Store, Node
<1>4. Absorb(s, rec) = [t EXCEPT !.log = Append(t.log, rec)]
  BY DEF Absorb, ApplyOp, Applies
<1> HIDE DEF t
<1>5. Absorb(s, rec).nodes = t.nodes
  BY <1>2, <1>4 DEF Store
<1>6. QED BY <1>1, <1>3, <1>5

\* The state a restart would give.
Last == hist[Len(hist)]

\* It only grows, through every crash and restart.
LEMMA LastGrows ==
  ASSUME FaultFree, StoreInv, Clean, [Next]_vars
  PROVE  Last' \in Store /\ Grows(Last, Last')
<1>1. hist \in Seq(Store) /\ Len(hist) \in Nat \ {0} /\ Last \in Store
  BY DEF StoreInv, TypeOK, HistIsReplay, Last
<1>2. CASE Quiet
  <2>1. Last' = Last
    BY <1>2 DEF Quiet, disk, Last
  <2>2. Last.edges \in Seq(Credential) /\ Last.log \in Seq(AuditRecord)
    BY <1>1 DEF Store
  <2>3. QED BY <1>1, <2>1, <2>2 DEF Grows, Begins
<1>3. CASE Recording
  <2>1. PICK op, rest : op \in Op /\ Record(op, rest)
    BY <1>3 DEF Recording
  <2>2. NewRec(op) \in AuditRecord
    BY <2>1, NewRecType DEF StoreInv
  <2>3. hist' = Append(hist, Absorb(Last, NewRec(op)))
    BY <2>1, CleanRecord DEF Clean, Last
  <2>4. Absorb(Last, NewRec(op)) \in Store
    BY <1>1, <2>2, AbsorbType
  <2>5. Last' = Absorb(Last, NewRec(op))
    BY <1>1, <2>3, <2>4 DEF Last
  <2>6. QED BY <1>1, <2>2, <2>4, <2>5, AbsorbGrows
<1>4. QED BY <1>2, <1>3, QuietOrRecording

ClientTypes ==
  /\ told \in [keys: [NodeId -> SUBSET Key], edges: Seq(Credential)]
  /\ read \in Seq(AuditRecord)

ToldBy(s) ==
  /\ \A n \in NodeId : told.keys[n] \subseteq s.nodes[n].keys
  /\ Begins(told.edges, s.edges)
  /\ Begins(read, s.log)

ClientInv == ClientTypes /\ ToldBy(Last)

\* What was read of a state is in every larger one.
LEMMA ToldGrows ==
  ASSUME ClientTypes, NEW s \in Store, NEW t \in Store, ToldBy(s), Grows(s, t)
  PROVE  ToldBy(t)
<1>1. /\ told.edges \in Seq(Credential) /\ read \in Seq(AuditRecord)
      /\ s.edges \in Seq(Credential) /\ t.edges \in Seq(Credential)
      /\ s.log \in Seq(AuditRecord) /\ t.log \in Seq(AuditRecord)
  BY DEF ClientTypes, Store
<1>2. Begins(told.edges, t.edges) /\ Begins(read, t.log)
  BY <1>1, BeginsTrans DEF ToldBy, Grows
<1>3. QED BY <1>2 DEF ToldBy, Grows

\* A client that posts a node is told its keys, which the step records.
LEMMA AskTells ==
  ASSUME FaultFree, StoreInv, Clean, ClientInv, NEW op \in Requests, Ask(op)
  PROVE  ClientInv'
<1> DEFINE rec == NewRec(op)
           grown == [told EXCEPT !.keys[op.id] = told.keys[op.id] \cup op.keys]
<1>1. /\ op \in Op /\ mode = "serving" /\ Record(op, << >>) /\ read' = read
      /\ told' = IF op.type = "register-node" /\ mode' = "serving"
                 THEN grown ELSE told
  BY RequestsAssumption
  DEF Ask, Serve, RegisterNode, AddEdge, UpsertTrustEntry, SetWitnesses,
      UpsertMasterEntry, DeclareRevocation, RegisterEvidence, ReleaseEvidence,
      Asked, NodeAnswer
<1>2. Last \in Store /\ Last' \in Store /\ Grows(Last, Last')
  <2>1. [Next]_vars
    BY DEF Ask, Next
  <2>2. QED BY <2>1, LastGrows DEF StoreInv, TypeOK, HistIsReplay, Last
<1>3. ToldBy(Last') /\ ClientTypes
  BY <1>2, ToldGrows DEF ClientInv
<1>4. CASE told' = told
  BY <1>1, <1>3, <1>4 DEF ClientInv, ClientTypes, ToldBy
<1>5. CASE op.type = "register-node" /\ told' = grown
  <2>1. rec \in AuditRecord /\ rec.op = op
    BY <1>1, NewRecType DEF StoreInv, NewRec
  <2>2. /\ op.id \in NodeId /\ op.keys \in SUBSET Key
        /\ op.keys \subseteq Absorb(Last, rec).nodes[op.id].keys
    BY <1>2, <1>5, <2>1, PostedKeys
  <2>3. Last' = Absorb(Last, rec)
    <3>1. hist' = Append(hist, Absorb(Last, rec))
      BY <1>1, CleanRecord DEF Clean, Last
    <3>2. Absorb(Last, rec) \in Store
      BY <1>2, <2>1, AbsorbType
    <3>3. hist \in Seq(Store)
      BY DEF StoreInv, TypeOK
    <3> HIDE DEF rec
    <3>4. QED BY <3>1, <3>2, <3>3 DEF Last
  <2> HIDE DEF rec
  <2>4. /\ told \in [keys: [NodeId -> SUBSET Key], edges: Seq(Credential)]
        /\ read \in Seq(AuditRecord)
    BY <1>3 DEF ClientTypes
  <2>5. /\ told'.edges = told.edges
        /\ told'.keys = [told.keys EXCEPT ![op.id] = told.keys[op.id] \cup op.keys]
        /\ told' \in [keys: [NodeId -> SUBSET Key], edges: Seq(Credential)]
    BY <1>5, <2>2, <2>4
  <2>6. \A n \in NodeId : told'.keys[n] \subseteq Last'.nodes[n].keys
    BY <1>3, <2>2, <2>3, <2>4, <2>5 DEF ToldBy
  <2>7. QED
    BY <1>1, <1>3, <2>4, <2>5, <2>6 DEF ClientInv, ClientTypes, ToldBy
<1>6. QED BY <1>1, <1>4, <1>5

\* GET /graph tells what a restart would give, which is what memory holds.
LEMMA GraphTells ==
  ASSUME StoreInv, Clean, ClientInv, ReadGraph
  PROVE  ClientInv'
<1> DEFINE keys == [n \in NodeId |->
                      UNION {v.keys : v \in {x \in GraphView(store).nodes : x.id = n}}]
<1>1. /\ told' = [keys |-> keys, edges |-> store.edges] /\ read' = read
      /\ mode = "serving" /\ hist' = hist
  BY DEF ReadGraph, GraphView, vars
<1>2. store \in Store /\ Last = store /\ Last' = store
  BY <1>1 DEF StoreInv, TypeOK, RestartExact, Clean, Last
<1>3. \A n \in NodeId : keys[n] \subseteq store.nodes[n].keys
  <2>1. GraphView(store).nodes
          = {[id |-> n, kind |-> store.nodes[n].kind, keys |-> store.nodes[n].keys] :
               n \in {x \in NodeId : Registered(store, x)}}
    BY DEF GraphView
  <2>2. \A x \in GraphView(store).nodes : x.keys = store.nodes[x.id].keys
    BY <2>1
  <2>3. QED BY <2>2
<1>4. store.nodes \in [NodeId -> Node] /\ store.edges \in Seq(Credential)
  BY <1>2 DEF Store
<1>5. keys \in [NodeId -> SUBSET Key]
  BY <1>3, <1>4 DEF Node
<1> HIDE DEF keys
<1>6. told'.keys = keys /\ told'.edges = store.edges
  BY <1>1
<1>7. ClientTypes'
  BY <1>1, <1>4, <1>5 DEF ClientInv, ClientTypes
<1>8. Begins(store.edges, store.edges)
  BY <1>4 DEF Begins
<1>9. QED BY <1>1, <1>2, <1>3, <1>6, <1>7, <1>8 DEF ClientInv, ToldBy

\* A page goes on where the reader has got to.
LEMMA PageGoesOn ==
  ASSUME NEW S, NEW log \in Seq(S), NEW have \in Seq(S), Begins(have, log),
         NEW top \in Nat, top <= Len(log), top >= Len(have)
  PROVE  /\ have \o SubSeq(log, Len(have) + 1, top) \in Seq(S)
         /\ Begins(have \o SubSeq(log, Len(have) + 1, top), log)
<1> DEFINE n    == Len(have)
           page == SubSeq(log, n + 1, top)
<1>1. n \in Nat /\ Len(log) \in Nat /\ n <= top
  OBVIOUS
<1>2. /\ page \in Seq(S) /\ Len(page) = top - n
      /\ \A i \in 1..(top - n) : page[i] = log[n + i]
  BY <1>1
<1> HIDE DEF page
<1>3. /\ have \o page \in Seq(S) /\ Len(have \o page) = top
      /\ \A i \in 1..top :
           (have \o page)[i] = IF i <= n THEN have[i] ELSE page[i - n]
  BY <1>1, <1>2
<1>4. \A i \in 1..top : (have \o page)[i] = log[i]
  <2> TAKE i \in 1..top
  <2>1. CASE i <= n
    BY <1>1, <1>3, <2>1 DEF Begins
  <2>2. CASE i > n
    <3>1. i - n \in 1..(top - n) /\ n + (i - n) = i
      BY <1>1, <2>2
    <3>2. page[i - n] = log[n + (i - n)]
      BY <1>2, <3>1
    <3>3. (have \o page)[i] = page[i - n]
      BY <1>1, <1>3, <2>2
    <3>4. log[n + (i - n)] = log[i]
      BY <3>1, Zenon
    <3>5. QED BY <3>2, <3>3, <3>4, Zenon
  <2>3. i <= n \/ i > n
    BY <1>1
  <2>4. QED BY <2>1, <2>2, <2>3, Zenon
<1>5. QED BY <1>3, <1>4 DEF Begins, page

\* So does GET /admin/log.
LEMMA LogTells ==
  ASSUME StoreInv, Clean, ClientInv, ReadLog
  PROVE  ClientInv'
<1> DEFINE n   == Len(read)
           log == store.log
           top == IF n + PageSize < Len(log) THEN n + PageSize ELSE Len(log)
<1>1. /\ read' = read \o SubSeq(log, n + 1, top)
      /\ told' = told /\ mode = "serving" /\ hist' = hist
  BY DEF ReadLog, LogPage, vars
<1>2. store \in Store /\ Last = store /\ Last' = store
  BY <1>1 DEF StoreInv, TypeOK, RestartExact, Clean, Last
<1>3. log \in Seq(AuditRecord) /\ read \in Seq(AuditRecord)
  BY <1>2 DEF Store, ClientInv, ClientTypes
<1>4. Begins(read, log)
  BY <1>2 DEF ClientInv, ToldBy
<1> HIDE DEF log
<1>5. top \in Nat /\ top <= Len(log) /\ top >= n
  BY <1>3, <1>4, ApiAssumption DEF Begins
<1> HIDE DEF top
<1>6. read' \in Seq(AuditRecord) /\ Begins(read', log)
  BY <1>1, <1>3, <1>4, <1>5, PageGoesOn
<1>7. QED BY <1>1, <1>2, <1>6 DEF ClientInv, ClientTypes, ToldBy, log

\* Whatever the step, the clients know nothing that a restart would lose.
LEMMA ClientStep ==
  ASSUME FaultFree, StoreInv, Clean, ClientInv, [ANext]_avars
  PROVE  ClientInv'
<1>1. CASE Boot \/ Process \/ Pin \/ UNCHANGED avars
  <2>1. told' = told /\ read' = read
    BY <1>1 DEF Boot, Process, Pin, clients, avars
  <2>2. Last \in Store /\ Last' \in Store /\ Grows(Last, Last')
    <3>1. [Next]_vars
      BY StepIsStoreStep
    <3>2. Last' \in Store /\ Grows(Last, Last')
      BY <3>1, LastGrows
    <3>3. QED BY <3>2 DEF StoreInv, TypeOK, HistIsReplay, Last
  <2>3. ToldBy(Last')
    BY <2>2, ToldGrows DEF ClientInv
  <2>4. QED BY <2>1, <2>3 DEF ClientInv, ClientTypes, ToldBy
<1>2. CASE \E op \in Requests : Ask(op)
  BY <1>2, AskTells
<1>3. CASE ReadGraph \/ ReadLog
  BY <1>3, GraphTells, LogTells
<1>4. QED BY <1>1, <1>2, <1>3 DEF ANext

\* At first they know nothing.
LEMMA InitTells == AInit => ClientInv /\ Clean
<1> SUFFICES ASSUME AInit PROVE ClientInv /\ Clean
  OBVIOUS
<1>1. /\ told = [keys |-> [n \in NodeId |-> {}], edges |-> << >>]
      /\ read = << >> /\ hist = <<EmptyStore>>
  BY DEF AInit, Init
<1>2. Last = EmptyStore /\ EmptyStore.edges = << >> /\ EmptyStore.log = << >>
  BY <1>1 DEF Last, EmptyStore
<1>3. << >> \in Seq(Credential) /\ << >> \in Seq(AuditRecord)
  OBVIOUS
<1>4. ClientTypes
  BY <1>1, <1>3 DEF ClientTypes
<1>5. /\ told.edges = << >> /\ \A n \in NodeId : told.keys[n] = {}
  BY <1>1
<1>6. Begins(<< >>, << >>)
  BY DEF Begins
<1>7. ToldBy(Last)
  BY <1>1, <1>2, <1>5, <1>6 DEF ToldBy
<1>8. Clean
  BY DEF AInit, Init, Clean
<1>9. QED BY <1>4, <1>7, <1>8 DEF ClientInv

\* So it always is.
LEMMA ClientInvariant ==
  ASSUME FaultFree
  PROVE  ASpec => [](StoreInv /\ Clean /\ ClientInv)
<1>1. StoreInv /\ Clean /\ [ANext]_avars => Clean'
  BY StepIsStoreStep, CleanStep
<1>2. StoreInv /\ Clean /\ ClientInv /\ [ANext]_avars => ClientInv'
  BY ClientStep
<1>3. QED
  BY <1>1, <1>2, InitTells, ApiIsStore, StoreInvariant, PTL DEF ASpec

\* What a client was told of the graph, by GET /graph or by the answer to
\* POST /nodes, it finds again in every later answer, of this process or a
\* restarted one, when no write is cut short or fails and every line reads
\* back ("Keys merge into the existing node", store.rs:63).
THEOREM GraphAlwaysGrows ==
  ASSUME FaultFree
  PROVE  ASpec => []GraphGrows
<1>1. StoreInv /\ Clean /\ ClientInv => GraphGrows
  BY DEF StoreInv, RestartExact, Clean, ClientInv, ToldBy, Begins, Last,
         GraphGrows
<1>2. QED BY <1>1, ClientInvariant, PTL

\* Pages of GET /admin/log read one after the other make up the log without a
\* gap or a record read twice, while records are added and the process is
\* killed and restarted ("Append-only audit log", api.rs).
THEOREM LogAlwaysPaged ==
  ASSUME FaultFree
  PROVE  ASpec => []LogPaged
<1>1. StoreInv /\ Clean /\ ClientInv => LogPaged
  BY DEF StoreInv, RestartExact, Clean, ClientInv, ToldBy, Begins, Last,
         LogPaged
<1>2. QED BY <1>1, ClientInvariant, PTL

-----------------------------------------------------------------------------
(* The fixtures.                                                           *)

\* Two stores with the content of a third.
LEMMA SameSame ==
  ASSUME NEW s, NEW t, NEW u, Same(s, t), Same(t, u)
  PROVE  Same(s, u)
BY DEF Same

\* The lines of the file begin with the records of all the seed ops.
SeedsFirst ==
  /\ Len(journal) >= 18
  /\ \A i \in 1..18 : journal[i].kind = "record" /\ journal[i].rec.op = SeedOps[i]

\* After its first k lines the file holds what the first k seed ops make.
LEMMA SeedLine ==
  ASSUME StoreInv, SeedsFirst, NEW k \in 1..18, Same(SeedState(k - 1), hist[k])
  PROVE  Same(SeedState(k), hist[k + 1])
<1> DEFINE s == SeedState(k - 1)  h == hist[k]  rec == journal[k].rec
<1>1. /\ journal \in Seq(Line) /\ hist \in Seq(Store)
      /\ Len(hist) = Len(journal) + 1 /\ Len(journal) >= 18
      /\ \A i \in 1..Len(journal) : hist[i + 1] = Replayed(hist[i], journal[i])
  BY DEF StoreInv, TypeOK, HistIsReplay, SeedsFirst
<1>2. /\ journal[k] \in Line /\ h \in Store /\ journal[k].kind = "record"
      /\ rec.op = SeedOps[k] /\ hist[k + 1] = Replayed(h, journal[k])
  <2>1. k \in 1..Len(journal) /\ k \in 1..Len(hist)
    BY <1>1
  <2>2. journal[k] \in Line /\ h \in Store /\ hist[k + 1] = Replayed(h, journal[k])
    BY <1>1, <2>1
  <2>3. QED BY <2>2 DEF SeedsFirst
<1>3. rec \in AuditRecord /\ hist[k + 1] = Absorb(h, rec)
  BY <1>2 DEF Line, Replayed
<1>4. s \in Store
  BY SeedStateType, FixturesAssumption
<1>5. rec.op \in Op
  BY <1>3 DEF AuditRecord
<1>6. Applies(s, rec.op) /\ SeedState(k) = Effect(s, rec.op)
  BY <1>2, SeedSteps, FixturesAssumption DEF Steps
<1> HIDE DEF s, h, rec
<1>7. Applies(h, rec.op)
  BY <1>6, SameApplies DEF s, h
<1>8. Same(Effect(h, rec.op), Absorb(h, rec))
  BY <1>2, <1>3, <1>7, AbsorbSame
<1>9. Same(Effect(s, rec.op), Effect(h, rec.op))
  BY <1>2, <1>4, <1>5, SameEffect DEF s, h
<1>10. QED BY <1>3, <1>6, <1>8, <1>9, SameSame

\* A journal that begins with all the seed ops has, after them, exactly the
\* graph, lists, master list and ledger that the fixtures build directly,
\* whatever interrupted the process meanwhile ("Build the seed Op sequence
\* that, replayed, re-creates the seed state from scratch", seed.rs:233).
THEOREM SeedAlwaysFaithful == ASpec => []SeedFaithful
<1>1. ASSUME StoreInv
      PROVE  SeedFaithful
  <2>1. Len(SeedOps) = 18 /\ DOMAIN SeedOps = 1..18
    BY SeedOpsListed, FixturesAssumption
  <2>2. SUFFICES ASSUME SeedsFirst
                 PROVE  [hist[19] EXCEPT !.log = << >>] = Fixtures
    BY <2>1 DEF SeedFaithful, SeedsFirst
  <2> DEFINE P == [k \in 0..18 |-> Same(SeedState(k), hist[k + 1])]
  <2>3. P[0]
    BY <1>1, SeedStart DEF StoreInv, HistIsReplay, Same
  <2>4. \A k \in 1..18 : P[k - 1] => P[k]
    <3>1. \A k \in 1..18 : Same(SeedState(k - 1), hist[k])
                             => Same(SeedState(k), hist[k + 1])
      BY <1>1, <2>2, SeedLine
    <3>2. \A k \in 1..18 : P[k] = Same(SeedState(k), hist[k + 1])
                             /\ P[k - 1] = Same(SeedState(k - 1), hist[k])
      OBVIOUS
    <3>3. QED BY <3>1, <3>2
  <2>5. P[18]
    <3> HIDE DEF P
    <3>1. P[6]
      BY <2>3, <2>4
    <3>2. P[12]
      BY <3>1, <2>4
    <3>3. QED BY <3>2, <2>4
  <2>6. Same(Fixtures, hist[19])
    BY <2>5, SeedsBuildFixtures, FixturesAssumption
  <2>7. Fixtures \in Store /\ Fixtures.log = << >>
    <3>1. SeedState(18) \in Store /\ SeedState(18).log = << >>
      BY SeedStateType, FixturesAssumption DEF SeedState
    <3>2. QED BY <3>1, SeedsBuildFixtures, FixturesAssumption
  <2>8. hist[19] \in Store
    BY <1>1, <2>2 DEF StoreInv, TypeOK, SeedsFirst, HistIsReplay
  <2> HIDE DEF P
  <2>9. QED BY <2>6, <2>7, <2>8 DEF Same, Store
<1>2. QED BY <1>1, StoreInvariant, ApiIsStore, PTL
=============================================================================
