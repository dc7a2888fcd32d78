------------------------------- MODULE TrustApi -------------------------------
(***************************************************************************)
(* The service of src/api.rs as its clients meet it: a process that        *)
(* chooses its keys from the environment, opens the store, seeds it with   *)
(* the fixtures and serves; and three clients whose work outlives it.  One *)
(* pins the anchors of GET /keyring, one keeps what GET /graph and the     *)
(* answers of POST /nodes told it, one reads the audit log page by page.   *)
(* The process may die and be started again, under another environment,    *)
(* between any two steps.                                                  *)
(***************************************************************************)
EXTENDS TrustStore, TrustViews, SeedFixtures, Keyring

CONSTANTS
  Envs,      \* the environments the process may be started in
  Instants,  \* the `at` parameters and the clock's readings
  PageSize,  \* the `limit` the log reader asks for
  MaxAsks    \* bound: admin requests

ASSUME ApiAssumption ==
  PageSize \in Nat \ {0} /\ MaxAsks \in Nat /\ Absent \notin Instants

ASSUME FixturesAssumption == SeedVocabulary

\* No operator seed is what a development key is derived from; MIN_SEED_BYTES,
\* its only check, does not rule that out.
ASSUME SeedAssumption ==
  \A env \in Envs : {EdMaterial(env.dev), P256Material(env.dev)} \cap GoodSeeds = {}

VARIABLES
  keyring,  \* AppState.keyring, or Absent when there is no process
  pin,      \* the anchors a verifier pinned, or Absent
  told,     \* [keys, edges]: what a client was told of the graph
  read,     \* the audit records a client has read
  asks      \* admin requests so far

clients == <<pin, told, read>>
avars == <<vars, keyring, clients, asks>>

AInit ==
  /\ Init /\ keyring = Absent /\ pin = Absent
  /\ told = [keys |-> [n \in NodeId |-> {}], edges |-> << >>]
  /\ read = << >> /\ asks = 0

-----------------------------------------------------------------------------
\* run: the keyring, then the store.
Boot ==
  /\ Open
  /\ \E env \in Envs : keyring' = FromEnv(env)
  /\ UNCHANGED <<clients, asks>>

\* The process goes on, is killed, or does not start; its keys go with it.
Process ==
  /\ Startup \/ Crash
  /\ keyring' = IF mode' \in {"down", "refused"} THEN Absent ELSE keyring
  /\ UNCHANGED <<clients, asks>>

\* An admin request; who posted a node and got an answer remembers its keys.
Ask(op) ==
  /\ asks < MaxAsks /\ asks' = asks + 1
  /\ Serve(op)
  /\ keyring' = IF mode' = "down" THEN Absent ELSE keyring
  /\ told' = IF op.type = "register-node" /\ mode' = "serving"
             THEN LET answer == NodeAnswer(op, NextSeq(store))
                  IN  [told EXCEPT !.keys[answer.id] = @ \cup answer.keys]
             ELSE told
  /\ UNCHANGED <<pin, read>>

\* GET /keyring.
Pin ==
  /\ mode = "serving" /\ todo = << >>
  /\ pin' = KeyringView(keyring)
  /\ UNCHANGED <<vars, keyring, told, read, asks>>

\* GET /graph.
ReadGraph ==
  /\ mode = "serving" /\ todo = << >>
  /\ LET g == GraphView(store) IN
       told' = [keys |-> [n \in NodeId |->
                            UNION {v.keys : v \in {x \in g.nodes : x.id = n}}],
                edges |-> g.edges]
  /\ UNCHANGED <<vars, keyring, pin, read, asks>>

\* GET /admin/log?limit=PageSize&offset=<what was read>.
ReadLog ==
  /\ mode = "serving" /\ todo = << >>
  /\ read' = read \o LogPage(store, PageSize, Len(read))
  /\ UNCHANGED <<vars, keyring, pin, told, asks>>

ANext ==
  \/ Boot \/ Process
  \/ \E op \in Requests : Ask(op)
  \/ Pin \/ ReadGraph \/ ReadLog

ASpec == AInit /\ [][ANext]_avars

-----------------------------------------------------------------------------
(* Properties.                                                             *)

\* "Build the seed Op sequence that, replayed, re-creates the seed state from
\* scratch" (seed.rs:233): a journal that begins with all the seed ops has,
\* after them, exactly the graph, lists, master list and ledger that the
\* fixtures build directly, whatever interrupted the process meanwhile.
SeedFaithful ==
  Len(journal) >= Len(SeedOps)
    /\ (\A i \in DOMAIN SeedOps :
          journal[i].kind = "record" /\ journal[i].rec.op = SeedOps[i])
  => [hist[Len(SeedOps) + 1] EXCEPT !.log = << >>] = Fixtures

\* "Keys merge into the existing node" (store.rs:63): what a client was told
\* of the graph, by GET /graph or by the answer to POST /nodes, it finds again
\* in every later answer, of this process or a restarted one.
GraphGrows ==
  mode = "serving" =>
    /\ \A n \in NodeId : told.keys[n] \subseteq store.nodes[n].keys
    /\ Len(told.edges) <= Len(store.edges)
    /\ \A i \in DOMAIN told.edges : told.edges[i] = store.edges[i]

\* "Append-only audit log" (api.rs): pages read one after the other, while
\* records are added and the process is restarted, make up the log without a
\* gap or a record read twice.
LogPaged ==
  mode = "serving" =>
    /\ Len(read) <= Len(store.log)
    /\ \A i \in DOMAIN read : read[i] = store.log[i]

\* The fallback to development keys is for both roles (keyring.rs:149): an
\* anchor pinned from one process, for either role, verifies an answer of
\* another process only if both keyrings are of one mode, the pinned one with
\* its warning when that is the development mode.
AnchorsMeanMode ==
  /\ pin # Absent /\ keyring # Absent
  /\ pin.ed = keyring.ed \/ pin.p256 = keyring.p256
  =>  /\ pin.mode = keyring.mode
      /\ pin.warning = (keyring.mode = "seeded-dev")

\* What a verifier makes of a bundle: the root is listed, in force at t, and
\* attested by m of the bundle's witnesses.
VerifierAccepts(b, n, t) ==
  /\ \E e \in b.entries : e.node = n /\ InForce(e.dates, t)
  /\ \E r \in b.roots :
       /\ r.node = n
       /\ Cardinality({a.witness : a \in {x \in r.attestations :
            [node |-> x.witness, key |-> x.key] \in b.witnesses}}) >= b.m

\* A verifier that works offline from the anchor bundle accepts exactly the
\* roots that GET /trust-lists/{jur} shows in force and GET /master-list shows
\* quorate, after any rotation of the witnesses and any restart, and
\* /trust-lists shows the same list.  For the two that take the jurisdiction as
\* a query parameter it may be in either case and padded with blanks; the path
\* has to name it without (api.rs:334, 716): padded, it leads to a 404.  A blank
\* parameter asks /trust-lists for each list there is.
BundleDecides ==
  mode = "serving" =>
    \A sp \in Spelling, t \in Instants :
      LET name  == OptQuery(sp)
          b     == AnchorBundle(store, sp)
          lists == TrustLists(store, Absent, sp, t)
          Path(text) == TrustListOne(store, text, t)
      IN  /\ Trim[sp] # sp => Path(sp) = Absent
          /\ name = Absent =>
               lists = {Path(x) : x \in Spelling} \ {Absent}
          /\ name # Absent =>
               /\ (b = Absent) = (Path(name) = Absent)
               /\ lists = {Path(name)} \ {Absent}
               /\ b # Absent => \A n \in NodeId :
                    VerifierAccepts(b, n, t)
                      <=> /\ \E e \in Path(name).entries : e.node = n /\ e.inForce
                          /\ \E r \in MasterView(store).entries :
                               r.node = n /\ r.quorate

\* The operator pages and the graph tell the same story: no edge of GET /graph
\* leads to a 404, each is on the pages of both its ends, and the pages show
\* no other.
PagesMeet ==
  mode = "serving" =>
    \A t \in Instants :
      LET page == [n \in NodeId |-> OperatorView(store, n, t)]
          graph == Elements(GraphView(store).edges)
          known == {n \in NodeId : page[n] # Absent}
      IN  /\ \A e \in graph : {e.parent, e.child} \subseteq known
          /\ graph = UNION {page[n].delegatedBy : n \in known}
          /\ {e \in graph : e.parent # e.child}
               = UNION {page[n].delegates : n \in known}
=============================================================================
