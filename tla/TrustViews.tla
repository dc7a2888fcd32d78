------------------------------ MODULE TrustViews ------------------------------
(***************************************************************************)
(* The GET handlers of src/api.rs that render the store: what each body    *)
(* says of a Store s, read under one lock.  t is the body's as_of: the     *)
(* `at` of the request, or the instant it arrived.  A map is rendered as   *)
(* the set of its values, and so is a list whose order nothing here looks  *)
(* at; Absent stands for a 404.                                            *)
(* GET /revocations is the module RevocationView.                          *)
(***************************************************************************)
EXTENDS TrustState

CONSTANTS
  Trim,   \* str::trim, of what requests spell
  Blank   \* what it leaves of a text of blanks only, or of none

\* Names of lists have no blanks to trim, and a text that has some has them in
\* upper case too.
ASSUME TrimAssumption ==
  /\ Trim \in [Spelling \cup Framework -> Spelling \cup Framework \cup {Blank}]
  /\ \A x \in Spelling : Trim[x] \in Spelling \cup {Blank}
  /\ \A x \in ListName : Trim[x] = x
  /\ \A x, y \in Spelling : Upper[x] = Upper[y] => (Trim[x] = x <=> Trim[y] = y)

\* opt_query: a query parameter is trimmed, and a blank one is none.
OptQuery(text) ==
  IF text = Absent \/ Trim[text] = Blank THEN Absent ELSE Trim[text]

\* A 400.
BadRequest == [status |-> 400]

\* TrustListEntry::in_force_at, dates being [from, until].
InForce(d, t) == t >= d.from /\ (d.until = Absent \/ t < d.until)

\* GET /graph.
GraphView(s) ==
  [nodes |-> {[id |-> n, kind |-> s.nodes[n].kind, keys |-> s.nodes[n].keys] :
                n \in {x \in NodeId : Registered(s, x)}},
   edges |-> s.edges]

\* The entries of a list, each with its reading at t.
Entries(list, t) ==
  {[node |-> n, dates |-> list.entries[n], inForce |-> InForce(list.entries[n], t)] :
     n \in {x \in NodeId : list.entries[x] # Absent}}

ListView(s, j, t) ==
  [jurisdiction |-> j, framework |-> s.lists[j].framework,
   entries |-> Entries(s.lists[j], t)]

Listed(s) == {j \in Jurisdiction : s.lists[j].framework # Absent}

\* GET /trust-lists: filtered by the query parameters framework and
\* jurisdiction, Absent or blank being no filter.
TrustLists(s, framework, spelling, t) ==
  LET f    == OptQuery(framework)
      name == OptQuery(spelling)
  IN  {ListView(s, j, t) :
         j \in {x \in Listed(s) :
                  /\ name = Absent \/ Upper[name] = x
                  /\ f = Absent \/ s.lists[x].framework = f}}

\* GET /trust-lists/{jur}: the segment of the path is not trimmed.
TrustListOne(s, spelling, t) ==
  IF Upper[spelling] \in Listed(s) THEN ListView(s, Upper[spelling], t)
  ELSE Absent

WitnessSet(s) ==
  UNION {{[node |-> n, key |-> k] : k \in s.witnesses[n]} : n \in NodeId}

\* One entry of GET /master-list: each attestation with its verdict under the
\* witness keys of now, and the entry's.
RootView(s, n) ==
  [node |-> n,
   attestations |-> {[by |-> a, verified |-> a.key \in s.witnesses[a.witness]] :
                       a \in s.roots[n]},
   quorate |-> RootAccepted(s, n)]

Roots(s) == {n \in NodeId : s.roots[n] # Absent}

\* GET /master-list.
MasterView(s) ==
  [m |-> s.m, k |-> Cardinality(WitnessSet(s)), witnesses |-> WitnessSet(s),
   entries |-> {RootView(s, n) : n \in Roots(s)}]

\* GET /anchor-bundle: one list and the master list, without any verdict.  The
\* query parameter jurisdiction is trimmed, and it has to be there.
AnchorBundle(s, spelling) ==
  LET name == OptQuery(spelling) IN
  IF name = Absent THEN BadRequest
  ELSE IF Upper[name] \notin Listed(s) THEN Absent
  ELSE LET entries == s.lists[Upper[name]].entries IN
       [entries |-> {[node |-> n, dates |-> entries[n]] :
                       n \in {x \in NodeId : entries[x] # Absent}},
        m |-> s.m, witnesses |-> WitnessSet(s),
        roots |-> {[node |-> n, attestations |-> s.roots[n]] : n \in Roots(s)}]

\* Mutant: the edges of a node are those it is the parent of.
OperatorViewOneWay(s, n, t) ==
  IF ~Registered(s, n) THEN Absent
  ELSE [keys        |-> s.nodes[n].keys,
        delegatedBy |-> {},
        delegates   |-> {e \in Elements(s.edges) : e.parent = n},
        memberships |-> {[jurisdiction |-> j, dates |-> s.lists[j].entries[n],
                          inForce |-> InForce(s.lists[j].entries[n], t)] :
                           j \in {x \in Listed(s) :
                                    s.lists[x].entries[n] # Absent}},
        attestedBy  |-> IF s.roots[n] = Absent THEN Absent
                        ELSE {a.witness : a \in s.roots[n]},
        revocations |-> {r \in Elements(s.ledger) :
                           r.subject.kind = "node" /\ r.subject.id = n}]

\* GET /operators/{node}.  An edge from a node to itself is in one list only.
OperatorView(s, n, t) ==
  IF ~Registered(s, n) THEN Absent
  ELSE [keys        |-> s.nodes[n].keys,
        delegatedBy |-> {e \in Elements(s.edges) : e.child = n},
        delegates   |-> {e \in Elements(s.edges) :
                           e.child # n /\ e.parent = n},
        memberships |-> {[jurisdiction |-> j, dates |-> s.lists[j].entries[n],
                          inForce |-> InForce(s.lists[j].entries[n], t)] :
                           j \in {x \in Listed(s) :
                                    s.lists[x].entries[n] # Absent}},
        attestedBy  |-> IF s.roots[n] = Absent THEN Absent
                        ELSE {a.witness : a \in s.roots[n]},
        revocations |-> {r \in Elements(s.ledger) :
                           r.subject.kind = "node" /\ r.subject.id = n}]

\* Mutant: skips one record too many.
LogPageLate(s, limit, offset) ==
  SubSeq(s.log, offset + 2,
         IF offset + limit < Len(s.log) THEN offset + limit ELSE Len(s.log))

\* GET /admin/log: the records after the first offset, at most limit.
LogPage(s, limit, offset) ==
  SubSeq(s.log, offset + 1,
         IF offset + limit < Len(s.log) THEN offset + limit ELSE Len(s.log))

\* The answer of POST /nodes: the node as it was posted, and the record's seq.
NodeAnswer(op, seq) ==
  [id |-> op.id, kind |-> op.kind, keys |-> op.keys, seq |-> seq]

-----------------------------------------------------------------------------
\* A 404 is none of the documents, and a jurisdiction is always a text.
Listing == [jurisdiction: Jurisdiction, framework: Framework,
            entries: SUBSET [node: NodeId, dates: Dates, inForce: BOOLEAN]]

Bundle == [entries: SUBSET [node: NodeId, dates: Dates], m: Nat,
           witnesses: SUBSET [node: NodeId, key: Key],
           roots: SUBSET [node: NodeId, attestations: SUBSET Witnessing]]

OperatorPage ==
  [keys: SUBSET Key, delegatedBy: SUBSET Credential,
   delegates: SUBSET Credential,
   memberships: SUBSET [jurisdiction: Jurisdiction, dates: Dates,
                        inForce: BOOLEAN],
   attestedBy: (SUBSET NodeId) \cup {Absent}, revocations: SUBSET Revocation]

ASSUME DocumentAssumption ==
  Absent \notin Spelling \cup Listing \cup Bundle \cup OperatorPage
=============================================================================
