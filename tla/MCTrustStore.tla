---------------------------- MODULE MCTrustStore ----------------------------
(***************************************************************************)
(* The requests TLC drives TrustStore with.  "q" is a quorum node, "a" and *)
(* "b" are members with a key each.                                        *)
(***************************************************************************)
EXTENDS TrustStore

MCUpper == [s \in {"eu", "EU"} |-> "EU"]

Put1(id, kind, keys) ==
  [type |-> "register-node", id |-> id, kind |-> kind, keys |-> keys]
NodeA  == Put1("a", Plain, {"ka"})
NodeA0 == Put1("a", Plain, {})
NodeB0 == Put1("b", Plain, {})
NodeB  == Put1("b", Plain, {"kb"})
NodeQ2 == Put1("q", Group(2), {})
NodeQA == Put1("q", Group(2), {"ka"})   \* pins a member's key on the quorum

Edge(p, c, k) ==
  [type |-> "add-edge", edge |-> [parent |-> p, child |-> c, key |-> k]]
EdgeAB == Edge("a", "b", "ka")
EdgeBB == Edge("b", "b", "kb")

List(s) == [type |-> "register-trust-list", name |-> s, framework |-> "none"]
Entry(s, n, d) ==
  [type |-> "upsert-trust-entry", name |-> s, node |-> n, dates |-> d]

Witnesses(m, ws) == [type |-> "set-witnesses", m |-> m, witnesses |-> ws]
TwoOfTwo  == Witnesses(2, << <<"a", "ka">>, <<"b", "kb">> >>)
Rotated   == Witnesses(1, << <<"a", "kb">> >>)
TwiceA    == Witnesses(2, << <<"a", "ka">>, <<"a", "kb">> >>)
ThreeOfTwo == Witnesses(3, << <<"a", "ka">>, <<"b", "kb">> >>)

Root(n, atts) ==
  [type |-> "upsert-master-entry", node |-> n, attestations |-> atts]
By(w, k) == [witness |-> w, key |-> k]

Good(ks) == {[key |-> k, good |-> TRUE] : k \in ks}
Declare(subject, retroactive, quorum) ==
  [type |-> "declare-revocation",
   revocation |-> [subject |-> subject, retroactive |-> retroactive,
                   quorum |-> quorum]]
Attest(t, slots) == [node |-> "q", threshold |-> t, slots |-> slots]
Prospective == Declare("s", FALSE, Absent)
Far         == Declare("far", FALSE, Absent)
NoQuorum    == Declare("s", TRUE, Absent)
ByMembers   == Declare("s", TRUE, Attest(2, Good({"ka", "kb"})))

Evidence(s) == [type |-> "register-evidence", id |-> "e", scope |-> s]
Release(s)  == [type |-> "evidence-released", id |-> "e", scope |-> s]

-----------------------------------------------------------------------------
\* Instances.

\* Every kind of request, among them ones the store must refuse.
AllRequests ==
  {NodeA, NodeQ2, EdgeAB, Entry("eu", "a", "d1"), TwoOfTwo, ThreeOfTwo,
   Rotated, Root("a", {By("a", "ka"), By("b", "kb")}), Root("b", {}),
   Prospective, NoQuorum, ByMembers,
   Evidence("audit"), Evidence("other"), Release("audit")}
AllBatches ==
  {[list |-> List("EU"), entries |-> << >>],
   [list |-> List("eu"),
    entries |-> <<Entry("eu", "a", "d1"), Malformed, Entry("eu", "b", "d1")>>],
   [list |-> List("eu"),
    entries |-> <<Entry("eu", "a", "d1"), Entry("eu", "a", "d2")>>]}

OneBatch == {[list |-> List("eu"), entries |-> <<Entry("eu", "a", "d1")>>]}

\* The master list.
MasterRequests ==
  {TwoOfTwo, TwiceA, Rotated, Root("a", {By("a", "ka"), By("b", "kb")}),
   Root("a", {By("a", "kb")}), Root("b", {}), NodeA}

\* Faults: a node of the seed registered again without its key, edges and a
\* release that depend on earlier records, a date whose line does not read
\* back.
FaultRequests ==
  {NodeA, NodeB0, EdgeAB, Evidence("audit"), Release("audit"), Far}
MCUnreadable == {Far}

\* A seed whose second op depends on its first.
EdgeSeeds == <<NodeB, EdgeBB>>

TwoSeeds == <<NodeA, NodeB>>

NoBatches == {}
NoSeeds == << >>
=============================================================================
