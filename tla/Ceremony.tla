------------------------------- MODULE Ceremony -------------------------------
(***************************************************************************)
(* src/bin/quorum-ceremony.rs next to the running store: an operator runs  *)
(* the tool, which signs a retroactive revocation with the group key of a  *)
(* quorum and writes its documents one after the other, and posts what is  *)
(* in the directory to POST /nodes and POST /revocations, in any order and *)
(* as often as they like.  The tool may be killed between two documents or *)
(* in the middle of one; the server crashes and restarts as in TrustStore. *)
(*                                                                         *)
(* The cryptography is external: rounds, partials and the aggregation give *)
(* one signature under the group key, or a refusal below the threshold.    *)
(***************************************************************************)
EXTENDS TrustStore

CONSTANTS
  Runs,      \* the command lines the tool is run with
  GroupKey,  \* the key of a quorum: the tool derives it from the public spec
  Others,    \* ops that other clients ask for
  MaxRuns    \* bound: command lines that are run, each as often as one likes

\* struct Options, as far as it is not copied into the statement unseen.
Options ==
  [quorum: NodeId, threshold: Nat, members: Seq(NodeId), signers: Seq(NodeId),
   subject: Subject, retroactive: BOOLEAN]

\* A QuorumSpec: who, how many, of whom.
QuorumSpec(o) == <<o.quorum, o.threshold, Elements(o.members)>>

\* The two documents the operator posts: quorum-node.json pins the group key,
\* revocation.json carries the group's signature as its one slot.
NodeDocument(o) ==
  [type |-> "register-node", id |-> o.quorum, kind |-> Group(o.threshold),
   keys |-> {GroupKey[QuorumSpec(o)]}]

RevocationDocument(o) ==
  [type |-> "declare-revocation",
   revocation |->
     [subject |-> o.subject, retroactive |-> o.retroactive,
      quorum |-> [node |-> o.quorum, threshold |-> o.threshold,
                  slots |-> {[key |-> GroupKey[QuorumSpec(o)], good |-> TRUE]}]]]

Documents ==
  {NodeDocument(o) : o \in Runs} \cup {RevocationDocument(o) : o \in Runs}

ASSUME CeremonyAssumption ==
  /\ Runs \subseteq Options
  /\ \A o \in Runs : GroupKey[QuorumSpec(o)] \in Key
  /\ Others \subseteq Requests
  /\ Documents \subseteq Requests
  /\ Absent \notin Documents
  /\ Absent \notin Options \X (1..3)
  /\ MaxRuns \in Nat

VARIABLES
  tool,    \* <<options, document it writes next>> of a run that has signed
  files,   \* the two documents in the directory; Absent: none, or cut short
  signed   \* history: the runs whose group signature was made

toolVars == <<tool, files, signed>>

CInit ==
  /\ Init
  /\ tool = Absent /\ files = [node |-> Absent, revocation |-> Absent]
  /\ signed = {}

-----------------------------------------------------------------------------
\* What declare() asks of its command line before it starts a session.
Acceptable(o) ==
  /\ o.threshold # 0
  /\ Len(o.members) >= 2
  /\ o.signers # << >>
  /\ Len(o.signers) <= o.threshold
  /\ o.retroactive
  /\ Elements(o.signers) \subseteq Elements(o.members)

\* External: the aggregation has a partial of threshold distinct members.
Aggregates(o) == Cardinality(Elements(o.signers)) >= o.threshold

\* Mutant: whoever is listed first signs for all.
SignsAlone(o) == Acceptable(o)

\* A run that gets as far as its output; a refused one changes nothing.
Signs(o) == Acceptable(o) /\ Aggregates(o)

RunDeclare(o) ==
  /\ tool = Absent /\ Cardinality(signed \cup {o}) <= MaxRuns
  /\ Signs(o)
  /\ tool' = <<o, 1>> /\ signed' = signed \cup {o}
  /\ UNCHANGED files

\* quorum-node.json, then revocation.json, then ceremony.json, an audit trail
\* that no program reads.  Overwriting truncates, so a write cut short leaves
\* nothing that can be posted.
WriteDocument ==
  /\ tool # Absent
  /\ LET o == tool[1] n == tool[2] IN
     /\ files' = CASE n = 1 -> [files EXCEPT !.node = NodeDocument(o)]
                   [] n = 2 -> [files EXCEPT !.revocation = RevocationDocument(o)]
                   [] n = 3 -> files
     /\ tool' = IF n = 3 THEN Absent ELSE <<o, n + 1>>
  /\ UNCHANGED signed

\* An I/O error, or the tool is killed: what was written stays.
Stop ==
  /\ tool # Absent /\ tool' = Absent
  /\ \/ UNCHANGED files
     \/ tool[2] = 1 /\ files' = [files EXCEPT !.node = Absent]
     \/ tool[2] = 2 /\ files' = [files EXCEPT !.revocation = Absent]
  /\ UNCHANGED signed

Tool == (\E o \in Runs : RunDeclare(o)) \/ WriteDocument \/ Stop

\* The operator posts a document; one the store refuses changes nothing.
PostNode == files.node # Absent /\ RegisterNode(files.node)

PostRevocation == files.revocation # Absent /\ DeclareRevocation(files.revocation)

Server ==
  \/ Open \/ Startup \/ Crash
  \/ \E op \in Others : Serve(op)
  \/ PostNode \/ PostRevocation

CNext ==
  \/ Tool /\ UNCHANGED vars
  \/ Server /\ UNCHANGED toolVars

CSpec == CInit /\ [][CNext]_<<vars, toolVars>>

-----------------------------------------------------------------------------
(* Properties.                                                             *)

GroupKeys == {GroupKey[QuorumSpec(o)] : o \in Runs}

\* A declaration that rests on a signature under one of them.
ByGroup(r) ==
  r.retroactive /\ r.quorum # Absent /\ Signers(r.quorum) \cap GroupKeys # {}

\* Nobody else has these keys: what other clients declare, or the seed, is
\* signed by other ones.
KeysHeld ==
  \A op \in Others \cup Elements(Seeds) :
    op.type = "declare-revocation" => ~ByGroup(op.revocation)

\* The declarations in the ledger that a ceremony signed.
BySignature ==
  {r \in Elements(store.ledger) :
     r.retroactive /\ Signers(r.quorum) \cap GroupKeys # {}}

\* The runs that made the signature of r.
Ceremonies(r) == {o \in signed : RevocationDocument(o).revocation = r}

\* "a qualifying set of fewer than --threshold signers is refused by the
\* ceremony itself": behind every group-signed declaration in the ledger are
\* as many distinct members of its quorum as it claims, whatever mixture of
\* old and new documents was posted (quorum-ceremony.rs:37).
DeclarationsSigned ==
  \A r \in BySignature :
    \E o \in Ceremonies(r) :
      Cardinality(Elements(o.signers) \cap Elements(o.members))
        >= r.quorum.threshold

\* When a group-signed declaration of two or more is accepted, the graph asks
\* for exactly as many members as have signed: not for the number of an
\* earlier or a later ceremony (quorum.rs:137, tests/quorum.rs:414).
ThresholdMet ==
  [][Appends /\ NewOp.type = "declare-revocation" =>
       LET r == NewOp.revocation IN
       r.retroactive /\ r.quorum.threshold >= 2 /\ Ceremonies(r) # {} =>
         \E o \in Ceremonies(r) :
           store.nodes[o.quorum].kind = Group(Cardinality(Elements(o.signers)))
    ]_<<vars, toolVars>>
=============================================================================
