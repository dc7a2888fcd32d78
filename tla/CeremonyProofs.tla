---------------------------- MODULE CeremonyProofs ----------------------------
(***************************************************************************)
(* The operator and the tool are clients of the store: with them it still  *)
(* behaves as TrustStore says, and what its theorems say holds here too.   *)
(* What the ledger says of the members who signed is true, as long as      *)
(* nobody outside the ceremonies has a group key (KeysHeld).               *)
(***************************************************************************)
EXTENDS Ceremony, LogProofs

\* The directory holds documents of runs, and the tool works on a run.
DirectoryInv ==
  /\ tool \in (Runs \X (1..3)) \cup {Absent}
  /\ files.node \in {NodeDocument(o) : o \in Runs} \cup {Absent}
  /\ files.revocation \in {RevocationDocument(o) : o \in Runs} \cup {Absent}
  /\ DOMAIN files = {"node", "revocation"}

\* Only the tool writes to the directory, and only documents of its run.
LEMMA DirectoryStep ==
  ASSUME DirectoryInv, [CNext]_<<vars, toolVars>>
  PROVE  DirectoryInv'
<1>1. CASE UNCHANGED toolVars
  BY <1>1 DEF DirectoryInv, toolVars
<1>2. ASSUME NEW o \in Runs, RunDeclare(o)
      PROVE  DirectoryInv'
  BY <1>2 DEF RunDeclare, DirectoryInv
<1>3. CASE WriteDocument
  <2>1. tool \in Runs \X (1..3)
    BY <1>3 DEF WriteDocument, DirectoryInv
  <2>2. PICK o \in Runs, n \in 1..3 : tool = <<o, n>> /\ tool[1] = o /\ tool[2] = n
    BY <2>1
  <2>3. tool' = IF n = 3 THEN Absent ELSE <<o, n + 1>>
    BY <1>3, <2>2 DEF WriteDocument
  <2>4. tool' \in (Runs \X (1..3)) \cup {Absent}
    BY <2>2, <2>3
  <2>5. \/ n = 1 /\ files' = [files EXCEPT !.node = NodeDocument(o)]
        \/ n = 2 /\ files' = [files EXCEPT !.revocation = RevocationDocument(o)]
        \/ n = 3 /\ files' = files
    BY <1>3, <2>2 DEF WriteDocument
  <2>6. /\ files'.node \in {NodeDocument(p) : p \in Runs} \cup {Absent}
        /\ files'.revocation \in {RevocationDocument(p) : p \in Runs} \cup {Absent}
        /\ DOMAIN files' = {"node", "revocation"}
    BY <2>2, <2>5 DEF DirectoryInv
  <2>7. QED BY <2>4, <2>6 DEF DirectoryInv
<1>4. CASE Stop
  BY <1>4 DEF Stop, DirectoryInv
<1>5. QED BY <1>1, <1>2, <1>3, <1>4 DEF CNext, Tool, toolVars

\* A step of the composition is a step of the store, or nothing to it.
LEMMA StepIsStoreStep ==
  ASSUME DirectoryInv, [CNext]_<<vars, toolVars>>
  PROVE  [Next]_vars
<1>1. CASE UNCHANGED vars
  BY <1>1
<1>2. CASE \E op \in Others : Serve(op)
  BY <1>2, CeremonyAssumption DEF Next
<1>3. CASE PostNode
  <2>1. files.node \in Requests
    BY <1>3, CeremonyAssumption DEF PostNode, DirectoryInv, Documents
  <2>2. Serve(files.node)
    BY <1>3 DEF PostNode, Serve
  <2>3. QED BY <2>1, <2>2 DEF Next
<1>4. CASE PostRevocation
  <2>1. files.revocation \in Requests
    BY <1>4, CeremonyAssumption DEF PostRevocation, DirectoryInv, Documents
  <2>2. Serve(files.revocation)
    BY <1>4 DEF PostRevocation, Serve
  <2>3. QED BY <2>1, <2>2 DEF Next
<1>5. CASE Open \/ Startup \/ Crash
  BY <1>5 DEF Next
<1>6. QED BY <1>1, <1>2, <1>3, <1>4, <1>5 DEF CNext, Server

\* With the ceremony tool and its operator as clients the store still
\* implements its own specification, for all runs, crashes and torn writes.
THEOREM CeremonyIsClient == CSpec => Spec
<1>1. CInit => Init /\ DirectoryInv
  BY DEF CInit, DirectoryInv
<1>2. DirectoryInv /\ [CNext]_<<vars, toolVars>> => DirectoryInv'
  BY DirectoryStep
<1>3. DirectoryInv /\ [CNext]_<<vars, toolVars>> => [Next]_vars
  BY StepIsStoreStep
<1>4. QED BY <1>1, <1>2, <1>3, PTL DEF CSpec, Spec

\* In particular no group-signed declaration is ever in the ledger without
\* its key in the graph, and only its quorum node undoes its verdict.
THEOREM CeremonyPinned == CSpec => []PinnedFirst /\ VerdictStable
BY CeremonyIsClient, KeysArePinned, VerdictsAreStable, PTL

-----------------------------------------------------------------------------
(* Who has signed.                                                         *)

\* A declaration under a group key is one that a ceremony has signed.
Honest(op) ==
  op.type = "declare-revocation" /\ ByGroup(op.revocation)
    => Ceremonies(op.revocation) # {}

LedgerSigned(s) ==
  \A i \in DOMAIN s.ledger : ByGroup(s.ledger[i]) => Ceremonies(s.ledger[i]) # {}

\* Whoever has signed was let to, what the tool has in hand or in the
\* directory is signed, and so is everything in memory and in every replay.
SignedInv ==
  /\ \A o \in signed : o \in Runs /\ Signs(o)
  /\ tool # Absent => tool[1] \in signed
  /\ files.revocation # Absent =>
       \E o \in signed : files.revocation = RevocationDocument(o)
  /\ mode = "seeding" => \A i \in DOMAIN todo : todo[i] \in Elements(Seeds)
  /\ LedgerSigned(store) /\ \A i \in DOMAIN hist : LedgerSigned(hist[i])

\* An honest record leaves a signed ledger signed.
LEMMA AbsorbSigned ==
  ASSUME NEW s \in Store, NEW rec \in AuditRecord, LedgerSigned(s), Honest(rec.op)
  PROVE  LedgerSigned(Absorb(s, rec))
<1> DEFINE op == rec.op  t == ApplyOp(s, op)
<1>1. op \in Op
  BY DEF AuditRecord
<1>2. t \in Store /\ \/ t.ledger = s.ledger
                     \/ /\ op.type = "declare-revocation"
                        /\ t.ledger = Append(s.ledger, op.revocation)
  BY <1>1, EffectType, EffectOnNodes DEF ApplyOp
<1>3. Absorb(s, rec) = [t EXCEPT !.log = Append(t.log, rec)]
  BY DEF Absorb
<1> HIDE DEF t, op
<1>4. Absorb(s, rec).ledger = t.ledger
  BY <1>2, <1>3 DEF Store
<1>5. CASE t.ledger = s.ledger
  BY <1>4, <1>5 DEF LedgerSigned
<1>6. CASE op.type = "declare-revocation" /\ t.ledger = Append(s.ledger, op.revocation)
  <2>1. s.ledger \in Seq(Revocation) /\ t.ledger \in Seq(Revocation)
    BY <1>2 DEF Store
  <2>2. ASSUME NEW i \in DOMAIN t.ledger
        PROVE  \/ t.ledger[i] = op.revocation
               \/ i \in DOMAIN s.ledger /\ t.ledger[i] = s.ledger[i]
    BY <1>6, <2>1
  <2>3. ByGroup(op.revocation) => Ceremonies(op.revocation) # {}
    BY <1>6 DEF Honest, op
  <2>4. QED BY <1>4, <2>2, <2>3 DEF LedgerSigned
<1>7. QED BY <1>2, <1>5, <1>6

\* Whatever is written of it.
LEMMA RecordKeepsSigned ==
  ASSUME StoreInv, NEW op \in Op, NEW rest, Record(op, rest), Honest(op),
         LedgerSigned(store), \A i \in DOMAIN hist : LedgerSigned(hist[i])
  PROVE  LedgerSigned(store') /\ \A i \in DOMAIN hist' : LedgerSigned(hist'[i])
<1> DEFINE rec == NewRec(op)
<1>1. rec \in AuditRecord /\ rec.op = op
  BY NewRecType DEF StoreInv, NewRec
<1>2. /\ store \in Store /\ hist \in Seq(Store)
      /\ TypeOK /\ HistIsReplay /\ OpenOnLine
      /\ Len(hist) \in DOMAIN hist
  BY DEF StoreInv, TypeOK, HistIsReplay
<1>3. /\ UNCHANGED disk \/ \E line \in Line : Written(op, line)
      /\ store' \in {Absorb(store, rec), EmptyStore}
  BY RecordWrites
<1> HIDE DEF rec
<1>4. \A i \in DOMAIN hist : LedgerSigned(Absorb(hist[i], rec))
  BY <1>1, <1>2, AbsorbSigned
<1>5. LedgerSigned(Absorb(store, rec))
  BY <1>1, <1>2, AbsorbSigned
<1>6. LedgerSigned(EmptyStore)
  BY DEF EmptyStore, LedgerSigned
<1>7. ASSUME NEW i \in DOMAIN hist'
      PROVE  LedgerSigned(hist'[i])
  <2>1. CASE UNCHANGED disk
    BY <1>7, <2>1 DEF disk
  <2>2. CASE \E line \in Line : Written(op, line)
    <3>1. PICK line \in Line, terminated \in BOOLEAN :
            /\ Put(line, terminated)
            /\ line.kind = "record" => line.rec = rec
      BY <2>2 DEF Written, rec
    <3>2. \/ \E j \in DOMAIN hist : hist'[i] = hist[j]
          \/ hist'[i] = Replayed(hist[Len(hist)], line)
      BY <1>2, <1>7, <3>1, PutExtends
    <3>3. Replayed(hist[Len(hist)], line)
            \in {hist[Len(hist)], Absorb(hist[Len(hist)], rec)}
      BY <3>1 DEF Replayed
    <3>4. QED BY <1>2, <1>4, <3>2, <3>3
  <2>3. QED BY <1>3, <2>1, <2>2
<1>8. QED BY <1>3, <1>5, <1>6, <1>7

\* The tool signs before it writes and writes only what it has signed.
LEMMA ToolKeepsSigned ==
  ASSUME DirectoryInv, SignedInv, Tool, UNCHANGED vars
  PROVE  SignedInv'
<1>1. signed \subseteq signed' /\ \A r : Ceremonies(r) \subseteq Ceremonies(r)'
  BY DEF Tool, RunDeclare, WriteDocument, Stop, Ceremonies
<1>2. /\ LedgerSigned(store)' /\ \A i \in DOMAIN hist' : LedgerSigned(hist[i])'
      /\ mode' = "seeding" => \A i \in DOMAIN todo' : todo'[i] \in Elements(Seeds)
  BY <1>1 DEF SignedInv, LedgerSigned, vars
<1>3. ASSUME NEW o \in Runs, RunDeclare(o)
      PROVE  SignedInv'
  <2>1. /\ \A p \in signed' : p \in Runs /\ Signs(p)
        /\ tool' # Absent => tool'[1] \in signed'
        /\ files'.revocation # Absent =>
             \E p \in signed' : files'.revocation = RevocationDocument(p)
    BY <1>3 DEF RunDeclare, SignedInv
  <2>2. QED BY <1>2, <2>1 DEF SignedInv, vars
<1>4. CASE WriteDocument
  <2>1. tool \in Runs \X (1..3) /\ tool[1] \in signed /\ signed' = signed
    BY <1>4 DEF WriteDocument, DirectoryInv, SignedInv
  <2>2. PICK o \in signed, n \in 1..3 : tool = <<o, n>> /\ tool[1] = o /\ tool[2] = n
    BY <2>1
  <2>3. tool' = IF n = 3 THEN Absent ELSE <<o, n + 1>>
    BY <1>4, <2>2 DEF WriteDocument
  <2>4. \/ n = 1 /\ files' = [files EXCEPT !.node = NodeDocument(o)]
        \/ n = 2 /\ files' = [files EXCEPT !.revocation = RevocationDocument(o)]
        \/ n = 3 /\ files' = files
    BY <1>4, <2>2 DEF WriteDocument
  <2>5. /\ tool' # Absent => tool'[1] \in signed'
        /\ files'.revocation # Absent =>
             \E p \in signed' : files'.revocation = RevocationDocument(p)
    BY <2>1, <2>2, <2>3, <2>4 DEF SignedInv, DirectoryInv
  <2>6. QED BY <1>2, <2>1, <2>5 DEF SignedInv, vars
<1>5. CASE Stop
  <2>1. /\ tool' = Absent /\ signed' = signed
        /\ files'.revocation \in {files.revocation, Absent}
    BY <1>5 DEF Stop, DirectoryInv
  <2>2. QED BY <1>2, <2>1 DEF SignedInv, vars
<1>6. QED BY <1>3, <1>4, <1>5 DEF Tool

\* A request that is served records its op, unless the store refuses it.
LEMMA ServedRecords ==
  ASSUME NEW op, Serve(op)
  PROVE  /\ mode = "serving" /\ Record(op, << >>)
         /\ op.type = "declare-revocation" => MayDeclare(store, op)
BY DEF Serve, RegisterNode, AddEdge, UpsertTrustEntry, SetWitnesses,
       UpsertMasterEntry, DeclareRevocation, RegisterEvidence, ReleaseEvidence,
       Asked

\* What the server records is honest, whoever asks for it.
LEMMA ServerIsHonest ==
  ASSUME KeysHeld, StoreInv, DirectoryInv, SignedInv, Server
  PROVE  \/ Idle
         \/ \E op \in Requests : Serve(op) /\ Honest(op)
         \/ /\ SeedNext /\ todo # << >> /\ Head(todo) \in Op /\ Honest(Head(todo))
            /\ mode = "seeding" /\ Record(Head(todo), Tail(todo))
<1>1. CASE Open \/ ReplayLine \/ ReplayRefused \/ ReplayDone \/ Crash
  BY <1>1 DEF Idle
<1>2. CASE SeedNext
  <2>1. /\ todo # << >> /\ todo \in Seq(Op) /\ mode = "seeding"
        /\ Record(Head(todo), Tail(todo))
    BY <1>2 DEF SeedNext, StoreInv, SeedingOps
  <2>2. Head(todo) \in Op /\ Head(todo) = todo[1] /\ 1 \in DOMAIN todo
    BY <2>1
  <2>3. Head(todo) \in Elements(Seeds)
    BY <2>1, <2>2 DEF SignedInv
  <2>4. Honest(Head(todo))
    BY <2>3 DEF KeysHeld, Honest
  <2>5. QED BY <1>2, <2>1, <2>2, <2>4
<1>3. CASE \E op \in Others : Serve(op)
  BY <1>3, CeremonyAssumption DEF KeysHeld, Honest
<1>4. CASE PostNode
  <2>1. files.node \in Requests
    BY <1>4, CeremonyAssumption DEF PostNode, DirectoryInv, Documents
  <2>2. Serve(files.node) /\ files.node.type = "register-node"
    BY <1>4 DEF PostNode, Serve, RegisterNode, Asked
  <2>3. QED BY <2>1, <2>2 DEF Honest
<1>5. CASE PostRevocation
  <2>1. files.revocation \in Requests
    BY <1>5, CeremonyAssumption DEF PostRevocation, DirectoryInv, Documents
  <2>2. Serve(files.revocation)
    BY <1>5 DEF PostRevocation, Serve
  <2>3. \E o \in signed : files.revocation = RevocationDocument(o)
    BY <1>5 DEF PostRevocation, SignedInv
  <2>4. Honest(files.revocation)
    BY <2>3 DEF Honest, Ceremonies
  <2>5. QED BY <2>1, <2>2, <2>4
<1>6. QED BY <1>1, <1>2, <1>3, <1>4, <1>5 DEF Server, Startup

\* So it all stays signed.
LEMMA ServerKeepsSigned ==
  ASSUME KeysHeld, StoreInv, DirectoryInv, SignedInv, Server, UNCHANGED toolVars
  PROVE  SignedInv'
<1>1. /\ \A o \in signed' : o \in Runs /\ Signs(o)
      /\ tool' # Absent => tool'[1] \in signed'
      /\ files'.revocation # Absent =>
           \E o \in signed' : files'.revocation = RevocationDocument(o)
  BY DEF SignedInv, toolVars
<1>2. SUFFICES
        /\ mode' = "seeding" => \A i \in DOMAIN todo' : todo'[i] \in Elements(Seeds)
        /\ LedgerSigned(store') /\ \A i \in DOMAIN hist' : LedgerSigned(hist'[i])
  <2>1. signed' = signed
    BY DEF toolVars
  <2>2. QED BY <1>1, <2>1 DEF SignedInv, LedgerSigned, Ceremonies
<1>3. LedgerSigned(store) /\ \A i \in DOMAIN hist : LedgerSigned(hist[i])
  BY DEF SignedInv
<1>4. LedgerSigned(EmptyStore)
  BY DEF EmptyStore, LedgerSigned
<1>5. CASE Idle
  <2>1. Quiet
    BY <1>5, QuietSteps
  <2>2. LedgerSigned(store') /\ \A i \in DOMAIN hist' : LedgerSigned(hist'[i])
    BY <1>3, <1>4, <2>1 DEF Quiet, disk
  <2>3. ASSUME mode' = "seeding", NEW i \in DOMAIN todo'
        PROVE  todo'[i] \in Elements(Seeds)
    <3>1. CASE ReplayDone
      <4>1. todo' \in {Seeds, << >>}
        BY <3>1 DEF ReplayDone
      <4>2. QED BY <2>3, <4>1 DEF Elements
    <3>2. CASE UNCHANGED vars
      BY <2>3, <3>2 DEF vars, SignedInv
    <3>3. CASE Open \/ ReplayLine \/ ReplayRefused \/ Crash \/ ListEntryRejected
      BY <2>3, <3>3 DEF Open, ReplayLine, ReplayRefused, Crash, Dead,
                        ListEntryRejected
    <3>4. QED BY <1>5, <3>1, <3>2, <3>3 DEF Idle
  <2>4. QED BY <2>2, <2>3
<1>6. ASSUME NEW op \in Requests, Serve(op), Honest(op)
      PROVE  /\ mode' # "seeding"
             /\ LedgerSigned(store') /\ \A i \in DOMAIN hist' : LedgerSigned(hist'[i])
  <2>1. op \in Op /\ mode = "serving" /\ Record(op, << >>)
    BY <1>6, ServedRecords, RequestsAssumption
  <2>2. mode' # "seeding"
    BY <2>1, RecordEnds
  <2>3. QED BY <1>3, <1>6, <2>1, <2>2, RecordKeepsSigned
<1>7. CASE /\ todo # << >> /\ Head(todo) \in Op /\ Honest(Head(todo))
           /\ mode = "seeding" /\ Record(Head(todo), Tail(todo))
  <2>1. LedgerSigned(store') /\ \A i \in DOMAIN hist' : LedgerSigned(hist'[i])
    BY <1>3, <1>7, RecordKeepsSigned
  <2>2. ASSUME mode' = "seeding", NEW i \in DOMAIN todo'
        PROVE  todo'[i] \in Elements(Seeds)
    <3>1. todo' = Tail(todo)
      BY <1>7, <2>2, RecordEnds
    <3>2. todo \in Seq(Op)
      BY <1>7 DEF StoreInv, SeedingOps
    <3>3. i + 1 \in DOMAIN todo /\ todo'[i] = todo[i + 1]
      BY <1>7, <2>2, <3>1, <3>2
    <3>4. QED BY <1>7, <3>3 DEF SignedInv
  <2>3. QED BY <2>1, <2>2
<1>8. QED BY <1>5, <1>6, <1>7, ServerIsHonest

\* No step of the tool, the operator, another client or a restart brings a
\* group signature that no ceremony made into the ledger or the directory.
LEMMA SignedStep ==
  ASSUME KeysHeld, StoreInv, DirectoryInv, SignedInv, [CNext]_<<vars, toolVars>>
  PROVE  SignedInv'
<1>1. CASE Tool /\ UNCHANGED vars
  BY <1>1, ToolKeepsSigned
<1>2. CASE Server /\ UNCHANGED toolVars
  BY <1>2, ServerKeepsSigned
<1>3. CASE UNCHANGED <<vars, toolVars>>
  BY <1>3 DEF vars, toolVars, SignedInv, LedgerSigned, Ceremonies
<1>4. QED BY <1>1, <1>2, <1>3 DEF CNext

\* As long as nobody else has a group key.
LEMMA SignedAlways ==
  ASSUME KeysHeld
  PROVE  CSpec => [](StoreInv /\ DirectoryInv /\ SignedInv)
<1>1. CInit => DirectoryInv /\ SignedInv
  BY DEF CInit, Init, DirectoryInv, SignedInv, LedgerSigned, EmptyStore
<1>2. DirectoryInv /\ [CNext]_<<vars, toolVars>> => DirectoryInv'
  BY DirectoryStep
<1>3. StoreInv /\ DirectoryInv /\ SignedInv /\ [CNext]_<<vars, toolVars>> => SignedInv'
  BY SignedStep
<1>4. QED BY <1>1, <1>2, <1>3, CeremonyIsClient, StoreInvariant, PTL DEF CSpec

\* Behind every group-signed declaration in the ledger is a ceremony of as many
\* distinct members of its quorum as it claims, whatever mixture of old and new
\* documents was posted and whatever the journal lost, as long as nobody else
\* has the group key (quorum-ceremony.rs:37).
THEOREM DeclarationsAreSigned ==
  ASSUME KeysHeld
  PROVE  CSpec => []DeclarationsSigned
<1>1. ASSUME StoreInv, SignedInv, LedgerRests(store)
      PROVE  DeclarationsSigned
  <2> SUFFICES ASSUME NEW r \in BySignature
               PROVE  \E o \in Ceremonies(r) :
                        Cardinality(Elements(o.signers) \cap Elements(o.members))
                          >= r.quorum.threshold
    BY DEF DeclarationsSigned
  <2>1. PICK i \in DOMAIN store.ledger : r = store.ledger[i]
    BY DEF BySignature, Elements
  <2>2. ByGroup(r)
    BY <1>1, <2>1 DEF BySignature, ByGroup, LedgerRests, Rests
  <2>3. PICK o \in signed : RevocationDocument(o).revocation = r
    BY <1>1, <2>1, <2>2 DEF SignedInv, LedgerSigned, Ceremonies
  <2>4. r.quorum.threshold = o.threshold /\ o \in Ceremonies(r)
    BY <2>3 DEF RevocationDocument, Ceremonies
  <2>5. Signs(o)
    BY <1>1, <2>3 DEF SignedInv
  <2>6. Elements(o.signers) \cap Elements(o.members) = Elements(o.signers)
    BY <2>5 DEF Signs, Acceptable
  <2>7. QED BY <2>4, <2>5, <2>6 DEF Signs, Aggregates
<1>2. QED
  BY <1>1, SignedAlways, CeremonyIsClient, LedgerRestsAlways, PTL

-----------------------------------------------------------------------------
(* What the graph asks for.                                                *)

\* A sequence has at most as many elements as places.
LEMMA ElementsBounded ==
  ASSUME NEW S, NEW s \in Seq(S)
  PROVE  IsFiniteSet(Elements(s)) /\ Cardinality(Elements(s)) \in Nat
           /\ Cardinality(Elements(s)) <= Len(s)
<1> DEFINE n == Len(s)
<1>1. n \in Nat /\ DOMAIN s = 1..n /\ s = [i \in 1..n |-> s[i]]
  OBVIOUS
<1>2. s \in [1..n -> Elements(s)] /\ \A x \in Elements(s) : \E i \in 1..n : s[i] = x
  BY <1>1 DEF Elements
<1>3. s \in Surjection(1..n, Elements(s))
  BY <1>2 DEF Surjection
<1>4. IsFiniteSet(1..n) /\ Cardinality(1..n) = n
  <2>1. n \in Int /\ 1 \in Int
    BY <1>1
  <2> HIDE DEF n
  <2>2. /\ IsFiniteSet(1..n)
        /\ Cardinality(1..n) = IF 1 > n THEN 0 ELSE n - 1 + 1
    BY <2>1, FS_Interval, Zenon
  <2>3. QED BY <1>1, <2>2
<1> HIDE DEF n
<1>5. IsFiniteSet(Elements(s)) /\ Cardinality(Elements(s)) <= n
  BY <1>3, <1>4, FS_Surjection
<1>6. QED BY <1>5, FS_CardinalityType DEF n

\* What the server appends to the log, in answer to a request, was let
\* through.
LEMMA AppendsServed ==
  ASSUME StoreInv, DirectoryInv, SignedInv, KeysHeld, Server, Appends,
         NewOp.type = "declare-revocation"
  PROVE  NewOp \in Op /\ MayDeclare(store, NewOp)
<1>1. mode = "serving" /\ store'.log # store.log /\ store'.log # << >>
  <2>1. Len(store.log) \in Nat
    BY DEF StoreInv, TypeOK, Store
  <2>2. QED BY <2>1 DEF Appends
<1>2. ~Idle
  BY <1>1 DEF Idle, Open, ReplayLine, ReplayRefused, ReplayDone, Crash, Dead,
              ListEntryRejected, vars, EmptyStore
<1>3. PICK op \in Requests : Serve(op)
  BY <1>1, <1>2, ServerIsHonest
<1>4. op \in Op /\ Record(op, << >>)
  BY <1>3, ServedRecords, RequestsAssumption
<1>5. store' = Absorb(store, NewRec(op))
  BY <1>1, <1>4, RecordWrites DEF EmptyStore
<1>6. NewRec(op) \in AuditRecord /\ NewRec(op).op = op /\ store \in Store
  BY <1>4, NewRecType DEF StoreInv, TypeOK, NewRec
<1>7. store'.log = Append(store.log, NewRec(op)) /\ store.log \in Seq(AuditRecord)
  BY <1>5, <1>6, AbsorbLog DEF Store
<1>8. NewOp = op
  BY <1>6, <1>7 DEF NewOp
<1>9. QED BY <1>3, <1>4, <1>8, ServedRecords

\* When a group-signed declaration of two or more is accepted, the graph asks
\* for exactly as many members as have signed: not for the number of an earlier
\* or a later ceremony, for all runs, other clients and faults (quorum.rs:137).
\* The one slot of the document cannot count as two members, so that the quorum
\* node itself must certify the claimed threshold.
THEOREM ThresholdIsMet ==
  ASSUME KeysHeld
  PROVE  CSpec => ThresholdMet
<1> DEFINE Met ==
      Appends /\ NewOp.type = "declare-revocation" =>
        LET r == NewOp.revocation IN
        r.retroactive /\ r.quorum.threshold >= 2 /\ Ceremonies(r) # {} =>
          \E o \in Ceremonies(r) :
            store.nodes[o.quorum].kind = Group(Cardinality(Elements(o.signers)))
<1>1. ASSUME StoreInv, DirectoryInv, SignedInv, [CNext]_<<vars, toolVars>>
      PROVE  Met
  <2> DEFINE r == NewOp.revocation
  <2> SUFFICES ASSUME Appends, NewOp.type = "declare-revocation",
                      r.retroactive, r.quorum.threshold >= 2, Ceremonies(r) # {}
               PROVE  \E o \in Ceremonies(r) :
                        store.nodes[o.quorum].kind
                          = Group(Cardinality(Elements(o.signers)))
    OBVIOUS
  <2>1. Server
    <3>1. Len(store.log) \in Nat
      BY <1>1 DEF StoreInv, TypeOK, Store
    <3>2. store' # store
      BY <3>1 DEF Appends
    <3>3. QED BY <1>1, <3>2 DEF CNext, vars
  <2>2. NewOp \in Op /\ MayDeclare(store, NewOp)
    BY <1>1, <2>1, AppendsServed
  <2>3. Quorate(store.nodes, r.quorum)
    BY <2>2 DEF MayDeclare
  <2>4. PICK o \in Ceremonies(r) : TRUE
    OBVIOUS
  <2>5. o \in Runs /\ Signs(o) /\ RevocationDocument(o).revocation = r
    BY <1>1, <2>4 DEF SignedInv, Ceremonies
  <2> DEFINE key == GroupKey[QuorumSpec(o)]
  <2>6. r.quorum = [node |-> o.quorum, threshold |-> o.threshold,
                    slots |-> {[key |-> key, good |-> TRUE]}]
    <3>1. RevocationDocument(o).revocation.quorum =
            [node |-> o.quorum, threshold |-> o.threshold,
             slots |-> {[key |-> key, good |-> TRUE]}]
      BY DEF RevocationDocument
    <3> HIDE DEF r, key
    <3>2. QED BY <2>5, <3>1
  <2>7. Cardinality(MemberKeys(store.nodes, r.quorum)) < 2
    <3>1. Signers(r.quorum) \subseteq {key}
      BY <2>6 DEF Signers
    <3>2. MemberKeys(store.nodes, r.quorum) \in SUBSET {key}
      BY <3>1 DEF MemberKeys
    <3>3. IsFiniteSet({key}) /\ Cardinality({key}) = 1
      BY FS_Singleton
    <3> HIDE DEF key, r
    <3>4. /\ IsFiniteSet(MemberKeys(store.nodes, r.quorum))
          /\ Cardinality(MemberKeys(store.nodes, r.quorum)) <= 1
      BY <3>2, <3>3, FS_Subset
    <3>5. Cardinality(MemberKeys(store.nodes, r.quorum)) \in Nat
      BY <3>4, FS_CardinalityType
    <3>6. QED BY <3>4, <3>5
  <2>8. o \in Options
    BY <2>5, CeremonyAssumption
  <2>9. Cardinality(Elements(o.signers)) = o.threshold
    <3>1. o.signers \in Seq(NodeId) /\ o.threshold \in Nat
      BY <2>8 DEF Options
    <3>2. /\ Cardinality(Elements(o.signers)) \in Nat
          /\ Cardinality(Elements(o.signers)) <= Len(o.signers)
      BY <3>1, ElementsBounded
    <3>3. QED BY <2>5, <3>1, <3>2 DEF Signs, Acceptable, Aggregates
  <2>10. GroupCertifies(store.nodes, r.quorum)
    <3>1. r.quorum.threshold = o.threshold /\ o.threshold \in Nat
      BY <2>6, <2>8 DEF Options
    <3>2. Cardinality(MemberKeys(store.nodes, r.quorum)) \in Nat
      <4>1. MemberKeys(store.nodes, r.quorum) \in SUBSET {key}
        BY <2>6 DEF MemberKeys, Signers
      <4>2. IsFiniteSet({key})
        BY FS_Singleton
      <4> HIDE DEF key, r
      <4>3. QED BY <4>1, <4>2, FS_Subset, FS_CardinalityType
    <3>3. ~(Cardinality(MemberKeys(store.nodes, r.quorum)) >= r.quorum.threshold)
      BY <2>7, <3>1, <3>2
    <3>4. QED BY <2>3, <3>3 DEF Quorate
  <2>11. store.nodes[o.quorum].kind = Group(o.threshold)
    BY <2>6, <2>10 DEF GroupCertifies
  <2>12. QED BY <2>4, <2>9, <2>11
<1>2. QED BY <1>1, SignedAlways, PTL DEF CSpec, ThresholdMet
=============================================================================
