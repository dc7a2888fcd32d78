--------------------------- MODULE RefinementProofs ---------------------------
(***************************************************************************)
(* What the typed entry points let through applies, live and in every      *)
(* later replay; TrustStore implements AuditedStore when no write is cut   *)
(* short or fails; the seed is recorded at most once, whatever was lost.   *)
(* For all requests, seeds, crashes and restarts.  The first two need seed *)
(* ops that apply one after the other (SeedsApply), which the eighteen of  *)
(* src/seed.rs do (SeedsOfSourceApply); the last one needs that nobody     *)
(* asks for what the seed records anyway (SeedsApart).                     *)
(***************************************************************************)
EXTENDS StoreRefinement, SeedFixtures, LogProofs, SequenceTheorems

\* Two stores that differ at most in their logs.
Same(s, t) ==
  /\ t.nodes = s.nodes /\ t.edges = s.edges /\ t.lists = s.lists
  /\ t.m = s.m /\ t.witnesses = s.witnesses /\ t.roots = s.roots
  /\ t.ledger = s.ledger /\ t.evidence = s.evidence

\* That is, two stores of one content.
LEMMA SameContent ==
  ASSUME NEW s \in Store, NEW t \in Store
  PROVE  Same(s, t) <=> Content(s) = Content(t)
BY DEF Store, Content, Same

\* No op looks at the log to see whether it applies ...
LEMMA SameApplies ==
  ASSUME NEW s, NEW t, Same(s, t), NEW op
  PROVE  Applies(t, op) <=> Applies(s, op)
BY DEF Same, Applies, EdgeAccepted, Registered, ListKnown, WitnessesKnown,
              RevocationSound

\* ... nor to see what it does.
LEMMA SameEffect ==
  ASSUME NEW s \in Store, NEW t \in Store, Same(s, t), NEW op \in Op
  PROVE  Same(Effect(s, op), Effect(t, op))
<1>4. CASE op.type = "register-node"
  BY <1>4 DEF Store, Effect, PutNode, Same
<1>5. CASE op.type = "add-edge"
  BY <1>5 DEF Store, Effect, PutEdge, Same
<1>6. CASE op.type = "register-trust-list"
  BY <1>6 DEF Store, Effect, PutList, Same
<1>7. CASE op.type = "upsert-trust-entry"
  BY <1>7 DEF Store, Effect, PutEntry, Same
<1>8. CASE op.type = "set-witnesses"
  BY <1>8 DEF Store, Effect, PutWitnesses, Same
<1>9. CASE op.type = "upsert-master-entry"
  BY <1>9 DEF Store, Effect, PutRoot, Same
<1>10. CASE op.type = "declare-revocation"
  BY <1>10 DEF Store, Effect, PutRevocation, Same
<1>11. CASE op.type = "register-evidence"
  BY <1>11 DEF Store, Effect, PutEvidence, Same
<1>12. CASE op.type = "evidence-released"
  BY <1>12 DEF Effect
<1>13. QED
  BY <1>4, <1>5, <1>6, <1>7, <1>8, <1>9, <1>10, <1>11, <1>12 DEF Op
-----------------------------------------------------------------------------
\* The seed ops apply one after the other, from an empty store.
SeedRun(f) ==
  /\ f \in [0..Len(Seeds) -> Store] /\ f[0] = EmptyStore
  /\ \A k \in 1..Len(Seeds) :
       Applies(f[k - 1], Seeds[k]) /\ f[k] = Effect(f[k - 1], Seeds[k])

SeedsApply == \E f : SeedRun(f)

\* A record whose op applies has the effect of the op.
LEMMA AbsorbSame ==
  ASSUME NEW s \in Store, NEW rec \in AuditRecord, Applies(s, rec.op)
  PROVE  Same(Effect(s, rec.op), Absorb(s, rec))
<1> DEFINE t == Effect(s, rec.op)
<1>1. rec.op \in Op
  BY DEF AuditRecord
<1>2. t \in Store
  BY <1>1, EffectType
<1>3. Absorb(s, rec) = [t EXCEPT !.log = Append(t.log, rec)]
  BY DEF Absorb, ApplyOp
<1> HIDE DEF t
<1>4. Same(t, Absorb(s, rec))
  BY <1>2, <1>3 DEF Same, Store
<1>5. QED BY <1>4 DEF t

\* A store without records is the empty one.
Bare(s) == s.log = << >> => s = EmptyStore

BlankInv == Bare(store) /\ \A i \in DOMAIN hist : Bare(hist[i])

\* So the store that is seeded is the empty one, in every process.
LEMMA BlankStep == StoreInv /\ BlankInv /\ [Next]_vars => BlankInv'
<1> SUFFICES ASSUME StoreInv, BlankInv, [Next]_vars PROVE BlankInv'
  OBVIOUS
<1>0. Bare(EmptyStore)
  BY DEF Bare
<1>1. CASE Quiet
  BY <1>0, <1>1 DEF Quiet, disk, BlankInv
<1>2. CASE Recording
  <2>1. PICK op, rest : op \in Op /\ Record(op, rest)
    BY <1>2 DEF Recording
  <2> DEFINE rec == NewRec(op)
  <2>2. rec \in AuditRecord
    BY <2>1, NewRecType DEF StoreInv
  <2>3. /\ UNCHANGED disk \/ \E line \in Line : Written(op, line)
        /\ store' \in {Absorb(store, rec), EmptyStore}
    BY <2>1, RecordWrites
  <2>4. /\ store \in Store /\ hist \in Seq(Store) /\ Len(hist) \in DOMAIN hist
        /\ TypeOK /\ HistIsReplay /\ OpenOnLine
    BY DEF StoreInv, TypeOK, HistIsReplay
  <2> HIDE DEF rec
  <2>5. ASSUME NEW s \in Store
        PROVE  Bare(Absorb(s, rec))
    <3>1. Absorb(s, rec).log = Append(s.log, rec) /\ s.log \in Seq(AuditRecord)
      BY <2>2, AbsorbLog DEF Store
    <3>2. Append(s.log, rec) # << >>
      BY <3>1
    <3>3. QED BY <3>1, <3>2 DEF Bare
  <2>6. Bare(store')
    BY <1>0, <2>3, <2>4, <2>5
  <2>7. ASSUME NEW i \in DOMAIN hist'
        PROVE  Bare(hist'[i])
    <3>1. CASE UNCHANGED disk
      BY <2>7, <3>1 DEF disk, BlankInv
    <3>2. CASE \E line \in Line : Written(op, line)
      <4>1. PICK line \in Line, terminated \in BOOLEAN :
              /\ Put(line, terminated)
              /\ line.kind = "record" => line.rec = rec
        BY <3>2 DEF Written, rec
      <4>2. \/ \E j \in DOMAIN hist : hist'[i] = hist[j]
            \/ hist'[i] = Replayed(hist[Len(hist)], line)
        BY <2>4, <2>7, <4>1, PutExtends
      <4>3. hist[Len(hist)] \in Store
        BY <2>4
      <4>4. Bare(Replayed(hist[Len(hist)], line))
        BY <2>4, <2>5, <4>1, <4>3 DEF Replayed, BlankInv
      <4>5. QED BY <4>2, <4>4 DEF BlankInv
    <3>3. QED BY <2>3, <3>1, <3>2
  <2>8. QED BY <2>6, <2>7 DEF BlankInv
<1>3. QED BY <1>1, <1>2, QuietOrRecording

\* Memory is where the seed ops have got to.
SeedingAt(f) ==
  mode = "seeding" =>
    \E k \in 0..(Len(Seeds) - 1) :
      todo = SubSeq(Seeds, k + 1, Len(Seeds)) /\ Same(f[k], store)

\* What a request has left to record are entries of its trust list.
HeldEntries ==
  mode = "serving" =>
    OnlyEntries(todo) /\ Elements(todo) \subseteq AskedOps \cup {Malformed}

\* What a lock holder records applies.
Admitted ==
  /\ mode \in {"seeding", "serving"}
  /\ \E op \in AskedOps \cap Op : \E rest :
       Record(op, rest) /\ Applies(store, op)

\* The next seed op applies to what the earlier ones have made.
LEMMA NextSeed ==
  ASSUME NEW f, SeedRun(f), StoreInv, SeedingAt(f), mode = "seeding"
  PROVE  \E k \in 1..Len(Seeds) :
           /\ todo = SubSeq(Seeds, k, Len(Seeds)) /\ todo # << >>
           /\ Head(todo) = Seeds[k]
           /\ Tail(todo) = SubSeq(Seeds, k + 1, Len(Seeds))
           /\ Seeds[k] \in Op
           /\ Applies(store, Seeds[k])
           /\ f[k - 1] \in Store /\ Same(f[k - 1], store)
           /\ f[k] = Effect(f[k - 1], Seeds[k])
<1>1. Seeds \in Seq(Op) /\ Len(Seeds) \in Nat
  BY RequestsAssumption
<1>2. PICK j \in 0..(Len(Seeds) - 1) :
        todo = SubSeq(Seeds, j + 1, Len(Seeds)) /\ Same(f[j], store)
  BY DEF SeedingAt
<1> DEFINE k == j + 1
<1>3. k \in 1..Len(Seeds) /\ k - 1 = j /\ Seeds[k] \in Op
  BY <1>1
<1>4. /\ Applies(f[k - 1], Seeds[k]) /\ f[k] = Effect(f[k - 1], Seeds[k])
      /\ f[k - 1] \in Store
  BY <1>3 DEF SeedRun
<1>5. Applies(store, Seeds[k])
  BY <1>2, <1>3, <1>4, SameApplies
<1>6. /\ Head(todo) = Seeds[k]
      /\ Tail(todo) = SubSeq(Seeds, k + 1, Len(Seeds))
  BY <1>1, <1>2, <1>3, HeadTailOfSubSeq
<1>7. todo # << >>
  <2>1. Len(todo) = Len(Seeds) - k + 1
    BY <1>1, <1>2, <1>3
  <2>2. QED BY <1>1, <1>3, <2>1
<1>8. QED BY <1>2, <1>3, <1>4, <1>5, <1>6, <1>7

\* What the entry points let through applies; so do the seed ops.
LEMMA IdleOrAdmitted ==
  ASSUME NEW f, SeedRun(f), StoreInv, SeedingAt(f), HeldEntries, [Next]_vars
  PROVE  Idle \/ Admitted
<1>1. CASE SeedNext
  <2>1. mode = "seeding" /\ Record(Head(todo), Tail(todo))
    BY <1>1 DEF SeedNext
  <2>2. PICK k \in 1..Len(Seeds) :
          Head(todo) = Seeds[k] /\ Seeds[k] \in Op /\ Applies(store, Seeds[k])
    BY <2>1, NextSeed
  <2>3. Head(todo) \in AskedOps
    BY <2>2, RequestsAssumption DEF AskedOps, Elements
  <2>4. QED BY <2>1, <2>2, <2>3 DEF Admitted
<1>2. ASSUME NEW op \in Requests, Serve(op)
      PROVE  Admitted
  <2>1. op \in AskedOps \cap Op
    BY RequestsAssumption DEF AskedOps
  <2>2. mode = "serving" /\ Record(op, << >>)
    BY <1>2 DEF Serve, RegisterNode, AddEdge, UpsertTrustEntry, SetWitnesses,
                UpsertMasterEntry, DeclareRevocation, RegisterEvidence,
                ReleaseEvidence, Asked
  <2> SUFFICES Applies(store, op)
    BY <2>1, <2>2 DEF Admitted
  <2>3. CASE RegisterNode(op) \/ ReleaseEvidence(op)
    BY <2>3 DEF RegisterNode, ReleaseEvidence, Asked, Applies
  <2>4. CASE AddEdge(op)
    BY <2>4 DEF AddEdge, Asked, MayAddEdge, Applies
  <2>5. CASE UpsertTrustEntry(op)
    BY <2>5 DEF UpsertTrustEntry, Asked, MayUpsertEntry, Applies, ListKnown
  <2>6. CASE SetWitnesses(op)
    <3>1. op.m \in Nat /\ Len(op.witnesses) \in Nat
      BY <2>1, <2>6 DEF SetWitnesses, Asked, Op
    <3>2. QED BY <2>6, <3>1 DEF SetWitnesses, Asked, MaySetWitnesses, Applies,
                             WitnessSetSound
  <2>7. CASE UpsertMasterEntry(op)
    BY <2>7 DEF UpsertMasterEntry, Asked, MayUpsertRoot, Applies, WitnessesKnown
  <2>8. CASE DeclareRevocation(op)
    BY <2>8 DEF DeclareRevocation, Asked, MayDeclare, Applies, RevocationSound
  <2>9. CASE RegisterEvidence(op)
    BY <2>9 DEF RegisterEvidence, Asked, MayRegisterEvidence, Applies
  <2>10. QED
    BY <1>2, <2>3, <2>4, <2>5, <2>6, <2>7, <2>8, <2>9 DEF Serve
<1>3. ASSUME NEW b \in Batches, RegisterTrustList(b)
      PROVE  Admitted
  <2>1. b.list \in AskedOps \cap Op
    BY RequestsAssumption DEF AskedOps
  <2>2. mode = "serving" /\ Record(b.list, b.entries)
    BY <1>3 DEF RegisterTrustList, Asked
  <2>3. Applies(store, b.list)
    BY <1>3 DEF RegisterTrustList, Asked, MayRegisterList, Applies, ListKnown
  <2>4. QED BY <2>1, <2>2, <2>3 DEF Admitted
<1>4. CASE ListEntry
  <2> DEFINE op == Head(todo)
  <2>1. /\ mode = "serving" /\ Record(op, Tail(todo))
        /\ todo # << >> /\ op # Malformed /\ MayUpsertEntry(store, op)
    BY <1>4 DEF ListEntry
  <2>2. /\ todo \in Seq(Op \cup {Malformed}) /\ OnlyEntries(todo)
        /\ Elements(todo) \subseteq AskedOps \cup {Malformed}
    BY <2>1 DEF StoreInv, TypeOK, HeldEntries
  <2>3. op \in AskedOps \cap Op /\ op.type = "upsert-trust-entry"
    <3>1. op = todo[1] /\ 1 \in DOMAIN todo /\ todo[1] \in Op \cup {Malformed}
      BY <2>1, <2>2
    <3>2. QED BY <2>1, <2>2, <3>1 DEF OnlyEntries, Elements
  <2>4. Applies(store, op)
    BY <2>1, <2>3 DEF MayUpsertEntry, Applies, ListKnown
  <2>5. QED BY <2>1, <2>3, <2>4 DEF Admitted
<1>5. QED BY <1>1, <1>2, <1>3, <1>4 DEF Next, Startup, Idle

\* Whatever the step, a lock holder has such ops left to record.
LEMMA HolderStep ==
  ASSUME NEW f, SeedRun(f), StoreInv, BlankInv, SeedingAt(f), HeldEntries,
         [Next]_vars
  PROVE  SeedingAt(f)' /\ HeldEntries'
<1> USE DEF HeldEntries
<1>1. CASE \/ Open \/ ReplayLine \/ ReplayRefused \/ Crash
           \/ ListEntryRejected \/ UNCHANGED vars
  <2>1. CASE Open \/ ReplayLine \/ ReplayRefused \/ Crash
    BY <2>1 DEF Open, ReplayLine, ReplayRefused, Crash, Dead, SeedingAt
  <2>2. CASE ListEntryRejected
    BY <2>2 DEF ListEntryRejected, SeedingAt, OnlyEntries, Elements
  <2>3. CASE UNCHANGED vars
    BY <2>3 DEF vars, SeedingAt, OnlyEntries, Elements
  <2>4. QED BY <1>1, <2>1, <2>2, <2>3
<1>2. CASE ReplayDone
  <2>1. /\ store' = store
        /\ todo' = IF store.log = << >> THEN Seeds ELSE << >>
        /\ mode' = IF todo' = << >> THEN "serving" ELSE "seeding"
    BY <1>2 DEF ReplayDone
  <2>2. ASSUME mode' = "seeding"
        PROVE  /\ todo' = SubSeq(Seeds, 1, Len(Seeds))
               /\ 0 \in 0..(Len(Seeds) - 1) /\ Same(f[0], store')
    <3>1. todo' = Seeds /\ Seeds # << >> /\ store = EmptyStore
      BY <2>1, <2>2 DEF BlankInv, Bare
    <3>2. Seeds \in Seq(Op)
      BY RequestsAssumption
    <3>3. SubSeq(Seeds, 1, Len(Seeds)) = Seeds /\ Len(Seeds) > 0
      BY <3>1, <3>2, SubSeqFull
    <3>4. Same(f[0], store')
      BY <2>1, <3>1 DEF SeedRun, Same
    <3>5. QED BY <3>1, <3>2, <3>3, <3>4
  <2>3. SeedingAt(f)'
    BY <2>2 DEF SeedingAt
  <2>4. mode' = "serving" => todo' = << >>
    BY <2>1
  <2>5. QED BY <2>3, <2>4 DEF OnlyEntries, Elements
<1>3. CASE SeedNext
  <2>1. mode = "seeding" /\ Record(Head(todo), Tail(todo))
    BY <1>3 DEF SeedNext
  <2>2. PICK k \in 1..Len(Seeds) :
          /\ Head(todo) = Seeds[k] /\ Seeds[k] \in Op
          /\ Tail(todo) = SubSeq(Seeds, k + 1, Len(Seeds))
          /\ Applies(store, Seeds[k])
          /\ f[k - 1] \in Store /\ Same(f[k - 1], store)
          /\ f[k] = Effect(f[k - 1], Seeds[k])
    BY <2>1, NextSeed
  <2> DEFINE op   == Seeds[k]
             rest == Tail(todo)
  <2>3. CASE mode' = "down"
    BY <2>3 DEF SeedingAt
  <2>4. CASE /\ store' = Absorb(store, NewRec(op)) /\ todo' = rest
             /\ mode' = IF rest = << >> THEN "serving" ELSE mode
    <3>1. NewRec(op) \in AuditRecord /\ NewRec(op).op = op /\ store \in Store
      BY <2>2, NewRecType DEF NewRec, StoreInv, TypeOK
    <3>2. /\ Same(Effect(f[k - 1], op), Effect(store, op))
          /\ Same(Effect(store, op), Absorb(store, NewRec(op)))
      BY <2>2, <3>1, SameEffect, AbsorbSame
    <3>3. Same(f[k], store')
      BY <2>2, <2>4, <3>2 DEF Same
    <3>4. rest # << >> => k \in 0..(Len(Seeds) - 1)
      <4>1. Len(Seeds) \in Nat
        BY RequestsAssumption
      <4>2. k = Len(Seeds) => rest = << >>
        BY <2>2, <4>1, SubSeqEmpty
      <4>3. QED BY <4>1, <4>2
    <3>5. SeedingAt(f)'
      BY <2>2, <2>4, <3>3, <3>4 DEF SeedingAt
    <3>6. mode' = "serving" => todo' = << >>
      BY <2>1, <2>4
    <3>7. QED BY <3>5, <3>6 DEF OnlyEntries, Elements
  <2>5. QED BY <2>1, <2>2, <2>3, <2>4, RecordEnds
<1>4. ASSUME NEW op \in Op, NEW rest, mode = "serving", Record(op, rest),
             OnlyEntries(rest), Elements(rest) \subseteq AskedOps \cup {Malformed}
      PROVE  SeedingAt(f)' /\ HeldEntries'
  <2>1. mode' = "down" \/ (mode' = "serving" /\ todo' = rest)
    BY <1>4, RecordEnds
  <2>2. QED BY <1>4, <2>1 DEF SeedingAt, OnlyEntries, Elements
<1>5. CASE \E op \in Requests : Serve(op)
  <2>1. PICK op \in Requests : mode = "serving" /\ Record(op, << >>)
    BY <1>5 DEF Serve, RegisterNode, AddEdge, UpsertTrustEntry, SetWitnesses,
                UpsertMasterEntry, DeclareRevocation, RegisterEvidence,
                ReleaseEvidence, Asked
  <2>2. op \in Op
    BY RequestsAssumption
  <2>3. OnlyEntries(<< >>) /\ Elements(<< >>) = {}
    BY DEF OnlyEntries, Elements
  <2>4. QED BY <1>4, <2>1, <2>2, <2>3
<1>6. CASE \E b \in Batches : RegisterTrustList(b)
  <2>1. PICK b \in Batches : mode = "serving" /\ Record(b.list, b.entries)
    BY <1>6 DEF RegisterTrustList, Asked
  <2>2. b.list \in Op /\ OnlyEntries(b.entries)
    BY RequestsAssumption
  <2>3. Elements(b.entries) \subseteq AskedOps \cup {Malformed}
    BY DEF AskedOps
  <2>4. QED BY <1>4, <2>1, <2>2, <2>3
<1>7. CASE ListEntry
  <2>1. /\ mode = "serving" /\ todo # << >> /\ Head(todo) # Malformed
        /\ Record(Head(todo), Tail(todo))
    BY <1>7 DEF ListEntry
  <2>2. /\ todo \in Seq(Op \cup {Malformed}) /\ OnlyEntries(todo)
        /\ Elements(todo) \subseteq AskedOps \cup {Malformed}
    BY <2>1 DEF StoreInv, TypeOK, HeldEntries
  <2>3. Head(todo) \in Op
    BY <2>1, <2>2, RestOfTodo
  <2>4. \A i \in DOMAIN Tail(todo) : \E j \in DOMAIN todo : Tail(todo)[i] = todo[j]
    BY <2>1, <2>2
  <2>5. OnlyEntries(Tail(todo)) /\ Elements(Tail(todo)) \subseteq Elements(todo)
    BY <2>2, <2>4 DEF OnlyEntries, Elements
  <2>6. QED BY <1>4, <2>1, <2>2, <2>3, <2>5
<1>8. QED
  BY <1>1, <1>2, <1>3, <1>5, <1>6, <1>7 DEF Next, Startup

\* On an intact journal memory is the last state of the replay, so the op that
\* applies to memory applies in every replay.
LEMMA SkipStep ==
  ASSUME NEW f, SeedRun(f), StoreInv, PlaceInv, SeedingAt(f), HeldEntries,
         NothingSkipped, [Next]_vars
  PROVE  NothingSkipped'
<1>1. CASE Quiet
  BY <1>1 DEF Quiet, disk, NothingSkipped, Intact
<1>2. CASE Admitted
  <2>1. PICK op, rest : op \in Op /\ Record(op, rest) /\ Applies(store, op)
    BY <1>2 DEF Admitted
  <2>2. mode \in {"seeding", "serving"}
    BY <1>2 DEF Admitted
  <2>3. SUFFICES ASSUME Intact' 
                 PROVE  \A i \in DOMAIN journal' : Applies(hist'[i], journal'[i].rec.op)
    BY DEF NothingSkipped
  <2>4. PICK line \in Line : Written(op, line)
    <3>1. failed' # failed + 1
      BY <2>3 DEF Intact, StoreInv, TypeOK
    <3>2. QED BY <2>1, <3>1, RecordWrites
  <2>5. Intact /\ ~open /\ line.kind = "record"
    BY <2>3, <2>4, IntactBefore
  <2>6. /\ store = hist[Len(hist)] /\ Len(hist) = Len(journal) + 1
        /\ journal \in Seq(Line) /\ hist \in Seq(Store)
    BY <2>2, <2>5 DEF PlaceInv, StoreInv, RestartExact, HistIsReplay, TypeOK
  <2> DEFINE n == Len(journal)
  <2>7. /\ journal' = Append(journal, line) /\ line.rec.op = op
        /\ hist' = Append(hist, Replayed(hist[n + 1], line))
    <3>1. PICK terminated \in BOOLEAN : Put(line, terminated)
      BY <2>4 DEF Written
    <3>2. line.rec = NewRec(op)
      BY <2>4, <2>5 DEF Written
    <3>3. QED BY <2>5, <3>1, <3>2 DEF Put, NewRec
  <2>8. /\ DOMAIN journal' = 1..(n + 1) /\ n \in Nat /\ DOMAIN journal = 1..n
        /\ \A i \in 1..n : journal'[i] = journal[i]
        /\ \A i \in 1..(n + 1) : hist'[i] = hist[i]
        /\ journal'[n + 1] = line
    BY <2>6, <2>7
  <2>9. \A i \in 1..n : Applies(hist'[i], journal'[i].rec.op)
    BY <2>5, <2>8 DEF NothingSkipped
  <2>10. Applies(hist'[n + 1], journal'[n + 1].rec.op)
    BY <2>1, <2>6, <2>7, <2>8
  <2>11. \A i \in 1..(n + 1) : i \in 1..n \/ i = n + 1
    BY <2>8
  <2>12. QED BY <2>8, <2>9, <2>10, <2>11
<1>3. QED BY <1>1, <1>2, IdleOrAdmitted, QuietSteps

\* As long as no line of the file was torn, glued, unreadable or missing, no op
\* that an entry point let through is refused by apply_op, neither live nor in
\* any later replay ("live apply failed", "apply failed": store.rs:480, 648).
THEOREM NothingIsSkipped ==
  ASSUME SeedsApply
  PROVE  Spec => []NothingSkipped
<1>1. PICK f : SeedRun(f)
  BY DEF SeedsApply
<1>2. Init => PlaceInv /\ BlankInv
  <2>1. Init => PlaceInv
    BY DEF Init, PlaceInv, InPlace, EmptyStore
  <2>2. Init => BlankInv
    BY DEF Init, BlankInv, Bare
  <2>3. QED BY <2>1, <2>2
<1>3. Init => SeedingAt(f) /\ HeldEntries /\ NothingSkipped
  BY DEF Init, SeedingAt, HeldEntries, NothingSkipped
<1>4. StoreInv /\ BlankInv /\ SeedingAt(f) /\ HeldEntries /\ [Next]_vars
        => SeedingAt(f)' /\ HeldEntries'
  BY <1>1, HolderStep
<1>5. StoreInv /\ PlaceInv /\ SeedingAt(f) /\ HeldEntries /\ NothingSkipped
        /\ [Next]_vars => NothingSkipped'
  BY <1>1, SkipStep
<1>6. QED
  BY <1>2, <1>3, <1>4, <1>5, BlankStep, PlaceStep, StoreInvariant, PTL DEF Spec

-----------------------------------------------------------------------------
(* The refinement.                                                         *)

\* The instance of the abstract module has its own copy of each operator.
LEMMA AuditedApplies ==
  ASSUME NEW s, NEW op
  PROVE  Audited!Applies(s, op) <=> Applies(s, op)
BY DEF Applies, Audited!Applies, EdgeAccepted, Audited!EdgeAccepted,
       Registered, Audited!Registered, ListKnown, Audited!ListKnown,
       WitnessSetSound, Audited!WitnessSetSound,
       WitnessesKnown, Audited!WitnessesKnown,
       RevocationSound, Audited!RevocationSound,
       LedgerAccepts, Audited!LedgerAccepts, Quorate, Audited!Quorate

\* The same of what an op does.
LEMMA AuditedEffect ==
  ASSUME NEW s, NEW op \in Op
  PROVE  Audited!Effect(s, op) = Effect(s, op)
BY DEF Op, Effect, Audited!Effect, PutNode, Audited!PutNode,
       PutEdge, Audited!PutEdge, PutList, Audited!PutList,
       PutEntry, Audited!PutEntry, PutWitnesses, Audited!PutWitnesses,
       LastKeyOf, Audited!LastKeyOf, PutRoot, Audited!PutRoot,
       PutRevocation, Audited!PutRevocation, PutEvidence, Audited!PutEvidence

\* An op has the same effect with the log and without.
LEMMA ContentOfEffect ==
  ASSUME NEW s \in Store, NEW op \in Op
  PROVE  Effect(Content(s), op) = Content(Effect(s, op))
<1> DEFINE t == Content(s)
<1>1. t \in Store /\ t.log = << >> /\ Same(s, t)
  <2>1. t = [s EXCEPT !.log = << >>]
    BY DEF Content
  <2>2. << >> \in Seq(AuditRecord)
    OBVIOUS
  <2> HIDE DEF t
  <2>3. QED BY <2>1, <2>2 DEF Store, Same
<1> HIDE DEF t
<1>2. /\ Effect(s, op) \in Store /\ Effect(t, op) \in Store
      /\ Same(Effect(s, op), Effect(t, op))
  BY <1>1, EffectType, SameEffect
<1>3. Content(Effect(s, op)) = Content(Effect(t, op))
  BY <1>2, SameContent
<1>4. Effect(t, op).log = << >>
  BY <1>1, EffectOnNodes
<1>5. Content(Effect(t, op)) = Effect(t, op)
  BY <1>2, <1>4 DEF Content, Store
<1>6. QED BY <1>3, <1>5 DEF t

\* The same ops, one more at the end.
LEMMA HistoryGrows ==
  ASSUME NEW s \in Seq(Line), NEW line
  PROVE  [i \in DOMAIN Append(s, line) |-> Append(s, line)[i].rec.op]
           = Append([i \in DOMAIN s |-> s[i].rec.op], line.rec.op)
<1> DEFINE h == [i \in DOMAIN s |-> s[i].rec.op]
           n == Len(s)
<1>1. /\ n \in Nat /\ DOMAIN s = 1..n
      /\ DOMAIN Append(s, line) = 1..(n + 1)
      /\ \A i \in 1..n : Append(s, line)[i] = s[i]
      /\ Append(s, line)[n + 1] = line
  OBVIOUS
<1>2. h \in Seq({s[i].rec.op : i \in DOMAIN s}) /\ Len(h) = n
  BY <1>1
<1>3. /\ DOMAIN Append(h, line.rec.op) = 1..(n + 1)
      /\ \A i \in 1..n : Append(h, line.rec.op)[i] = s[i].rec.op
      /\ Append(h, line.rec.op)[n + 1] = line.rec.op
  BY <1>1, <1>2
<1>4. QED BY <1>1, <1>3

\* The refinement mapping of StoreRefinement.
State == Content(hist[Len(hist)])
History == [i \in DOMAIN journal |-> journal[i].rec.op]
Serving == IF mode = "serving" THEN Content(store) ELSE Offline

\* A record commits its op, whether or not the process survives it.
LEMMA AdmittedCommits ==
  ASSUME FaultFree, StoreInv, Clean, Admitted
  PROVE  Audited!Commit
<1>1. PICK op, rest :
        op \in AskedOps \cap Op /\ Record(op, rest) /\ Applies(store, op)
  BY DEF Admitted
<1> DEFINE rec == NewRec(op)
           n   == Len(hist)
<1>2. /\ rec \in AuditRecord /\ rec.op = op
      /\ journal \in Seq(Line) /\ hist \in Seq(Store) /\ n \in Nat \ {0}
      /\ store = hist[n] /\ store \in Store
      /\ mode \in {"seeding", "serving"}
  <2>1. rec \in AuditRecord /\ rec.op = op
    BY <1>1, NewRecType DEF StoreInv, NewRec
  <2>2. QED BY <2>1 DEF StoreInv, TypeOK, HistIsReplay, RestartExact, Clean, Admitted
<1>3. /\ journal' = Append(journal, [kind |-> "record", rec |-> rec])
      /\ hist' = Append(hist, Absorb(store, rec))
  BY <1>1, <1>2, CleanRecord DEF Clean
<1> HIDE DEF rec
<1>4. hist'[Len(hist')] = Absorb(store, rec) /\ Absorb(store, rec) \in Store
  BY <1>2, <1>3, AbsorbType
<1>5. History' = Append(History, op)
  BY <1>2, <1>3, HistoryGrows DEF History
<1>6. Applies(State, op)
  <2>1. Same(store, State) 
    BY <1>2 DEF State, Content, Store, Same
  <2>2. QED BY <1>1, <2>1, SameApplies
<1>7. State' = Effect(State, op)
  <2>1. Same(Effect(store, op), Absorb(store, rec)) /\ Effect(store, op) \in Store
    BY <1>1, <1>2, AbsorbSame, EffectType
  <2>2. Content(Effect(store, op)) = Content(Absorb(store, rec))
    BY <1>4, <2>1, SameContent
  <2>3. QED BY <1>1, <1>2, <1>4, <2>2, ContentOfEffect DEF State
<1>8. Serving' \in {Offline, State'}
  <2>1. mode' = "serving" => store' = Absorb(store, rec)
    BY <1>1, RecordEnds DEF rec
  <2>2. QED BY <1>4, <2>1 DEF Serving, State
<1>9. QED
  BY <1>1, <1>5, <1>6, <1>7, <1>8, AuditedApplies, AuditedEffect
  DEF Audited!Commit, State, History, Serving

\* Every other step starts or ends the service, or is not seen.
LEMMA IdleMaps ==
  ASSUME StoreInv, Idle
  PROVE  Audited!Start \/ Audited!Die \/ UNCHANGED Audited!avars
<1>1. History' = History /\ State' = State
  BY QuietSteps DEF Quiet, disk, History, State
<1>2. \/ UNCHANGED Serving \/ Serving' = Offline
      \/ Serving = Offline /\ Serving' = State
  <2>1. CASE Open \/ ReplayRefused \/ Crash
    BY <2>1 DEF Open, ReplayRefused, Crash, Dead, Serving
  <2>2. CASE ReplayLine
    BY <2>2 DEF ReplayLine, Serving
  <2>3. CASE ReplayDone
    <3>1. /\ mode = "replaying" /\ pos > Len(journal) /\ store' = store
      BY <2>3 DEF ReplayDone
    <3>2. store = hist[Len(hist)]
      BY <3>1 DEF StoreInv, TypeOK, ReplayAlongHist, HistIsReplay
    <3>3. QED BY <3>1, <3>2 DEF Serving, State
  <2>4. CASE ListEntryRejected \/ UNCHANGED vars
    BY <2>4 DEF ListEntryRejected, vars, Serving
  <2>5. QED BY <2>1, <2>2, <2>3, <2>4 DEF Idle
<1>3. QED
  BY <1>1, <1>2 DEF Audited!Start, Audited!Die, Audited!avars,
                    History, State, Serving

\* "The journal replays losslessly on start; mutations are validated before
\* being recorded and applied" (store.rs:1-3): when no write is cut short or
\* fails and every line reads back, what a client sees of the store is the
\* audited state of AuditedStore, however often the process is killed.
THEOREM StoreImplementsAudited ==
  ASSUME FaultFree, SeedsApply
  PROVE  Spec => ImplementsAuditedStore
<1>1. PICK f : SeedRun(f)
  BY DEF SeedsApply
<1>2. Init => Audited!AInit /\ Clean /\ BlankInv
  <2> SUFFICES ASSUME Init PROVE Audited!AInit /\ Clean /\ BlankInv
    OBVIOUS
  <2>1. Content(EmptyStore) = EmptyStore /\ EmptyStore = Audited!EmptyStore
    <3>1. EmptyStore \in Store /\ EmptyStore.log = << >>
      BY EmptyStoreType DEF EmptyStore
    <3>2. Content(EmptyStore) = EmptyStore
      BY <3>1 DEF Content, Store
    <3>3. EmptyStore = Audited!EmptyStore
      BY DEF EmptyStore, Audited!EmptyStore
    <3>4. QED BY <3>2, <3>3
  <2>2. journal = << >> /\ hist = <<EmptyStore>> /\ mode = "down"
    BY DEF Init
  <2>3. History = << >> /\ hist[Len(hist)] = EmptyStore
    BY <2>2 DEF History
  <2>4. Audited!AInit
    BY <2>1, <2>2, <2>3 DEF Audited!AInit, History
  <2>5. Clean /\ BlankInv
    BY DEF Init, Clean, BlankInv, Bare
  <2>6. QED BY <2>4, <2>5
<1>3. Init => SeedingAt(f) /\ HeldEntries
  BY DEF Init, SeedingAt, HeldEntries
<1>4. StoreInv /\ BlankInv /\ SeedingAt(f) /\ HeldEntries /\ [Next]_vars
        => SeedingAt(f)' /\ HeldEntries'
  BY <1>1, HolderStep
<1>5. StoreInv /\ Clean /\ SeedingAt(f) /\ HeldEntries /\ [Next]_vars
        => [Audited!Commit \/ Audited!Start \/ Audited!Die]_(Audited!avars)
  BY <1>1, IdleOrAdmitted, AdmittedCommits, IdleMaps
<1>6. StoreInv /\ Clean /\ [Next]_vars => Clean'
  BY CleanStep
<1>7. QED
  BY <1>2, <1>3, <1>4, <1>5, <1>6, BlankStep, StoreInvariant, PTL
  DEF Spec, ImplementsAuditedStore, Audited!ASpec

-----------------------------------------------------------------------------
(* Seeded once.                                                            *)

\* No client asks for an op of the seed.
SeedsApart ==
  \A op \in Requests \cup UNION {{b.list} \cup Elements(b.entries) : b \in Batches} :
    op \notin Elements(Seeds)

Places(log, op) == {i \in DOMAIN log : log[i].op = op}
SeedsUpTo(m, op) == {l \in 1..m : Seeds[l] = op}

\* The log holds no seed op more often than the first m of them do.
Placed(log, m) ==
  \A op \in Elements(Seeds) :
    Cardinality(Places(log, op)) <= Cardinality(SeedsUpTo(m, op))

\* Both are counted in numbers.
LEMMA PlacesFinite ==
  ASSUME NEW log \in Seq(AuditRecord), NEW m \in Nat, NEW op
  PROVE  /\ IsFiniteSet(Places(log, op)) /\ Cardinality(Places(log, op)) \in Nat
         /\ IsFiniteSet(SeedsUpTo(m, op)) /\ Cardinality(SeedsUpTo(m, op)) \in Nat
<1>1. Len(log) \in Nat /\ DOMAIN log = 1..Len(log)
  OBVIOUS
<1>2. IsFiniteSet(1..Len(log)) /\ IsFiniteSet(1..m)
  BY <1>1, FS_Interval
<1>3. Places(log, op) \in SUBSET (1..Len(log)) /\ SeedsUpTo(m, op) \in SUBSET (1..m)
  BY <1>1 DEF Places, SeedsUpTo
<1>4. IsFiniteSet(Places(log, op)) /\ IsFiniteSet(SeedsUpTo(m, op))
  BY <1>2, <1>3, FS_Subset
<1>5. QED BY <1>4, FS_CardinalityType

\* An empty log holds none, and more seed ops allow for more.
LEMMA PlacedEmpty ==
  ASSUME NEW m \in Nat
  PROVE  Placed(<< >>, m)
<1>1. \A op : Places(<< >>, op) = {}
  BY DEF Places
<1>2. << >> \in Seq(AuditRecord)
  OBVIOUS
<1>3. ASSUME NEW op
      PROVE  Cardinality(Places(<< >>, op)) <= Cardinality(SeedsUpTo(m, op))
  <2>1. Cardinality(Places(<< >>, op)) = 0
    BY <1>1, FS_EmptySet
  <2>2. Cardinality(SeedsUpTo(m, op)) \in Nat
    BY <1>2, PlacesFinite
  <2>3. QED BY <2>1, <2>2
<1>4. QED BY <1>3 DEF Placed

\* A log placed against some of the seed is so against more of it.
LEMMA PlacedMore ==
  ASSUME NEW log \in Seq(AuditRecord), NEW m \in Nat, NEW n \in Nat, m <= n,
         Placed(log, m)
  PROVE  Placed(log, n)
<1>1. ASSUME NEW op \in Elements(Seeds)
      PROVE  Cardinality(Places(log, op)) <= Cardinality(SeedsUpTo(n, op))
  <2>1. SeedsUpTo(m, op) \subseteq SeedsUpTo(n, op)
    BY DEF SeedsUpTo
  <2>2. /\ Cardinality(Places(log, op)) \in Nat
        /\ Cardinality(SeedsUpTo(m, op)) \in Nat
        /\ Cardinality(SeedsUpTo(n, op)) \in Nat
        /\ IsFiniteSet(SeedsUpTo(n, op))
    BY PlacesFinite
  <2>3. Cardinality(SeedsUpTo(m, op)) <= Cardinality(SeedsUpTo(n, op))
    BY <2>1, <2>2, FS_Subset
  <2>4. Cardinality(Places(log, op)) <= Cardinality(SeedsUpTo(m, op))
    BY DEF Placed
  <2>5. QED BY <2>2, <2>3, <2>4
<1>2. QED BY <1>1 DEF Placed

\* A record of another op does not count, one of the next seed op is allowed.
LEMMA PlacedAppend ==
  ASSUME NEW log \in Seq(AuditRecord), NEW m \in Nat, Placed(log, m),
         NEW rec \in AuditRecord
  PROVE  /\ rec.op \notin Elements(Seeds) => Placed(Append(log, rec), m)
         /\ rec.op = Seeds[m + 1] => Placed(Append(log, rec), m + 1)
<1> DEFINE n == Len(log)
           more == Append(log, rec)
<1>1. /\ n \in Nat /\ DOMAIN log = 1..n /\ DOMAIN more = 1..(n + 1)
      /\ \A i \in 1..n : more[i] = log[i]
      /\ more[n + 1] = rec
  OBVIOUS
<1>2. more \in Seq(AuditRecord)
  OBVIOUS
<1> HIDE DEF more
<1>3. \A i \in 1..(n + 1) : i \in 1..n \/ i = n + 1
  BY <1>1
<1>4. ASSUME NEW op, op # rec.op
      PROVE  Places(more, op) = Places(log, op)
  BY <1>1, <1>3, <1>4 DEF Places
<1>5. Places(more, rec.op) = Places(log, rec.op) \cup {n + 1}
  BY <1>1, <1>3 DEF Places
<1>6. ASSUME rec.op \notin Elements(Seeds)
      PROVE  Placed(more, m)
  BY <1>4, <1>6 DEF Placed
<1>7. ASSUME rec.op = Seeds[m + 1]
      PROVE  Placed(more, m + 1)
  <2>1. SeedsUpTo(m + 1, rec.op) = SeedsUpTo(m, rec.op) \cup {m + 1}
    BY <1>7 DEF SeedsUpTo
  <2>2. m + 1 \notin SeedsUpTo(m, rec.op) /\ n + 1 \notin Places(log, rec.op)
    BY <1>1 DEF SeedsUpTo, Places
  <2>3. ASSUME NEW op \in Elements(Seeds)
        PROVE  Cardinality(Places(more, op)) <= Cardinality(SeedsUpTo(m + 1, op))
    <3>1. Cardinality(Places(log, op)) <= Cardinality(SeedsUpTo(m, op))
      BY DEF Placed
    <3>2. /\ Cardinality(Places(log, op)) \in Nat
          /\ Cardinality(SeedsUpTo(m, op)) \in Nat
          /\ IsFiniteSet(Places(log, op)) /\ IsFiniteSet(SeedsUpTo(m, op))
      BY PlacesFinite
    <3>3. CASE op = rec.op
      <4>1. /\ Cardinality(Places(more, op)) = Cardinality(Places(log, op)) + 1
            /\ Cardinality(SeedsUpTo(m + 1, op)) = Cardinality(SeedsUpTo(m, op)) + 1
        BY <1>5, <2>1, <2>2, <3>2, <3>3, FS_AddElement
      <4>2. QED BY <3>1, <3>2, <4>1
    <3>4. CASE op # rec.op
      <4>1. Placed(log, m + 1)
        BY PlacedMore
      <4>2. QED BY <1>4, <3>4, <4>1 DEF Placed
    <3>5. QED BY <3>3, <3>4
  <2>4. QED BY <2>3 DEF Placed
<1>8. QED BY <1>6, <1>7 DEF more

\* A log that has been empty was empty before, along the replay.
LogGrows ==
  \A i, j \in DOMAIN hist : i <= j /\ hist[j].log = << >> => hist[i].log = << >>

\* What a request has left to record is not of the seed.
HeldApart == mode = "serving" => Elements(todo) \cap Elements(Seeds) = {}

\* Seeding has got to m, and neither the file nor memory holds a seed op more
\* often than that.
SeedPoint(m) ==
  /\ m \in 0..Len(Seeds)
  /\ mode = "seeding" => /\ m < Len(Seeds)
                         /\ todo = SubSeq(Seeds, m + 1, Len(Seeds))
  /\ mode # "seeding" => m = Len(Seeds)
  /\ Placed(store.log, m) /\ \A i \in DOMAIN hist : Placed(hist[i].log, m)

OnceInv == LogGrows /\ HeldApart /\ \E m : SeedPoint(m)

\* Replay only adds to the log.
LEMMA ReplayedGrows ==
  ASSUME NEW s \in Store, NEW line \in Line, Replayed(s, line).log = << >>
  PROVE  s.log = << >>
<1>1. CASE line.kind = "record"
  <2>1. line.rec \in AuditRecord /\ s.log \in Seq(AuditRecord)
    BY <1>1 DEF Line, Store
  <2>2. Replayed(s, line).log = Append(s.log, line.rec)
    BY <1>1, <2>1, AbsorbLog DEF Replayed
  <2>3. Append(s.log, line.rec) # << >>
    BY <2>1
  <2>4. QED BY <2>2, <2>3
<1>2. CASE line.kind # "record"
  BY <1>2 DEF Replayed
<1>3. QED BY <1>1, <1>2

\* So it is after every step, also when a line was glued to the last one and
\* the replay has lost its last record.
LEMMA LogGrowsStep == StoreInv /\ LogGrows /\ [Next]_vars => LogGrows'
<1> SUFFICES ASSUME StoreInv, LogGrows, [Next]_vars PROVE LogGrows'
  OBVIOUS
<1>1. CASE UNCHANGED disk
  BY <1>1 DEF disk, LogGrows
<1>2. ASSUME NEW line \in Line, NEW terminated, Put(line, terminated)
      PROVE  LogGrows'
  <2> DEFINE n == Len(journal)
  <2>1. /\ journal \in Seq(Line) /\ hist \in Seq(Store)
        /\ n \in Nat /\ Len(hist) = n + 1 /\ DOMAIN hist = 1..(n + 1)
        /\ open => n # 0
    BY DEF StoreInv, TypeOK, HistIsReplay, OpenOnLine
  <2> HIDE DEF n
  <2>2. \A i, j \in 1..(n + 1) :
          i <= j /\ hist[j].log = << >> => hist[i].log = << >>
    BY <2>1 DEF LogGrows
  <2>3. CASE open
    <3>1. hist' = [hist EXCEPT ![n + 1] = hist[n]]
      BY <1>2, <2>3 DEF Put, n
    <3>2. /\ DOMAIN hist' = 1..(n + 1) /\ n \in 1..(n + 1) /\ n + 1 \in 1..(n + 1)
          /\ \A i \in 1..n : hist'[i] = hist[i]
          /\ hist'[n + 1] = hist[n]
      BY <2>1, <2>3, <3>1
    <3>3. ASSUME NEW i \in 1..(n + 1), NEW j \in 1..(n + 1), i <= j,
                 hist'[j].log = << >>
          PROVE  hist'[i].log = << >>
      <4>1. PICK k \in 1..n :
              hist'[j] = hist[k] /\ (k = j \/ (k = n /\ j = n + 1))
        <5>1. CASE j \in 1..n
          BY <3>2, <5>1
        <5>2. CASE j = n + 1
          <6>1. n \in 1..n
            BY <2>1, <2>3
          <6>2. QED BY <3>2, <5>2, <6>1
        <5>3. QED BY <2>1, <5>1, <5>2
      <4>2. CASE i = n + 1
        BY <2>1, <3>2, <3>3, <4>1, <4>2
      <4>3. CASE i \in 1..n
        <5>1. i <= k /\ i \in 1..(n + 1) /\ k \in 1..(n + 1)
          BY <2>1, <3>3, <4>1, <4>3
        <5>2. hist[i].log = << >>
          BY <2>2, <3>3, <4>1, <5>1
        <5>3. QED BY <3>2, <4>3, <5>2
      <4>4. QED BY <2>1, <4>2, <4>3
    <3>4. QED BY <3>2, <3>3 DEF LogGrows
  <2>4. CASE ~open
    <3>1. hist' = Append(hist, Replayed(hist[n + 1], line))
      BY <1>2, <2>4 DEF Put, n
    <3>2. /\ DOMAIN hist' = 1..(n + 2)
          /\ \A i \in 1..(n + 1) : hist'[i] = hist[i]
          /\ hist'[n + 2] = Replayed(hist[n + 1], line)
          /\ hist[n + 1] \in Store
      BY <2>1, <3>1
    <3>3. hist'[n + 2].log = << >> => hist[n + 1].log = << >>
      BY <3>2, ReplayedGrows
    <3>4. ASSUME NEW i \in 1..(n + 2), NEW j \in 1..(n + 2), i <= j,
                 hist'[j].log = << >>
          PROVE  hist'[i].log = << >>
      <4>1. CASE i = n + 2
        BY <2>1, <3>4, <4>1
      <4>2. CASE i \in 1..(n + 1) /\ j \in 1..(n + 1)
        BY <2>2, <3>2, <3>4, <4>2
      <4>3. CASE i \in 1..(n + 1) /\ j = n + 2
        <5>1. n + 1 \in 1..(n + 1) /\ i <= n + 1
          BY <2>1, <4>3
        <5>2. QED BY <2>2, <3>2, <3>3, <3>4, <4>3, <5>1
      <4>4. QED BY <2>1, <4>1, <4>2, <4>3
    <3>5. QED BY <3>2, <3>4 DEF LogGrows
  <2>5. QED BY <2>3, <2>4
<1>3. CASE Quiet
  BY <1>1, <1>3 DEF Quiet
<1>4. CASE Recording
  <2>1. PICK op \in Op : UNCHANGED disk \/ \E line \in Line : Written(op, line)
    BY <1>4, RecordWrites DEF Recording
  <2>2. QED BY <1>1, <1>2, <2>1 DEF Written
<1>5. QED BY <1>3, <1>4, QuietOrRecording

\* A request records ops that are not of the seed.
ServedApart ==
  \E op \in Op : \E rest :
    /\ mode = "serving" /\ Record(op, rest)
    /\ op \notin Elements(Seeds) /\ Elements(rest) \cap Elements(Seeds) = {}

\* A request records no seed op, and leaves none to be recorded.
LEMMA RecordedApart ==
  ASSUME SeedsApart, StoreInv, HeldApart, [Next]_vars
  PROVE  Idle \/ SeedNext \/ ServedApart
<1>1. CASE \E op \in Requests : Serve(op)
  <2>1. PICK op \in Requests : mode = "serving" /\ Record(op, << >>)
    BY <1>1 DEF Serve, RegisterNode, AddEdge, UpsertTrustEntry, SetWitnesses,
                UpsertMasterEntry, DeclareRevocation, RegisterEvidence,
                ReleaseEvidence, Asked
  <2>2. op \in Op /\ op \notin Elements(Seeds) /\ Elements(<< >>) = {}
    BY RequestsAssumption DEF SeedsApart, Elements
  <2>3. QED BY <2>1, <2>2 DEF ServedApart
<1>2. CASE \E b \in Batches : RegisterTrustList(b)
  <2>1. PICK b \in Batches : mode = "serving" /\ Record(b.list, b.entries)
    BY <1>2 DEF RegisterTrustList, Asked
  <2>2. b.list \in Op
    BY RequestsAssumption
  <2>3. \A op \in {b.list} \cup Elements(b.entries) : op \notin Elements(Seeds)
    BY DEF SeedsApart
  <2>4. QED BY <2>1, <2>2, <2>3 DEF ServedApart
<1>3. CASE ListEntry
  <2>1. /\ mode = "serving" /\ todo # << >> /\ Head(todo) # Malformed
        /\ Record(Head(todo), Tail(todo))
    BY <1>3 DEF ListEntry
  <2>2. todo \in Seq(Op \cup {Malformed})
    BY DEF StoreInv, TypeOK
  <2>3. Head(todo) \in Op
    BY <2>1, <2>2, RestOfTodo
  <2>4. /\ Head(todo) = todo[1] /\ 1 \in DOMAIN todo
        /\ \A i \in DOMAIN Tail(todo) : \E j \in DOMAIN todo : Tail(todo)[i] = todo[j]
    BY <2>1, <2>2
  <2>5. Head(todo) \in Elements(todo) /\ Elements(Tail(todo)) \subseteq Elements(todo)
    BY <2>4 DEF Elements
  <2>6. QED BY <2>1, <2>3, <2>5 DEF HeldApart, ServedApart
<1>4. QED BY <1>1, <1>2, <1>3 DEF Next, Startup, Idle

\* Ops of the rest of a request are not of the seed either.
LEMMA HeldStep ==
  ASSUME SeedsApart, StoreInv, HeldApart, [Next]_vars
  PROVE  HeldApart'
<1>1. CASE Idle
  <2>1. CASE Open \/ ReplayLine \/ ReplayRefused \/ Crash
    BY <2>1 DEF Open, ReplayLine, ReplayRefused, Crash, Dead, HeldApart
  <2>2. CASE ReplayDone \/ ListEntryRejected
    BY <2>2 DEF ReplayDone, ListEntryRejected, HeldApart, Elements
  <2>3. CASE UNCHANGED vars
    BY <2>3 DEF vars, HeldApart
  <2>4. QED BY <1>1, <2>1, <2>2, <2>3 DEF Idle
<1>2. CASE SeedNext
  <2>1. mode = "seeding" /\ Record(Head(todo), Tail(todo))
    BY <1>2 DEF SeedNext
  <2>2. mode' = "serving" => todo' = << >>
    BY <2>1, RecordEnds
  <2>3. Elements(<< >>) = {}
    BY DEF Elements
  <2>4. QED BY <2>2, <2>3 DEF HeldApart
<1>3. CASE ServedApart
  <2>1. PICK op, rest : Record(op, rest) /\ Elements(rest) \cap Elements(Seeds) = {}
    BY <1>3 DEF ServedApart
  <2>2. mode' = "down" \/ todo' = rest
    BY <2>1, RecordEnds
  <2>3. QED BY <2>1, <2>2 DEF HeldApart
<1>4. QED BY <1>1, <1>2, <1>3, RecordedApart

\* Every step moves seeding on by at most the op it records.
LEMMA PointStep ==
  ASSUME SeedsApart, StoreInv, OnceInv, [Next]_vars
  PROVE  \E m : SeedPoint(m)'
<1> DEFINE N == Len(Seeds)
<1>1. PICK m : SeedPoint(m)
  BY DEF OnceInv
<1>2. /\ Seeds \in Seq(Op) /\ N \in Nat /\ m \in 0..N
      /\ \A i \in DOMAIN hist : hist[i] \in Store /\ Placed(hist[i].log, m)
      /\ store \in Store /\ Placed(store.log, m)
      /\ TypeOK /\ HistIsReplay /\ OpenOnLine
      /\ Len(hist) \in DOMAIN hist
  BY <1>1, RequestsAssumption DEF SeedPoint, StoreInv, TypeOK, HistIsReplay
<1> HIDE DEF N
<1>3. \A s \in Store : s.log \in Seq(AuditRecord)
  BY DEF Store
<1>4. EmptyStore.log = << >> /\ EmptyStore \in Store
  BY EmptyStoreType DEF EmptyStore
\* Where a process that is not seeding stands.
<1>5. ASSUME NEW k \in 0..N, mode' # "seeding", Placed(store'.log, k),
             store' \in Store,
             \A i \in DOMAIN hist' : hist'[i] \in Store /\ Placed(hist'[i].log, k)
      PROVE  SeedPoint(N)'
  <2>1. k \in Nat /\ N \in Nat /\ k <= N /\ N \in 0..N
    BY <1>2, <1>5
  <2>2. Placed(store'.log, N)
    BY <1>3, <1>5, <2>1, PlacedMore
  <2>3. \A i \in DOMAIN hist' : Placed(hist'[i].log, N)
    BY <1>3, <1>5, <2>1, PlacedMore
  <2>4. QED BY <1>5, <2>1, <2>2, <2>3 DEF SeedPoint, N
<1>6. CASE Idle
  <2>1. Quiet
    BY <1>6, QuietSteps
  <2>2. /\ hist' = hist /\ store' \in Store
        /\ Placed(store'.log, m)
    <3>1. Placed(<< >>, m)
      BY <1>2, PlacedEmpty
    <3>2. QED BY <1>2, <1>4, <2>1, <3>1 DEF Quiet, disk
  <2>3. CASE mode' # "seeding"
    BY <1>2, <1>5, <2>2, <2>3
  <2>4. CASE mode' = "seeding" /\ mode # "seeding"
    <3>1. ReplayDone
      BY <1>6, <2>4 DEF Idle, Open, ReplayLine, ReplayRefused, Crash, Dead,
                        ListEntryRejected, vars
    <3>2. /\ mode = "replaying" /\ pos > Len(journal) /\ store' = store
          /\ store.log = << >> /\ todo' = Seeds /\ Seeds # << >>
      BY <2>4, <3>1 DEF ReplayDone
    <3>3. store = hist[Len(hist)]
      BY <3>2 DEF StoreInv, TypeOK, ReplayAlongHist, HistIsReplay
    <3>4. \A i \in DOMAIN hist : hist[i].log = << >>
      <4>1. hist \in Seq(Store)
        BY <1>2 DEF TypeOK
      <4>2. \A i \in DOMAIN hist : i <= Len(hist)
        BY <4>1
      <4>3. QED BY <1>2, <3>2, <3>3, <4>2 DEF OnceInv, LogGrows
    <3>5. Placed(<< >>, 0) /\ 0 \in 0..N /\ 0 < N /\ Seeds = SubSeq(Seeds, 1, N)
      BY <1>2, <3>2, PlacedEmpty, SubSeqFull DEF N
    <3>6. SeedPoint(0)'
      BY <2>2, <2>4, <3>2, <3>4, <3>5 DEF SeedPoint, N
    <3>7. QED BY <3>6
  <2>5. CASE mode' = "seeding" /\ mode = "seeding"
    <3>1. UNCHANGED vars
      BY <1>6, <2>5 DEF Idle, Open, ReplayLine, ReplayRefused, ReplayDone, Crash,
                        Dead, ListEntryRejected
    <3>2. SeedPoint(m)'
      BY <1>1, <3>1 DEF vars, SeedPoint
    <3>3. QED BY <3>2
  <2>6. QED BY <2>3, <2>4, <2>5
\* What a record makes of memory and of every replay.
<1>7. ASSUME NEW op \in Op, NEW rest, NEW k \in 0..N,
             mode \in {"seeding", "serving"}, Record(op, rest),
             Placed(<< >>, k),
             \A s \in Store : Placed(s.log, m) =>
                /\ Placed(s.log, k)
                /\ Placed(Absorb(s, NewRec(op)).log, k)
      PROVE  /\ store' \in Store /\ Placed(store'.log, k)
             /\ \A i \in DOMAIN hist' : hist'[i] \in Store /\ Placed(hist'[i].log, k)
  <2> DEFINE rec == NewRec(op)
  <2>1. rec \in AuditRecord
    BY <1>2, NewRecType
  <2>2. /\ UNCHANGED disk \/ \E line \in Line : Written(op, line)
        /\ store' \in {Absorb(store, rec), EmptyStore}
    BY <1>7, RecordWrites
  <2>3. \A s \in Store : Absorb(s, rec) \in Store
    BY <2>1, AbsorbType
  <2> HIDE DEF rec
  <2>4. store' \in Store /\ Placed(store'.log, k)
    BY <1>2, <1>4, <1>7, <2>2, <2>3 DEF rec
  <2>5. ASSUME NEW i \in DOMAIN hist'
        PROVE  hist'[i] \in Store /\ Placed(hist'[i].log, k)
    <3>1. CASE UNCHANGED disk
      BY <1>2, <1>7, <2>5, <3>1 DEF disk
    <3>2. CASE \E line \in Line : Written(op, line)
      <4>1. PICK line \in Line, terminated \in BOOLEAN :
              /\ Put(line, terminated)
              /\ line.kind = "record" => line.rec = rec
        BY <3>2 DEF Written, rec
      <4>2. \/ \E j \in DOMAIN hist : hist'[i] = hist[j]
            \/ hist'[i] = Replayed(hist[Len(hist)], line)
        BY <1>2, <2>5, <4>1, PutExtends
      <4>3. Replayed(hist[Len(hist)], line)
              \in {hist[Len(hist)], Absorb(hist[Len(hist)], rec)}
        BY <4>1 DEF Replayed
      <4>4. \/ \E j \in DOMAIN hist : hist'[i] = hist[j]
            \/ hist'[i] = Absorb(hist[Len(hist)], rec)
        BY <1>2, <4>2, <4>3
      <4>5. QED BY <1>2, <1>7, <2>3, <4>4 DEF rec
    <3>3. QED BY <2>2, <3>1, <3>2
  <2>6. QED BY <2>4, <2>5
<1>8. CASE SeedNext
  <2>1. mode = "seeding" /\ todo # << >> /\ Record(Head(todo), Tail(todo))
    BY <1>8 DEF SeedNext
  <2> DEFINE k == m + 1
  <2>2. m < N /\ todo = SubSeq(Seeds, k, N) /\ k \in 1..N /\ k \in 0..N /\ m \in Nat
    BY <1>1, <1>2, <2>1 DEF SeedPoint, N
  <2>3. /\ Head(todo) = Seeds[k] /\ Seeds[k] \in Op
        /\ Tail(todo) = SubSeq(Seeds, k + 1, N)
    BY <1>2, <2>2, HeadTailOfSubSeq DEF N
  <2> DEFINE op == Seeds[k]
  <2>4. NewRec(op) \in AuditRecord /\ NewRec(op).op = op
    BY <1>2, <2>3, NewRecType DEF NewRec
  <2>5. ASSUME NEW s \in Store, Placed(s.log, m)
        PROVE  Placed(s.log, k) /\ Placed(Absorb(s, NewRec(op)).log, k)
    <3>1. Absorb(s, NewRec(op)).log = Append(s.log, NewRec(op))
      BY <2>4, AbsorbLog
    <3>2. QED
      BY <1>3, <2>2, <2>4, <2>5, <3>1, PlacedMore, PlacedAppend
  <2>6. Placed(<< >>, k)
    BY <2>2, PlacedEmpty
  <2>7. /\ store' \in Store /\ Placed(store'.log, k)
        /\ \A i \in DOMAIN hist' : hist'[i] \in Store /\ Placed(hist'[i].log, k)
    BY <1>7, <2>1, <2>2, <2>3, <2>5, <2>6
  <2>8. CASE mode' # "seeding"
    BY <1>5, <2>2, <2>7, <2>8
  <2>9. CASE mode' = "seeding"
    <3>1. todo' = SubSeq(Seeds, k + 1, N) /\ todo' # << >>
      BY <2>1, <2>3, <2>9, RecordEnds
    <3>2. k < N
      <4>1. k = N => SubSeq(Seeds, k + 1, N) = << >>
        BY <1>2, <2>2, SubSeqEmpty DEF N
      <4>2. QED BY <1>2, <2>2, <3>1, <4>1
    <3>3. SeedPoint(k)'
      BY <2>2, <2>7, <2>9, <3>1, <3>2 DEF SeedPoint, N
    <3>4. QED BY <3>3
  <2>10. QED BY <2>8, <2>9
<1>9. CASE ServedApart
  <2>0. PICK op \in Op : \E rest :
          mode = "serving" /\ Record(op, rest) /\ op \notin Elements(Seeds)
    BY <1>9 DEF ServedApart
  <2>1. PICK rest :
          mode = "serving" /\ Record(op, rest) /\ op \notin Elements(Seeds)
    BY <2>0
  <2>2. NewRec(op) \in AuditRecord /\ NewRec(op).op = op /\ m \in Nat
    BY <1>2, NewRecType DEF NewRec
  <2>3. ASSUME NEW s \in Store, Placed(s.log, m)
        PROVE  Placed(Absorb(s, NewRec(op)).log, m)
    <3>1. Absorb(s, NewRec(op)).log = Append(s.log, NewRec(op))
      BY <2>2, AbsorbLog
    <3>2. QED BY <1>3, <2>1, <2>2, <2>3, <3>1, PlacedAppend
  <2>4. Placed(<< >>, m)
    BY <2>2, PlacedEmpty
  <2>5. /\ store' \in Store /\ Placed(store'.log, m)
        /\ \A i \in DOMAIN hist' : hist'[i] \in Store /\ Placed(hist'[i].log, m)
    BY <1>2, <1>7, <2>1, <2>3, <2>4
  <2>6. mode' # "seeding"
    BY <2>1, RecordEnds
  <2>7. QED BY <1>2, <1>5, <2>5, <2>6
<1>10. QED BY <1>6, <1>8, <1>9, RecordedApart DEF OnceInv

\* The seed is recorded at most once, however often seeding is interrupted by
\* crashes, torn and failed writes, and the store opened again, as long as no
\* client asks for the same ops (store.rs:459-461 and seed_fixtures).
THEOREM SeededOnce ==
  ASSUME SeedsApart
  PROVE  Spec => []SeedOnce
<1>1. Init => OnceInv
  <2> SUFFICES ASSUME Init PROVE OnceInv
    OBVIOUS
  <2>1. LogGrows /\ HeldApart
    <3>1. hist = <<EmptyStore>> /\ mode = "down" /\ EmptyStore.log = << >>
      BY DEF Init, EmptyStore
    <3>2. QED BY <3>1 DEF LogGrows, HeldApart
  <2>2. Len(Seeds) \in Nat
    BY RequestsAssumption
  <2>3. Placed(<< >>, Len(Seeds))
    BY <2>2, PlacedEmpty
  <2>4. SeedPoint(Len(Seeds))
    BY <2>2, <2>3 DEF Init, SeedPoint, EmptyStore
  <2>5. QED BY <2>1, <2>4 DEF OnceInv
<1>2. StoreInv /\ OnceInv /\ [Next]_vars => OnceInv'
  BY LogGrowsStep, HeldStep, PointStep DEF OnceInv
<1>3. StoreInv /\ OnceInv => SeedOnce
  <2> SUFFICES ASSUME StoreInv, OnceInv PROVE SeedOnce
    OBVIOUS
  <2>1. PICK m : SeedPoint(m)
    BY DEF OnceInv
  <2>2. /\ Seeds \in Seq(Op) /\ Len(Seeds) \in Nat /\ m \in Nat /\ m <= Len(Seeds)
        /\ store.log \in Seq(AuditRecord) /\ Placed(store.log, m)
    BY <2>1, RequestsAssumption DEF SeedPoint, StoreInv, TypeOK, Store
  <2>3. Placed(store.log, Len(Seeds))
    BY <2>2, PlacedMore
  <2>4. DOMAIN Seeds = 1..Len(Seeds)
    BY <2>2
  <2>5. ASSUME NEW k \in DOMAIN Seeds
        PROVE  Cardinality(Places(store.log, Seeds[k]))
                 <= Cardinality(SeedsUpTo(Len(Seeds), Seeds[k]))
    BY <2>3 DEF Placed, Elements
  <2>6. QED BY <2>4, <2>5 DEF SeedOnce, Places, SeedsUpTo
<1>4. QED BY <1>1, <1>2, <1>3, StoreInvariant, PTL DEF Spec

-----------------------------------------------------------------------------
(* The seed of src/seed.rs.                                                *)

SeedIds ==
  <<"witness-1", "witness-2", "witness-3", "quorum-1", "quorum-2", "quorum-3",
    "eu-super-quorum", "eu-root", "eu-notified", "issuer-key-a">>

RootHop   == Hop("eu-root", "eu-notified")
IssuerHop == Hop("eu-notified", "issuer-key-a")

\* What the first k seed ops make of an empty store.
SeedState(k) ==
  [nodes |-> [n \in NodeId |->
                IF \E i \in 1..10 : i <= k /\ n = SeedIds[i]
                THEN [kind |-> KindOf(n), keys |-> KeysOf(n)]
                ELSE [kind |-> Absent, keys |-> {}]],
   edges |-> IF k < 11 THEN << >>
             ELSE IF k < 12 THEN <<RootHop>> ELSE <<RootHop, IssuerHop>>,
   lists |-> [j \in Jurisdiction |->
                [framework |-> IF j = "EU" /\ k >= 13 THEN "espr" ELSE Absent,
                 entries |-> [n \in NodeId |->
                                IF j = "EU" /\ k >= 14 /\ n = "eu-root"
                                THEN FromT0 ELSE Absent]]],
   m |-> IF k >= 15 THEN 2 ELSE 1,
   witnesses |-> [n \in NodeId |->
                    IF k >= 15 /\ \E i \in 1..3 : n = WitnessIds[i] THEN {n} ELSE {}],
   roots |-> [n \in NodeId |-> IF k >= 16 /\ n = "eu-root" THEN RootAttestations
                               ELSE Absent],
   ledger |-> IF k < 17 THEN << >>
              ELSE IF k < 18 THEN <<Misissuance>>
              ELSE <<Misissuance, KeyCompromise>>,
   evidence |-> [e \in EvidenceId |-> Absent],
   log |-> << >>]

\* The ids and keys of the fixtures are ids and keys.
LEMMA SeedNames ==
  ASSUME SeedVocabulary
  PROVE  /\ \A i \in 1..10 : SeedIds[i] \in NodeId /\ KeysOf(SeedIds[i]) \subseteq Key
         /\ \A i \in 1..10 : KindOf(SeedIds[i]) \in Kind
<1>1. \A i \in 1..10 : SeedIds[i] \in SeedNodeIds
  BY DEF SeedIds, SeedNodeIds, WitnessIds, QuorumIds
<1>2. \A id \in SeedNodeIds : id \in NodeId /\ KeysOf(id) \subseteq Key
  BY DEF SeedVocabulary, SeedKeyNames
<1>3. \A id : KindOf(id) \in Kind
  BY DEF KindOf, Group, Plain, Kind
<1>4. QED BY <1>1, <1>2, <1>3

\* u is s and the two ops of t after it.
Adds(u, s, t, n) ==
  /\ u \in Seq(Op) /\ Len(u) = n + 2
  /\ \A i \in 1..n : u[i] = s[i]
  /\ u[n + 1] = t[1] /\ u[n + 2] = t[2]

\* The next two ops of a list, after n others.
LEMMA PairAdded ==
  ASSUME NEW s \in Seq(Op), NEW t \in Seq(Op), NEW n \in Nat,
         Len(s) = n, Len(t) = 2
  PROVE  Adds(s \o t, s, t, n)
<1>0. /\ s \o t \in Seq(Op) /\ Len(s \o t) = Len(s) + Len(t)
      /\ \A i \in 1..(Len(s) + Len(t)) :
           (s \o t)[i] = IF i <= Len(s) THEN s[i] ELSE t[i - Len(s)]
  BY ConcatProperties, Zenon
<1>1. /\ s \o t \in Seq(Op) /\ Len(s \o t) = n + 2
      /\ \A i \in 1..(n + 2) :
           (s \o t)[i] = IF i <= n THEN s[i] ELSE t[i - n]
  BY <1>0
<1>2. (n + 1) - n = 1 /\ (n + 2) - n = 2
  OBVIOUS
<1> DEFINE u == s \o t
<1> HIDE DEF u
<1>3. \A i \in 1..n : u[i] = s[i]
  BY <1>1 DEF u
<1>4. u[n + 1] = t[1] /\ u[n + 2] = t[2]
  <2>1. \A i \in 1..(n + 2) : i > n => u[i] = t[i - n]
    BY <1>1 DEF u
  <2>2. u[n + 1] = t[(n + 1) - n] /\ u[n + 2] = t[(n + 2) - n]
    BY <2>1
  <2>3. QED BY <1>2, <2>2
<1>5. QED BY <1>1, <1>3, <1>4 DEF u, Adds

\* seed_ops, one by one.
LEMMA SeedOpsListed ==
  ASSUME SeedVocabulary
  PROVE  /\ SeedOps \in Seq(Op) /\ Len(SeedOps) = 18
         /\ \A i \in 1..10 : SeedOps[i] = RegisterOp(SeedIds[i])
         /\ SeedOps[11] = [type |-> "add-edge", edge |-> RootHop]
         /\ SeedOps[12] = [type |-> "add-edge", edge |-> IssuerHop]
         /\ SeedOps[13] = ListOps[1] /\ SeedOps[14] = ListOps[2]
         /\ SeedOps[15] = MasterOps[1] /\ SeedOps[16] = MasterOps[2]
         /\ SeedOps[17] = [type |-> "declare-revocation", revocation |-> Misissuance]
         /\ SeedOps[18] = [type |-> "declare-revocation", revocation |-> KeyCompromise]
<1> DEFINE ids == WitnessIds \o QuorumIds
                    \o <<"eu-super-quorum", "eu-root", "eu-notified",
                         "issuer-key-a">>
<1>1. Len(ids) = 10 /\ DOMAIN ids = 1..10 /\ \A i \in 1..10 : ids[i] = SeedIds[i]
  BY DEF WitnessIds, QuorumIds, SeedIds
<1>2. NodeOps = [i \in 1..10 |-> RegisterOp(SeedIds[i])]
  BY <1>1 DEF NodeOps
<1>3. \A i \in 1..10 : RegisterOp(SeedIds[i]) \in Op
  BY SeedNames DEF RegisterOp, Op
<1>4. NodeOps \in Seq(Op) /\ Len(NodeOps) = 10
  BY <1>2, <1>3
<1>5. RootHop \in Credential /\ IssuerHop \in Credential
  <2>1. {"eu-root", "eu-notified", "issuer-key-a"} \subseteq NodeId
    BY DEF SeedVocabulary, SeedNodeIds
  <2>2. KeysOf("eu-root") \subseteq Key /\ KeysOf("eu-notified") \subseteq Key
    BY DEF SeedVocabulary, SeedKeyNames, SeedNodeIds
  <2>3. "eu-root" \in Key /\ "eu-notified" \in Key
    BY <2>2 DEF KeysOf
  <2>4. QED BY <2>1, <2>3 DEF RootHop, IssuerHop, Hop, Credential
<1>6. EdgeOps \in Seq(Op) /\ Len(EdgeOps) = 2
  BY <1>5 DEF EdgeOps, RootHop, IssuerHop, Op
<1>7. ListOps \in Seq(Op) /\ Len(ListOps) = 2
  BY UpperAssumption DEF SeedVocabulary, SeedNodeIds, ListOps, Op
<1>8. \A i \in 1..3 : WitnessIds[i] \in NodeId /\ WitnessIds[i] \in Key
  <2>1. \A i \in 1..3 : WitnessIds[i] = SeedIds[i] /\ WitnessIds[i] \in KeysOf(SeedIds[i])
    BY DEF WitnessIds, SeedIds, KeysOf
  <2>2. QED BY <2>1, SeedNames
<1>9. MasterOps \in Seq(Op) /\ Len(MasterOps) = 2
  <2>1. [i \in 1..3 |-> <<WitnessIds[i], WitnessIds[i]>>] \in Seq(NodeId \X Key)
    BY <1>8
  <2>2. MasterOps[1] \in Op
    BY <2>1 DEF MasterOps, Op
  <2>3. RootAttestations \in SUBSET Witnessing
    BY <1>8 DEF RootAttestations, Witnessing
  <2>4. MasterOps[2] \in Op
    BY <2>3 DEF MasterOps, Op, SeedVocabulary, SeedNodeIds
  <2>5. QED BY <2>2, <2>4 DEF MasterOps
<1>10. Misissuance \in Revocation /\ KeyCompromise \in Revocation
  <2>1. \A i \in 1..3 : QuorumIds[i] \in Key
    <3>1. \A i \in 1..3 : /\ QuorumIds[i] = SeedIds[i + 3]
                          /\ QuorumIds[i] \in KeysOf(SeedIds[i + 3])
      BY DEF QuorumIds, SeedIds, KeysOf
    <3>2. QED BY <3>1, SeedNames
  <2>2. Misissuance.quorum \in Attestation
    <3>1. {[key |-> QuorumIds[i], good |-> TRUE] : i \in 1..3}
            \in SUBSET [key: Key, good: BOOLEAN]
      <4>1. \A i \in 1..3 :
              [key |-> QuorumIds[i], good |-> TRUE] \in [key: Key, good: BOOLEAN]
        BY <2>1
      <4>2. QED BY <4>1
    <3>2. "eu-super-quorum" \in NodeId
      BY DEF SeedVocabulary, SeedNodeIds
    <3>3. QED BY <3>1, <3>2 DEF Misissuance, Attestation
  <2>3. QED BY <2>2 DEF Misissuance, KeyCompromise, Revocation, SeedVocabulary
<1>11. RevocationOps \in Seq(Op) /\ Len(RevocationOps) = 2
  BY <1>10 DEF RevocationOps, Op
<1> DEFINE a == NodeOps \o EdgeOps
           b == a \o ListOps
           c == b \o MasterOps
<1>12. Adds(a, NodeOps, EdgeOps, 10)
  BY <1>4, <1>6, PairAdded
<1>13. Adds(b, a, ListOps, 12)
  <2>1. a \in Seq(Op) /\ Len(a) = 12
    BY <1>12 DEF Adds
  <2> HIDE DEF a
  <2>2. QED BY <1>7, <2>1, PairAdded
<1>14. Adds(c, b, MasterOps, 14)
  <2>1. b \in Seq(Op) /\ Len(b) = 14
    BY <1>13 DEF Adds
  <2> HIDE DEF b
  <2>2. QED BY <1>9, <2>1, PairAdded
<1>15. Adds(SeedOps, c, RevocationOps, 16)
  <2>1. c \in Seq(Op) /\ Len(c) = 16 /\ SeedOps = c \o RevocationOps
    BY <1>14 DEF Adds, SeedOps
  <2> HIDE DEF c
  <2>2. QED BY <1>11, <2>1, PairAdded
<1> HIDE DEF a, b, c
<1>16. /\ a[11] = EdgeOps[1] /\ a[12] = EdgeOps[2]
       /\ \A i \in 1..10 : a[i] = NodeOps[i]
  BY <1>12 DEF Adds
<1>17. /\ b[13] = ListOps[1] /\ b[14] = ListOps[2]
       /\ \A i \in 1..12 : b[i] = a[i]
  BY <1>13 DEF Adds
<1>18. /\ c[15] = MasterOps[1] /\ c[16] = MasterOps[2]
       /\ \A i \in 1..14 : c[i] = b[i]
  BY <1>14 DEF Adds
<1>19. /\ SeedOps[17] = RevocationOps[1] /\ SeedOps[18] = RevocationOps[2]
       /\ SeedOps \in Seq(Op) /\ Len(SeedOps) = 18
       /\ \A i \in 1..16 : SeedOps[i] = c[i]
  BY <1>15 DEF Adds
<1>20. \A i \in 1..10 : SeedOps[i] = RegisterOp(SeedIds[i])
  BY <1>2, <1>16, <1>17, <1>18, <1>19
<1>21. QED
  BY <1>16, <1>17, <1>18, <1>19, <1>20
  DEF EdgeOps, RootHop, IssuerHop, RevocationOps

\* What the seed ops carry.
LEMMA SeedPayloads ==
  ASSUME SeedVocabulary
  PROVE  /\ RootHop \in Credential /\ IssuerHop \in Credential
         /\ RootAttestations \in SUBSET Witnessing
         /\ Misissuance \in Revocation /\ KeyCompromise \in Revocation
         /\ \A i \in 1..3 : WitnessIds[i] \in NodeId /\ WitnessIds[i] \in Key
         /\ "eu-root" \in NodeId /\ "eu-super-quorum" \in NodeId
         /\ "eu-notified" \in NodeId /\ "issuer-key-a" \in NodeId
<1>0. SeedOps \in Seq(Op) /\ Len(SeedOps) = 18
  BY SeedOpsListed
<1>1. \A i \in 1..18 : SeedOps[i] \in Op
  BY <1>0, ElementOfSeq
<1>2. RootHop \in Credential /\ IssuerHop \in Credential
  <2>1. SeedOps[11] \in Op /\ SeedOps[12] \in Op
    BY <1>1
  <2>2. QED BY <2>1, SeedOpsListed DEF Op
<1>3. Misissuance \in Revocation /\ KeyCompromise \in Revocation
  <2>1. SeedOps[17] \in Op /\ SeedOps[18] \in Op
    BY <1>1
  <2>2. QED BY <2>1, SeedOpsListed DEF Op
<1>4. \A i \in 1..3 : WitnessIds[i] \in NodeId /\ WitnessIds[i] \in Key
  <2>1. \A i \in 1..3 : WitnessIds[i] = SeedIds[i] /\ WitnessIds[i] \in KeysOf(SeedIds[i])
    BY DEF WitnessIds, SeedIds, KeysOf
  <2>2. QED BY <2>1, SeedNames
<1>5. RootAttestations \in SUBSET Witnessing
  BY <1>4 DEF RootAttestations, Witnessing
<1>6. QED
  BY <1>2, <1>3, <1>4, <1>5 DEF SeedVocabulary, SeedNodeIds

\* Every stage of seeding is a store.
LEMMA SeedStateType ==
  ASSUME SeedVocabulary, NEW k \in 0..18
  PROVE  SeedState(k) \in Store
<1> DEFINE s == SeedState(k)
<1>1. s.nodes \in [NodeId -> Node]
  BY SeedNames DEF SeedState, Node
<1>2. s.edges \in Seq(Credential) /\ s.ledger \in Seq(Revocation)
  BY SeedPayloads DEF SeedState
<1>3. s.lists \in [Jurisdiction -> TrustList]
  BY DEF SeedVocabulary, SeedState, TrustList
<1>4. s.m \in Nat
  BY DEF SeedState
<1>5. s.witnesses \in [NodeId -> SUBSET Key]
  BY SeedPayloads DEF SeedState
<1>6. s.roots \in [NodeId -> (SUBSET Witnessing) \cup {Absent}]
  BY SeedPayloads DEF SeedState
<1>7. s.evidence \in [EvidenceId -> Scope \cup {Absent}] /\ s.log \in Seq(AuditRecord)
  BY DEF SeedState
<1>8. QED
  BY <1>1, <1>2, <1>3, <1>4, <1>5, <1>6, <1>7 DEF SeedState, Store

\* From s, op applies and makes t.
Steps(s, op, t) == Applies(s, op) /\ t = Effect(s, op)

\* Each of the first ten registers a node that is not there yet.
LEMMA SeedNodesStep ==
  ASSUME SeedVocabulary, NEW k \in 1..10
  PROVE  Steps(SeedState(k - 1), SeedOps[k], SeedState(k))
<1> DEFINE s == SeedState(k - 1)  t == SeedState(k)  id == SeedIds[k]
           u == PutNode(s, RegisterOp(id))
<1>1. SeedOps[k] = RegisterOp(id)
  BY SeedOpsListed
<1>2. RegisterOp(id).type = "register-node"
  BY DEF RegisterOp
<1>3. Applies(s, RegisterOp(id)) /\ Effect(s, RegisterOp(id)) = u
  BY <1>2 DEF Applies, Effect
<1>4. id \in NodeId
  BY SeedNames
<1>5. \A i, j \in 1..10 : SeedIds[i] = SeedIds[j] => i = j
  BY DEF SeedIds
<1>6. s.nodes[id].keys = {}
  BY <1>4, <1>5 DEF SeedState
<1>7. u = [s EXCEPT !.nodes[id] = [kind |-> KindOf(id), keys |-> KeysOf(id)]]
  BY <1>6 DEF PutNode, RegisterOp
<1>8. t.nodes = [s.nodes EXCEPT ![id] = [kind |-> KindOf(id), keys |-> KeysOf(id)]]
  <2>1. t.nodes = [n \in NodeId |->
                     IF \E i \in 1..10 : i <= k /\ n = SeedIds[i]
                     THEN [kind |-> KindOf(n), keys |-> KeysOf(n)]
                     ELSE [kind |-> Absent, keys |-> {}]]
    BY DEF SeedState
  <2>2. s.nodes = [n \in NodeId |->
                     IF \E i \in 1..10 : i <= k - 1 /\ n = SeedIds[i]
                     THEN [kind |-> KindOf(n), keys |-> KeysOf(n)]
                     ELSE [kind |-> Absent, keys |-> {}]]
    BY DEF SeedState
  <2>3. ASSUME NEW n \in NodeId, n # id
        PROVE  t.nodes[n] = s.nodes[n]
    <3>1. (\E i \in 1..10 : i <= k /\ n = SeedIds[i])
            <=> (\E i \in 1..10 : i <= k - 1 /\ n = SeedIds[i])
      BY <2>3
    <3>2. QED BY <2>1, <2>2, <3>1
  <2>4. t.nodes[id] = [kind |-> KindOf(id), keys |-> KeysOf(id)]
    BY <1>4, <2>1
  <2>5. QED BY <2>1, <2>2, <2>3, <2>4, <1>4
<1>9. t = [s EXCEPT !.nodes = [s.nodes EXCEPT ![id] =
                                 [kind |-> KindOf(id), keys |-> KeysOf(id)]]]
  <2>1. /\ t.edges = s.edges /\ t.lists = s.lists /\ t.m = s.m
        /\ t.witnesses = s.witnesses /\ t.roots = s.roots /\ t.ledger = s.ledger
        /\ t.evidence = s.evidence /\ t.log = s.log
    BY DEF SeedState
  <2>2. s \in Store /\ t \in Store
    BY SeedStateType
  <2>3. QED BY <1>8, <2>1, <2>2 DEF Store
<1>10. QED BY <1>1, <1>3, <1>7, <1>9 DEF Steps

\* A second element comes after the first.
LEMMA AppendOne ==
  ASSUME NEW S, NEW x \in S, NEW y \in S
  PROVE  Append(<<x>>, y) = <<x, y>>
<1>1. <<x>> \in Seq(S) /\ Len(<<x>>) = 1 /\ <<x>>[1] = x
  OBVIOUS
<1>2. <<x, y>> \in Seq(S) /\ Len(<<x, y>>) = 2 /\ <<x, y>>[1] = x /\ <<x, y>>[2] = y
  OBVIOUS
<1> DEFINE s == <<x>>  t == <<x, y>>
<1> HIDE DEF s, t
<1>3. s \in Seq(S) /\ Len(s) = 1 /\ s[1] = x
  BY <1>1 DEF s
<1>4. t \in Seq(S) /\ Len(t) = 2 /\ t[1] = x /\ t[2] = y
  BY <1>2 DEF t
<1>5. /\ Append(s, y) \in Seq(S) /\ Len(Append(s, y)) = 2
      /\ Append(s, y)[1] = x /\ Append(s, y)[2] = y
  <2>1. /\ Append(s, y) \in Seq(S) /\ Len(Append(s, y)) = Len(s) + 1
        /\ \A i \in 1..Len(s) : Append(s, y)[i] = s[i]
        /\ Append(s, y)[Len(s) + 1] = y
    <3>1. /\ Append(s, y) \in Seq(S)
          /\ Append(s, y) # << >>
          /\ Len(Append(s, y)) = Len(s) + 1
          /\ \A i \in 1..Len(s) : Append(s, y)[i] = s[i]
          /\ Append(s, y)[Len(s) + 1] = y
      <4>1. s \in Seq(S)
        BY <1>3
      <4>2. QED BY <4>1, AppendProperties, Zenon
    <3>2. QED BY <3>1
  <2>2. 1 \in 1..Len(s) /\ Len(s) + 1 = 2
    BY <1>3
  <2>3. QED BY <1>3, <2>1, <2>2
<1>6. Append(s, y) = t
  BY <1>4, <1>5, SeqEqual
<1>7. QED BY <1>6 DEF s, t

\* Then the chain, the list and its entry, the witnesses and the root, and
\* the two declarations.
LEMMA SeedEdgesStep ==
  ASSUME SeedVocabulary, NEW k \in 11..12
  PROVE  Steps(SeedState(k - 1), SeedOps[k], SeedState(k))
<1> DEFINE s == SeedState(k - 1)  t == SeedState(k)
           e == IF k = 11 THEN RootHop ELSE IssuerHop
<1>1. SeedOps[k] = [type |-> "add-edge", edge |-> e]
  BY SeedOpsListed
<1>2. \A i \in 1..10 : s.nodes[SeedIds[i]] = [kind |-> KindOf(SeedIds[i]),
                                              keys |-> KeysOf(SeedIds[i])]
  BY SeedNames DEF SeedState
<1>3. /\ SeedIds[8] = "eu-root" /\ SeedIds[9] = "eu-notified"
      /\ SeedIds[10] = "issuer-key-a"
  BY DEF SeedIds
<1>4. \A i \in 1..10 : Registered(s, SeedIds[i])
  BY <1>2, SeedNames, AbsentAssumption DEF Registered
<1>5. "eu-root" \in s.nodes["eu-root"].keys
        /\ "eu-notified" \in s.nodes["eu-notified"].keys
  <2>1. s.nodes["eu-root"].keys = KeysOf("eu-root")
    BY <1>2, <1>3
  <2>2. s.nodes["eu-notified"].keys = KeysOf("eu-notified")
    BY <1>2, <1>3
  <2>3. QED BY <2>1, <2>2 DEF KeysOf
<1>6. EdgeAccepted(s, e)
  BY <1>3, <1>4, <1>5 DEF EdgeAccepted, RootHop, IssuerHop, Hop
<1>7. Applies(s, SeedOps[k]) /\ Effect(s, SeedOps[k]) = [s EXCEPT !.edges = Append(@, e)]
  BY <1>1, <1>6 DEF Applies, Effect, PutEdge
<1>8. t.edges = Append(s.edges, e)
  <2>1. CASE k = 11
    <3>1. s.edges = << >> /\ t.edges = <<RootHop>> /\ e = RootHop
      BY <2>1 DEF SeedState
    <3>2. QED BY <3>1
  <2>2. CASE k = 12
    <3>1. s.edges = <<RootHop>> /\ t.edges = <<RootHop, IssuerHop>> /\ e = IssuerHop
      BY <2>2 DEF SeedState
    <3>2. Append(<<RootHop>>, IssuerHop) = <<RootHop, IssuerHop>>
      BY AppendOne, SeedPayloads
    <3> HIDE DEF s, t, e
    <3>3. QED BY <3>1, <3>2, Zenon
  <2>3. QED BY <2>1, <2>2
<1>9. t = [s EXCEPT !.edges = Append(s.edges, e)]
  <2>1. t.nodes = s.nodes
    <3>1. \A i \in 1..10 : i <= k /\ i <= k - 1
      OBVIOUS
    <3>2. QED BY <3>1 DEF SeedState
  <2>2. /\ t.lists = s.lists /\ t.m = s.m
        /\ t.witnesses = s.witnesses /\ t.roots = s.roots /\ t.ledger = s.ledger
        /\ t.evidence = s.evidence /\ t.log = s.log
    BY DEF SeedState
  <2>3. s \in Store /\ t \in Store
    BY SeedStateType
  <2>4. QED BY <1>8, <2>1, <2>2, <2>3 DEF Store
<1>10. QED BY <1>7, <1>9 DEF Steps

\* A store that differs from another in one field only.
LEMMA OneField ==
  ASSUME NEW s \in Store, NEW t \in Store, t.log = s.log, t.nodes = s.nodes,
         t.edges = s.edges, t.evidence = s.evidence
  PROVE  /\ /\ t.m = s.m /\ t.witnesses = s.witnesses
            /\ t.roots = s.roots /\ t.ledger = s.ledger
            => t = [s EXCEPT !.lists = t.lists]
         /\ /\ t.lists = s.lists /\ t.roots = s.roots /\ t.ledger = s.ledger
            => t = [s EXCEPT !.m = t.m, !.witnesses = t.witnesses]
         /\ /\ t.lists = s.lists /\ t.m = s.m /\ t.witnesses = s.witnesses
            /\ t.ledger = s.ledger
            => t = [s EXCEPT !.roots = t.roots]
         /\ /\ t.lists = s.lists /\ t.m = s.m /\ t.witnesses = s.witnesses
            /\ t.roots = s.roots
            => t = [s EXCEPT !.ledger = t.ledger]
BY DEF Store

\* The last eight ops register no node.
LEMMA SeedNodesStand ==
  ASSUME NEW j \in 10..18, NEW k \in 10..18
  PROVE  SeedState(j).nodes = SeedState(k).nodes
<1>1. \A i \in 1..10 : i <= j /\ i <= k
  OBVIOUS
<1>2. QED BY <1>1 DEF SeedState

\* Ops 13 and 14: the list of the EU and its one entry.
LEMMA SeedListsStep ==
  ASSUME SeedVocabulary, NEW k \in 13..14
  PROVE  Steps(SeedState(k - 1), SeedOps[k], SeedState(k))
<1> DEFINE s == SeedState(k - 1)  t == SeedState(k)
<1>1. s \in Store /\ t \in Store
  BY SeedStateType
<1>2. /\ t.nodes = s.nodes /\ t.edges = s.edges /\ t.m = s.m
      /\ t.witnesses = s.witnesses /\ t.roots = s.roots /\ t.ledger = s.ledger
      /\ t.evidence = s.evidence /\ t.log = s.log
  BY SeedNodesStand DEF SeedState
<1>3. CASE k = 13
  <2>1. SeedOps[13] = [type |-> "register-trust-list", name |-> "EU",
                       framework |-> "espr"]
    BY SeedOpsListed DEF ListOps
  <2>2. Applies(s, SeedOps[13])
    BY <1>3, <2>1 DEF SeedVocabulary, Applies, ListKnown, SeedState
  <2>3. Effect(s, SeedOps[13]) =
          [s EXCEPT !.lists["EU"] = [framework |-> "espr",
                                     entries |-> [n \in NodeId |-> Absent]]]
    BY <2>1 DEF SeedVocabulary, Effect, PutList
  <2>4. t.lists = [s.lists EXCEPT !["EU"] = [framework |-> "espr",
                                     entries |-> [n \in NodeId |-> Absent]]]
    BY <1>3 DEF SeedVocabulary, SeedState
  <2>5. t = Effect(s, SeedOps[13])
    <3>1. Effect(s, SeedOps[13]) = [s EXCEPT !.lists = t.lists]
      BY <2>3, <2>4
    <3>2. QED BY <1>1, <1>2, <3>1, OneField
  <2>6. QED BY <1>3, <2>2, <2>5 DEF Steps
<1>4. CASE k = 14
  <2>1. SeedOps[14] = [type |-> "upsert-trust-entry", name |-> "EU",
                       node |-> "eu-root", dates |-> FromT0]
    BY SeedOpsListed DEF ListOps
  <2>2. Applies(s, SeedOps[14])
    BY <1>4, <2>1, AbsentAssumption DEF SeedVocabulary, Applies, ListKnown, SeedState
  <2>3. Effect(s, SeedOps[14]) = [s EXCEPT !.lists["EU"].entries["eu-root"] = FromT0]
    BY <2>1 DEF SeedVocabulary, Effect, PutEntry
  <2>4. t.lists = [s.lists EXCEPT !["EU"].entries["eu-root"] = FromT0]
    <3>1. /\ "EU" \in Jurisdiction /\ "eu-root" \in NodeId
          /\ s.lists["EU"] = [framework |-> "espr", entries |-> [n \in NodeId |-> Absent]]
          /\ t.lists["EU"] = [framework |-> "espr",
                              entries |-> [n \in NodeId |-> IF n = "eu-root" THEN FromT0
                                                            ELSE Absent]]
      BY <1>4 DEF SeedVocabulary, SeedState, SeedNodeIds
    <3>2. \A j \in Jurisdiction : j # "EU" => t.lists[j] = s.lists[j]
      BY <1>4 DEF SeedState
    <3>3. /\ s.lists = [j \in Jurisdiction |-> s.lists[j]]
          /\ t.lists = [j \in Jurisdiction |-> t.lists[j]]
      BY <1>1 DEF Store
    <3>4. t.lists["EU"] = [s.lists["EU"] EXCEPT !.entries["eu-root"] = FromT0]
      BY <3>1
    <3> HIDE DEF s, t
    <3>5. QED BY <3>1, <3>2, <3>3, <3>4
  <2>5. t = Effect(s, SeedOps[14])
    <3>1. Effect(s, SeedOps[14]) = [s EXCEPT !.lists = t.lists]
      BY <2>3, <2>4
    <3>2. QED BY <1>1, <1>2, <3>1, OneField
  <2>6. QED BY <1>4, <2>2, <2>5 DEF Steps
<1>5. QED BY <1>3, <1>4

\* Ops 15 and 16: the witness set and the root it has signed.
LEMMA SeedMasterStep ==
  ASSUME SeedVocabulary, NEW k \in 15..16
  PROVE  Steps(SeedState(k - 1), SeedOps[k], SeedState(k))
<1> DEFINE s == SeedState(k - 1)  t == SeedState(k)
<1>1. s \in Store /\ t \in Store
  BY SeedStateType
<1>2. /\ t.nodes = s.nodes /\ t.edges = s.edges /\ t.lists = s.lists
      /\ t.ledger = s.ledger /\ t.evidence = s.evidence /\ t.log = s.log
  BY SeedNodesStand DEF SeedState
<1>3. CASE k = 15
  <2> DEFINE ws == [i \in 1..3 |-> <<WitnessIds[i], WitnessIds[i]>>]
  <2>1. SeedOps[15] = [type |-> "set-witnesses", m |-> 2, witnesses |-> ws]
    BY SeedOpsListed DEF MasterOps
  <2>2. Len(ws) = 3 /\ ws # << >>
    OBVIOUS
  <2>3. Applies(s, SeedOps[15])
    BY <2>1, <2>2 DEF Applies, WitnessSetSound
  <2>4. Effect(s, SeedOps[15]) =
          [s EXCEPT !.m = 2, !.witnesses = [n \in NodeId |-> LastKeyOf(ws, n)]]
    BY <2>1 DEF Effect, PutWitnesses
  <2>5. ASSUME NEW n \in NodeId
        PROVE  LastKeyOf(ws, n) = IF \E i \in 1..3 : n = WitnessIds[i] THEN {n} ELSE {}
    <3>1. \A i, j \in 1..3 : WitnessIds[i] = WitnessIds[j] => i = j
      BY DEF WitnessIds
    <3>2. DOMAIN ws = 1..3 /\ \A i \in 1..3 : /\ ws[i][1] = WitnessIds[i]
                                              /\ ws[i] = <<WitnessIds[i], WitnessIds[i]>>
      OBVIOUS
    <3>3. \A i \in 1..3 : WitnessIds[i] \in Key
      BY SeedPayloads
    <3> HIDE DEF ws
    <3>4. \A x \in LastKeyOf(ws, n) : x = n /\ \E i \in 1..3 : n = WitnessIds[i]
      BY <3>2 DEF LastKeyOf
    <3>5. (\E i \in 1..3 : n = WitnessIds[i]) => n \in LastKeyOf(ws, n)
      BY <3>1, <3>2, <3>3 DEF LastKeyOf
    <3>6. QED BY <3>4, <3>5
  <2>6. t.witnesses = [n \in NodeId |-> LastKeyOf(ws, n)] /\ t.m = 2
    <3>1. t.m = 2 /\ t.witnesses =
            [n \in NodeId |-> IF \E i \in 1..3 : n = WitnessIds[i] THEN {n} ELSE {}]
      BY <1>3 DEF SeedState
    <3> HIDE DEF s, t, ws
    <3>2. QED BY <2>5, <3>1
  <2>7. t.roots = s.roots
    BY <1>3 DEF SeedState
  <2>8. Effect(s, SeedOps[15]) = [s EXCEPT !.m = t.m, !.witnesses = t.witnesses]
    BY <2>4, <2>6
  <2>9. t = Effect(s, SeedOps[15])
    BY <1>1, <1>2, <2>7, <2>8, OneField
  <2>10. QED BY <1>3, <2>3, <2>9 DEF Steps
<1>4. CASE k = 16
  <2>1. SeedOps[16] = [type |-> "upsert-master-entry", node |-> "eu-root",
                       attestations |-> RootAttestations]
    BY SeedOpsListed DEF MasterOps
  <2>2. \A i \in 1..3 : s.witnesses[WitnessIds[i]] = {WitnessIds[i]}
    BY <1>4, SeedPayloads DEF SeedState
  <2>3. \A a \in RootAttestations : s.witnesses[a.witness] # {}
    BY <2>2 DEF RootAttestations
  <2>4. Applies(s, SeedOps[16])
    BY <2>1, <2>3 DEF Applies, WitnessesKnown
  <2>5. Effect(s, SeedOps[16]) = [s EXCEPT !.roots["eu-root"] = RootAttestations]
    BY <2>1 DEF Effect, PutRoot
  <2>6. t.roots = [s.roots EXCEPT !["eu-root"] = RootAttestations]
    BY <1>4, SeedPayloads DEF SeedState
  <2>7. t.m = s.m /\ t.witnesses = s.witnesses
    BY <1>4 DEF SeedState
  <2>8. Effect(s, SeedOps[16]) = [s EXCEPT !.roots = t.roots]
    BY <2>5, <2>6
  <2>9. t = Effect(s, SeedOps[16])
    BY <1>1, <1>2, <2>7, <2>8, OneField
  <2>10. QED BY <1>4, <2>4, <2>9 DEF Steps
<1>5. QED BY <1>3, <1>4

\* The misissuance declaration is quorate: three members sign, two suffice.
LEMMA MisissuanceQuorate ==
  ASSUME SeedVocabulary, NEW k \in 10..18
  PROVE  Quorate(SeedState(k).nodes, Misissuance.quorum)
<1> DEFINE nodes == SeedState(k).nodes  att == Misissuance.quorum
           members == MemberKeys(nodes, att)
<1>1. att = [node |-> "eu-super-quorum", threshold |-> 2,
             slots |-> {[key |-> QuorumIds[i], good |-> TRUE] : i \in 1..3}]
  BY DEF Misissuance
<1>2. \A i \in 1..3 : QuorumIds[i] \in Signers(att)
  <2>1. ASSUME NEW i \in 1..3
        PROVE  QuorumIds[i] \in Signers(att)
    <3> DEFINE x == [key |-> QuorumIds[i], good |-> TRUE]
    <3>0. att.slots = {[key |-> QuorumIds[j], good |-> TRUE] : j \in 1..3}
      BY DEF Misissuance
    <3>1. x \in att.slots /\ x.good /\ x.key = QuorumIds[i]
      <4>1. x \in {[key |-> QuorumIds[j], good |-> TRUE] : j \in 1..3}
        BY Zenon
      <4>2. x.good /\ x.key = QuorumIds[i]
        OBVIOUS
      <4> HIDE DEF x, att
      <4>3. QED BY <3>0, <4>1, <4>2
    <3> HIDE DEF x, att
    <3>2. QED BY <3>1 DEF Signers
  <2>2. QED BY <2>1
<1>3. Signers(att) \subseteq Key
  <2>1. Misissuance \in Revocation /\ Misissuance.quorum.node = "eu-super-quorum"
    BY SeedPayloads DEF Misissuance
  <2>2. \A i \in 1..3 : QuorumIds[i] \in Key
    <3>1. \A i \in 1..3 : /\ QuorumIds[i] = SeedIds[i + 3]
                          /\ QuorumIds[i] \in KeysOf(SeedIds[i + 3])
      BY DEF QuorumIds, SeedIds, KeysOf
    <3>2. QED BY <3>1, SeedNames
  <2>3. QED BY <1>1, <2>2 DEF Signers
<1>4. \A i \in 1..10 : nodes[SeedIds[i]].keys = KeysOf(SeedIds[i])
                          /\ SeedIds[i] \in DOMAIN nodes
  BY SeedNames DEF SeedState
<1>5. \A i \in 1..3 : QuorumIds[i] \in nodes[QuorumIds[i]].keys
                        /\ QuorumIds[i] \in DOMAIN nodes
  <2>1. \A i \in 1..3 : /\ QuorumIds[i] = SeedIds[i + 3]
                        /\ QuorumIds[i] \in KeysOf(SeedIds[i + 3])
    BY DEF QuorumIds, SeedIds, KeysOf
  <2>2. QED BY <1>4, <2>1
<1>6. nodes[att.node].keys = {}
  <2>1. SeedIds[7] = "eu-super-quorum" /\ KeysOf("eu-super-quorum") = {}
    BY DEF SeedIds, KeysOf
  <2>2. QED BY <1>1, <1>4, <2>1
<1>7. \A i \in 1..3 : QuorumIds[i] \in members
  BY <1>2, <1>5, <1>6 DEF MemberKeys, Resolves
<1>8. IsFiniteSet(members)
  <2>1. members \subseteq Key
    BY <1>3 DEF MemberKeys
  <2>2. QED BY <2>1, KeyAssumption, FS_Subset
<1>9. QuorumIds[1] # QuorumIds[2]
  BY DEF QuorumIds
<1>10. Cardinality(members) >= 2
  <2> DEFINE a == QuorumIds[1]  b == QuorumIds[2]
  <2>1. a \in members /\ b \in members /\ a # b
    BY <1>7, <1>9
  <2> HIDE DEF members, a, b
  <2>2. Cardinality(members \ {a}) = Cardinality(members) - 1
          /\ IsFiniteSet(members \ {a})
    BY <1>8, <2>1, FS_RemoveElement
  <2>3. Cardinality(members \ {a}) # 0
    BY <2>1, <2>2, FS_EmptySet
  <2>4. Cardinality(members) \in Nat /\ Cardinality(members \ {a}) \in Nat
    BY <1>8, <2>2, FS_CardinalityType
  <2>5. QED BY <2>2, <2>3, <2>4
<1>11. QED BY <1>1, <1>10 DEF Quorate

\* Ops 17 and 18: two declarations, of which one needs a quorum and has it.
LEMMA SeedLedgerStep ==
  ASSUME SeedVocabulary, NEW k \in 17..18
  PROVE  Steps(SeedState(k - 1), SeedOps[k], SeedState(k))
<1> DEFINE s == SeedState(k - 1)  t == SeedState(k)
           r == IF k = 17 THEN Misissuance ELSE KeyCompromise
<1>1. s \in Store /\ t \in Store
  BY SeedStateType
<1>2. SeedOps[k] = [type |-> "declare-revocation", revocation |-> r]
  BY SeedOpsListed
<1>3. RevocationSound(s, r) /\ LedgerAccepts(r)
  <2>1. CASE k = 17
    <3>1. Quorate(s.nodes, Misissuance.quorum)
      BY <2>1, MisissuanceQuorate
    <3>2. Misissuance.quorum # Absent
      BY DEF SeedVocabulary
    <3>3. QED BY <2>1, <3>1, <3>2 DEF RevocationSound, LedgerAccepts
  <2>2. CASE k = 18
    BY <2>2 DEF RevocationSound, LedgerAccepts, KeyCompromise
  <2>3. QED BY <2>1, <2>2
<1>4. Applies(s, SeedOps[k]) /\ Effect(s, SeedOps[k]) = [s EXCEPT !.ledger = Append(@, r)]
  BY <1>2, <1>3 DEF Applies, Effect, PutRevocation
<1>5. t.ledger = Append(s.ledger, r)
  <2>1. CASE k = 17
    <3>1. s.ledger = << >> /\ t.ledger = <<Misissuance>> /\ r = Misissuance
      BY <2>1 DEF SeedState
    <3>2. QED BY <3>1
  <2>2. CASE k = 18
    <3>1. s.ledger = <<Misissuance>> /\ t.ledger = <<Misissuance, KeyCompromise>>
            /\ r = KeyCompromise
      BY <2>2 DEF SeedState
    <3>2. Append(<<Misissuance>>, KeyCompromise) = <<Misissuance, KeyCompromise>>
      BY AppendOne, SeedPayloads
    <3> HIDE DEF s, t, r
    <3>3. QED BY <3>1, <3>2, Zenon
  <2>3. QED BY <2>1, <2>2
<1>6. /\ t.nodes = s.nodes /\ t.edges = s.edges /\ t.lists = s.lists
      /\ t.m = s.m /\ t.witnesses = s.witnesses /\ t.roots = s.roots
      /\ t.evidence = s.evidence /\ t.log = s.log
  BY SeedNodesStand DEF SeedState
<1>7. t = Effect(s, SeedOps[k])
  <2>1. Effect(s, SeedOps[k]) = [s EXCEPT !.ledger = t.ledger]
    BY <1>4, <1>5
  <2>2. QED BY <1>1, <1>6, <2>1, OneField
<1>8. QED BY <1>4, <1>7 DEF Steps

\* Every op applies to the stage before it and makes the next one.
LEMMA SeedSteps ==
  ASSUME SeedVocabulary
  PROVE  \A k \in 1..18 : Steps(SeedState(k - 1), SeedOps[k], SeedState(k))
<1> TAKE k \in 1..18
<1>1. k \in 1..10 \/ k \in 11..12 \/ k \in 13..14 \/ k \in 15..16 \/ k \in 17..18
  OBVIOUS
<1>2. QED
  BY <1>1, SeedNodesStep, SeedEdgesStep, SeedListsStep, SeedMasterStep,
     SeedLedgerStep

\* Seeding starts from the empty store.
LEMMA SeedStart == SeedState(0) = EmptyStore
<1>1. SeedState(0).nodes = [n \in NodeId |-> [kind |-> Absent, keys |-> {}]]
  BY DEF SeedState
<1>2. SeedState(0).lists = [j \in Jurisdiction |->
                              [framework |-> Absent,
                               entries |-> [n \in NodeId |-> Absent]]]
  BY DEF SeedState
<1>3. /\ SeedState(0).witnesses = [n \in NodeId |-> {}]
      /\ SeedState(0).roots = [n \in NodeId |-> Absent]
  BY DEF SeedState
<1>4. QED BY <1>1, <1>2, <1>3 DEF SeedState, EmptyStore

\* The hypothesis of the theorems above is met by the seed of src/seed.rs:
\* seed_ops is in an order in which every op applies ("nodes before edges;
\* lists before entries"), so seed_fixtures never records one that does not.
THEOREM SeedsOfSourceApply ==
  ASSUME SeedVocabulary, Seeds = SeedOps
  PROVE  SeedsApply
<1> DEFINE f == [k \in 0..18 |-> SeedState(k)]
<1>1. Len(Seeds) = 18
  BY SeedOpsListed
<1>2. f \in [0..18 -> Store]
  BY SeedStateType
<1>3. f[0] = EmptyStore
  BY SeedStart
<1>4. \A k \in 1..18 : Applies(f[k - 1], Seeds[k]) /\ f[k] = Effect(f[k - 1], Seeds[k])
  <2>1. \A k \in 1..18 : f[k - 1] = SeedState(k - 1) /\ f[k] = SeedState(k)
    OBVIOUS
  <2> HIDE DEF f
  <2>2. QED BY <2>1, SeedSteps DEF Steps
<1> HIDE DEF f
<1>5. SeedRun(f)
  BY <1>1, <1>2, <1>3, <1>4 DEF SeedRun
<1>6. QED BY <1>5 DEF SeedsApply

\* ... and what they build is what build_graph, build_trust_lists,
\* build_master_list and build_ledger build directly: the "parallel
\* fixtures" of src/seed.rs are one store.
THEOREM SeedsBuildFixtures ==
  ASSUME SeedVocabulary
  PROVE  SeedState(18) = Fixtures
<1> DEFINE s == SeedState(18)
<1>1. Fixtures.nodes = s.nodes
  <2>1. \A n : n \in SeedNodeIds <=> \E i \in 1..10 : i <= 18 /\ n = SeedIds[i]
    BY DEF SeedNodeIds, WitnessIds, QuorumIds, SeedIds
  <2>2. Fixtures.nodes = [n \in NodeId |->
          IF n \in SeedNodeIds THEN [kind |-> KindOf(n), keys |-> KeysOf(n)]
          ELSE [kind |-> Absent, keys |-> {}]]
    BY DEF Fixtures, EmptyStore
  <2>3. QED BY <2>1, <2>2 DEF SeedState
<1>2. Fixtures.lists = s.lists
  <2> DEFINE eu == [framework |-> "espr",
                    entries |-> [n \in NodeId |-> IF n = "eu-root" THEN FromT0
                                                  ELSE Absent]]
  <2>1. Fixtures.lists = [j \in Jurisdiction |->
                            IF j = "EU" THEN eu ELSE EmptyStore.lists[j]]
    BY DEF Fixtures, EmptyStore
  <2>2. \A j \in Jurisdiction : EmptyStore.lists[j] =
          [framework |-> Absent, entries |-> [n \in NodeId |-> Absent]]
    BY DEF EmptyStore
  <2>3. s.lists = [j \in Jurisdiction |->
                     IF j = "EU" THEN eu
                     ELSE [framework |-> Absent, entries |-> [n \in NodeId |-> Absent]]]
    BY DEF SeedState
  <2>4. QED BY <2>1, <2>2, <2>3
<1>3. Fixtures.edges = s.edges /\ Fixtures.ledger = s.ledger
  BY DEF Fixtures, EmptyStore, SeedState, RootHop, IssuerHop
<1>4. Fixtures.m = s.m /\ Fixtures.evidence = s.evidence /\ Fixtures.log = s.log
  BY DEF Fixtures, EmptyStore, SeedState
<1>5. Fixtures.witnesses = s.witnesses
  BY DEF Fixtures, EmptyStore, SeedState
<1>6. Fixtures.roots = s.roots
  BY DEF Fixtures, EmptyStore, SeedState
<1>7. Fixtures = [nodes |-> Fixtures.nodes, edges |-> Fixtures.edges,
                  lists |-> Fixtures.lists, m |-> Fixtures.m,
                  witnesses |-> Fixtures.witnesses, roots |-> Fixtures.roots,
                  ledger |-> Fixtures.ledger, evidence |-> Fixtures.evidence,
                  log |-> Fixtures.log]
  <2>1. \E N, E, L, M, W, R, G :
          Fixtures = [EmptyStore EXCEPT !.nodes = N, !.edges = E, !.lists = L,
                        !.m = M, !.witnesses = W, !.roots = R, !.ledger = G]
    BY Zenon DEF Fixtures
  <2>2. PICK N, E, L, M, W, R, G :
          Fixtures = [EmptyStore EXCEPT !.nodes = N, !.edges = E, !.lists = L,
                        !.m = M, !.witnesses = W, !.roots = R, !.ledger = G]
    BY <2>1, Zenon
  <2>3. EmptyStore \in Store
    BY EmptyStoreType
  <2>4. QED BY <2>2, <2>3 DEF Store
<1>8. s = [nodes |-> s.nodes, edges |-> s.edges, lists |-> s.lists, m |-> s.m,
           witnesses |-> s.witnesses, roots |-> s.roots, ledger |-> s.ledger,
           evidence |-> s.evidence, log |-> s.log]
  BY DEF SeedState
<1>9. QED BY <1>1, <1>2, <1>3, <1>4, <1>5, <1>6, <1>7, <1>8
=============================================================================
