------------------------------ MODULE LogProofs ------------------------------
(***************************************************************************)
(* The audit log, for every value of the constants: its order whatever was *)
(* lost, its numbers as long as nothing was, how much can be lost, what its *)
(* records do to the acceptance of a root, and what it is when no write is *)
(* cut short or fails.                                                     *)
(***************************************************************************)
EXTENDS QuorumProofs

\* The log grows by the record, also when its op does not apply.
LEMMA AbsorbLog ==
  ASSUME NEW s \in Store, NEW rec \in AuditRecord
  PROVE  Absorb(s, rec).log = Append(s.log, rec)
<1> DEFINE t == ApplyOp(s, rec.op)
<1>1. rec.op \in Op
  BY DEF AuditRecord
<1>2. t \in Store /\ t.log = s.log
  BY <1>1, EffectType, EffectOnNodes DEF ApplyOp
<1> HIDE DEF t
<1>3. [t EXCEPT !.log = Append(@, rec)].log = Append(s.log, rec)
  BY <1>2 DEF Store
<1>4. QED BY <1>3 DEF Absorb, t

-----------------------------------------------------------------------------
(* Order.                                                                  *)

\* Ids increase along the log and are at most k.
InOrder(log, k) ==
  /\ \A i \in DOMAIN log : log[i].id <= k
  /\ \A i, j \in DOMAIN log : i < j => log[i].id < log[j].id

\* A record with the next id keeps the order.
LEMMA OrderAppends ==
  ASSUME NEW s \in Store, NEW k \in Nat, InOrder(s.log, k),
         NEW rec \in AuditRecord, rec.id = k + 1
  PROVE  InOrder(Absorb(s, rec).log, k + 1)
<1> DEFINE log == s.log
<1>1. /\ log \in Seq(AuditRecord) /\ Len(log) \in Nat
      /\ \A i \in DOMAIN log : log[i].id \in Nat
  <2>1. log \in Seq(AuditRecord)
    BY DEF Store
  <2>2. \A i \in DOMAIN log : log[i] \in AuditRecord
    BY <2>1
  <2>3. QED BY <2>1, <2>2 DEF AuditRecord
<1>2. Absorb(s, rec).log = Append(log, rec)
  BY AbsorbLog
<1>3. /\ DOMAIN Append(log, rec) = DOMAIN log \cup {Len(log) + 1}
      /\ DOMAIN log = 1..Len(log)
      /\ \A i \in DOMAIN log : Append(log, rec)[i] = log[i]
      /\ Append(log, rec)[Len(log) + 1] = rec
  BY <1>1
<1> HIDE DEF log
<1>4. \A i \in DOMAIN log : log[i].id <= k
  BY DEF InOrder, log
<1>5. \A i, j \in DOMAIN log : i < j => log[i].id < log[j].id
  BY DEF InOrder, log
<1>6. \A i \in DOMAIN Append(log, rec) : Append(log, rec)[i].id <= k + 1
  BY <1>1, <1>3, <1>4
<1>7. ASSUME NEW i \in DOMAIN Append(log, rec), NEW j \in DOMAIN Append(log, rec),
             i < j
      PROVE  Append(log, rec)[i].id < Append(log, rec)[j].id
  <2>1. i \in DOMAIN log
    BY <1>1, <1>3, <1>7
  <2>2. CASE j \in DOMAIN log
    BY <1>3, <1>5, <1>7, <2>1, <2>2
  <2>3. CASE j = Len(log) + 1
    BY <1>1, <1>3, <1>4, <2>1, <2>3
  <2>4. QED BY <1>3, <2>2, <2>3
<1>8. QED BY <1>2, <1>6, <1>7 DEF InOrder

\* An order holds for every larger bound.
LEMMA OrderWeakens ==
  ASSUME NEW s \in Store, NEW k \in Nat, InOrder(s.log, k)
  PROVE  InOrder(s.log, k + 1)
<1>1. \A i \in DOMAIN s.log : s.log[i] \in AuditRecord
  BY DEF Store
<1>2. \A i \in DOMAIN s.log : s.log[i].id \in Nat
  BY <1>1 DEF AuditRecord
<1>3. QED BY <1>2 DEF InOrder

\* Every replay of a beginning of the file, and memory.
OrderInv ==
  /\ \A i \in DOMAIN hist : InOrder(hist[i].log, issued)
  /\ InOrder(store.log, issued)

\* What a write leaves in the file is the record or no record.
LEMMA TextHolds ==
  ASSUME NEW rec
  PROVE  /\ Text(rec).kind = "record" => Text(rec).rec = rec
         /\ \A t \in Tears :
              Piece(t, rec).kind = "record" => Piece(t, rec).rec = rec
BY BoundsAssumption DEF Text, Piece, Unparsed

\* Each state of the replay after a write is one from before, or the last one
\* with the new line.
LEMMA PutExtends ==
  ASSUME TypeOK, HistIsReplay, OpenOnLine,
         NEW line, NEW terminated, Put(line, terminated),
         NEW i \in DOMAIN hist'
  PROVE  \/ \E j \in DOMAIN hist : hist'[i] = hist[j]
         \/ ~open /\ hist'[i] = Replayed(hist[Len(hist)], line)
<1> DEFINE n == Len(journal)
<1>1. /\ journal \in Seq(Line) /\ hist \in Seq(Store)
      /\ n \in Nat /\ Len(hist) = n + 1 /\ DOMAIN hist = 1..(n + 1)
  BY DEF TypeOK, HistIsReplay
<1>2. CASE open
  <2>1. n \in Nat \ {0}
    BY <1>1, <1>2 DEF OpenOnLine
  <2>2. hist' = [hist EXCEPT ![n + 1] = hist[n]]
    BY <1>2 DEF Put
  <2>3. i \in DOMAIN hist /\ n \in DOMAIN hist
    BY <1>1, <2>1, <2>2
  <2>4. hist'[i] = hist[i] \/ hist'[i] = hist[n]
    BY <2>2, <2>3
  <2>5. QED BY <2>3, <2>4
<1>3. CASE ~open
  <2>1. hist' = Append(hist, Replayed(hist[n + 1], line))
    BY <1>3 DEF Put
  <2>2. i \in 1..(n + 2)
    BY <1>1, <2>1
  <2>3. i \in 1..(n + 1) => hist'[i] = hist[i]
    BY <1>1, <2>1
  <2>4. i = n + 2 => hist'[i] = Replayed(hist[n + 1], line)
    BY <1>1, <2>1
  <2>5. QED BY <1>1, <1>3, <2>2, <2>3, <2>4
<1>4. QED BY <1>2, <1>3

\* What one call of record does to the file and to memory.  The process is
\* tainted only if it was, or the file shows it.
Written(op, line) ==
  /\ line.kind = "record" => line.rec = NewRec(op)
  /\ \E terminated \in BOOLEAN : Put(line, terminated)
  /\ failed' \in {failed, failed + 1}
  /\ tainted' =>
       tainted \/ open \/ line.kind # "record" \/ failed' = failed + 1

\* Whatever was written or not, memory has absorbed the record or is gone.
LEMMA RecordWrites ==
  ASSUME StoreInv, NEW op \in Op, NEW rest, Record(op, rest)
  PROVE  /\ issued' = issued + 1
         /\ \/ UNCHANGED disk /\ failed' = failed + 1
            \/ \E line \in Line : Written(op, line)
         /\ store' \in {Absorb(store, NewRec(op)), EmptyStore}
<1> DEFINE rec == NewRec(op)
<1>1. rec \in AuditRecord /\ rec.op = op
  BY NewRecType DEF StoreInv, NewRec
<1>2. Text(rec) \in Line /\ \A t \in Tears : Piece(t, rec) \in Line
  BY <1>1, TextType
<1>3. /\ Text(rec).kind = "record" => Text(rec).rec = rec
      /\ \A t \in Tears : Piece(t, rec).kind = "record" => Piece(t, rec).rec = rec
  BY TextHolds
<1>4. op \in Unreadable => Text(rec).kind # "record"
  BY <1>1 DEF Text, Unparsed
<1> HIDE DEF rec
<1>5. issued' = issued + 1
  BY DEF Record
<1>6. CASE WriteWhole(rec) /\ Survive(rec, rest)
  <2>1. Put(Text(rec), TRUE) /\ failed' = failed
    BY <1>6 DEF WriteWhole
  <2>2. tainted' => tainted \/ open \/ Text(rec).kind # "record"
    BY <1>1, <1>4, <1>6 DEF WriteWhole
  <2>3. Written(op, Text(rec))
    BY <1>3, <2>1, <2>2 DEF Written, rec
  <2>4. store' = Absorb(store, rec)
    BY <1>6 DEF Survive
  <2>5. QED BY <1>2, <1>5, <2>3, <2>4 DEF rec
<1>7. CASE WriteFails(rec) /\ Survive(rec, rest)
  <2>1. failed' = failed + 1
    BY <1>7 DEF WriteFails
  <2>2. store' = Absorb(store, rec)
    BY <1>7 DEF Survive
  <2>3. CASE UNCHANGED disk
    BY <1>5, <2>1, <2>2, <2>3 DEF rec
  <2>4. CASE \E t \in Tears : Put(Piece(t, rec), FALSE)
    <3>1. PICK t \in Tears : Put(Piece(t, rec), FALSE)
      BY <2>4
    <3>2. Written(op, Piece(t, rec))
      BY <1>3, <2>1, <3>1 DEF Written, rec
    <3>3. QED BY <1>2, <1>5, <2>2, <3>2 DEF rec
  <2>5. QED BY <1>7, <2>3, <2>4 DEF WriteFails
<1>8. CASE WriteTorn(rec) /\ Dead
  <2>1. PICK t \in Tears : Put(Piece(t, rec), FALSE)
    BY <1>8 DEF WriteTorn
  <2>2. failed' = failed /\ tainted' = FALSE /\ store' = EmptyStore
    BY <1>8 DEF WriteTorn, Dead
  <2>3. Written(op, Piece(t, rec))
    BY <1>3, <2>1, <2>2 DEF Written, rec
  <2>4. QED BY <1>2, <1>5, <2>2, <2>3 DEF rec
<1>9. CASE Put(Text(rec), TRUE) /\ Dead /\ UNCHANGED <<torn, failed>>
  <2>1. failed' = failed /\ tainted' = FALSE /\ store' = EmptyStore
    BY <1>9 DEF Dead
  <2>2. Written(op, Text(rec))
    BY <1>3, <1>9, <2>1 DEF Written, rec
  <2>3. QED BY <1>2, <1>5, <2>1, <2>2 DEF rec
<1>10. QED BY <1>6, <1>7, <1>8, <1>9 DEF Record, NewRec, rec

\* The steps that do not record.
Idle == \/ Open \/ ReplayLine \/ ReplayRefused \/ ReplayDone
        \/ Crash \/ ListEntryRejected \/ UNCHANGED vars

\* The file stays as it is, and memory too, unless it is emptied or goes on to
\* the next state of the replay.
Quiet ==
  /\ UNCHANGED disk /\ issued' = issued /\ failed' = failed
  /\ tainted' \in {tainted, FALSE}
  /\ \/ store' \in {store, EmptyStore}
     \/ \E i \in DOMAIN hist : store' = hist[i]

Recording ==
  mode \in {"seeding", "serving"} /\ \E op \in Op : \E rest : Record(op, rest)

\* Every step that does not record leaves the file alone.
LEMMA QuietSteps ==
  ASSUME StoreInv, Idle
  PROVE  Quiet
<1>1. CASE Open \/ ReplayRefused \/ ReplayDone \/ Crash \/ ListEntryRejected
  BY <1>1 DEF Open, ReplayRefused, ReplayDone, Crash, Dead, ListEntryRejected,
              Quiet
<1>2. CASE ReplayLine
  <2>1. /\ store' = Replayed(store, journal[pos]) /\ mode = "replaying"
        /\ pos \in 1..Len(journal) /\ journal \in Seq(Line)
        /\ UNCHANGED <<disk, issued, failed, tainted>>
    BY <1>2 DEF ReplayLine, StoreInv, TypeOK
  <2>2. store = hist[pos] /\ Len(hist) = Len(journal) + 1
    BY <2>1 DEF StoreInv, ReplayAlongHist, HistIsReplay
  <2>3. hist[pos + 1] = Replayed(hist[pos], journal[pos])
    BY <2>1 DEF StoreInv, HistIsReplay
  <2>4. hist \in Seq(Store)
    BY DEF StoreInv, TypeOK
  <2>5. pos + 1 \in DOMAIN hist
    BY <2>1, <2>2, <2>4
  <2>6. QED BY <2>1, <2>2, <2>3, <2>5 DEF Quiet
<1>3. CASE UNCHANGED vars
  BY <1>3 DEF vars, disk, Quiet
<1>4. QED BY <1>1, <1>2, <1>3 DEF Idle

\* A step either records an op or is one of those.
LEMMA IdleOrRecording ==
  ASSUME StoreInv, [Next]_vars
  PROVE  Idle \/ Recording
<1>1. CASE SeedNext
  <2>1. /\ todo # << >> /\ todo \in Seq(Op) /\ mode = "seeding"
        /\ Record(Head(todo), Tail(todo))
    BY <1>1 DEF SeedNext, StoreInv, SeedingOps
  <2>2. Head(todo) \in Op
    BY <2>1, RestOfTodo
  <2>3. QED BY <2>1, <2>2 DEF Recording
<1>2. CASE \E op \in Requests : Serve(op)
  <2>1. PICK op \in Requests : mode = "serving" /\ Record(op, << >>)
    BY <1>2 DEF Serve, RegisterNode, AddEdge, UpsertTrustEntry, SetWitnesses,
                UpsertMasterEntry, DeclareRevocation, RegisterEvidence,
                ReleaseEvidence, Asked
  <2>2. op \in Op
    BY RequestsAssumption
  <2>3. QED BY <2>1, <2>2 DEF Recording
<1>3. CASE \E b \in Batches : RegisterTrustList(b)
  <2>1. PICK b \in Batches : mode = "serving" /\ Record(b.list, b.entries)
    BY <1>3 DEF RegisterTrustList, Asked
  <2>2. b.list \in Op
    BY RequestsAssumption
  <2>3. QED BY <2>1, <2>2 DEF Recording
<1>4. CASE ListEntry
  <2>1. /\ todo # << >> /\ Head(todo) # Malformed /\ mode = "serving"
        /\ Record(Head(todo), Tail(todo))
    BY <1>4 DEF ListEntry
  <2>2. Head(todo) \in Op
    BY <2>1, RestOfTodo DEF StoreInv, TypeOK
  <2>3. QED BY <2>1, <2>2 DEF Recording
<1>5. QED
  BY <1>1, <1>2, <1>3, <1>4 DEF Next, Startup, Idle

\* So every step that does not record is quiet.
LEMMA QuietOrRecording ==
  ASSUME StoreInv, [Next]_vars
  PROVE  Quiet \/ Recording
BY IdleOrRecording, QuietSteps

\* A record call leaves a process that goes on with the rest, or none.
LEMMA RecordEnds ==
  ASSUME NEW op, NEW rest, Record(op, rest)
  PROVE  \/ mode' = "down"
         \/ /\ store' = Absorb(store, NewRec(op)) /\ todo' = rest
            /\ mode' = IF rest = << >> THEN "serving" ELSE mode
<1>1. Dead \/ Survive(NewRec(op), rest)
  BY DEF Record, NewRec
<1>2. CASE Dead
  BY <1>2 DEF Dead
<1>3. CASE Survive(NewRec(op), rest)
  BY <1>3 DEF Survive
<1>4. QED BY <1>1, <1>2, <1>3

-----------------------------------------------------------------------------
\* Whatever a record call writes, order is kept ...
LEMMA RecordKeepsOrder ==
  ASSUME StoreInv, OrderInv, NEW op \in Op, NEW rest, Record(op, rest)
  PROVE  OrderInv'
<1> DEFINE rec == NewRec(op)
<1>1. rec \in AuditRecord /\ rec.id = issued + 1
  BY NewRecType DEF StoreInv, NewRec
<1>2. /\ store \in Store /\ hist \in Seq(Store) /\ issued \in Nat
      /\ TypeOK /\ HistIsReplay /\ OpenOnLine
      /\ Len(hist) \in DOMAIN hist
  BY DEF StoreInv, TypeOK, HistIsReplay
<1>3. /\ issued' = issued + 1
      /\ UNCHANGED disk \/ \E line \in Line : Written(op, line)
      /\ store' \in {Absorb(store, rec), EmptyStore}
  BY RecordWrites
<1>4. \A i \in DOMAIN hist : hist[i] \in Store /\ InOrder(hist[i].log, issued)
  BY <1>2 DEF OrderInv
<1>5. \A i \in DOMAIN hist :
        /\ InOrder(hist[i].log, issued + 1)
        /\ InOrder(Absorb(hist[i], rec).log, issued + 1)
  BY <1>1, <1>2, <1>4, OrderWeakens, OrderAppends
<1> HIDE DEF rec
<1>6. InOrder(store'.log, issued')
  <2>1. InOrder(Absorb(store, rec).log, issued + 1)
    BY <1>1, <1>2, OrderAppends DEF OrderInv
  <2>2. InOrder(EmptyStore.log, issued + 1)
    BY DEF EmptyStore, InOrder
  <2>3. QED BY <1>3, <2>1, <2>2
<1>7. ASSUME NEW i \in DOMAIN hist'
      PROVE  InOrder(hist'[i].log, issued')
  <2>1. CASE UNCHANGED disk
    BY <1>3, <1>5, <1>7, <2>1 DEF disk
  <2>2. CASE \E line \in Line : Written(op, line)
    <3>1. PICK line \in Line, terminated \in BOOLEAN :
            /\ Put(line, terminated)
            /\ line.kind = "record" => line.rec = rec
      BY <2>2 DEF Written, rec
    <3>2. \/ \E j \in DOMAIN hist : hist'[i] = hist[j]
          \/ hist'[i] = Replayed(hist[Len(hist)], line)
      BY <1>2, <1>7, <3>1, PutExtends
    <3>3. Replayed(hist[Len(hist)], line)
            \in {hist[Len(hist)], Absorb(hist[Len(hist)], rec)}
      BY <3>1 DEF Replayed
    <3>4. QED BY <1>2, <1>3, <1>5, <3>2, <3>3
  <2>3. QED BY <1>3, <2>1, <2>2
<1>8. QED BY <1>6, <1>7 DEF OrderInv

\* ... and so by every step.
LEMMA OrderStep == StoreInv /\ OrderInv /\ [Next]_vars => OrderInv'
<1> SUFFICES ASSUME StoreInv, OrderInv, [Next]_vars
             PROVE  OrderInv'
  OBVIOUS
<1>1. CASE Quiet
  <2>1. InOrder(EmptyStore.log, issued)
    BY DEF EmptyStore, InOrder
  <2>2. QED BY <1>1, <2>1 DEF Quiet, disk, OrderInv
<1>2. CASE Recording
  BY <1>2, RecordKeepsOrder DEF Recording
<1>3. QED BY <1>1, <1>2, QuietOrRecording

\* Whatever a torn, glued, failed or unreadable line cost, the log never holds
\* a record twice and never two in another order than they were made in.
THEOREM LogIsInOrder == Spec => []LogInOrder
<1>1. Init => OrderInv
  BY DEF Init, OrderInv, InOrder, EmptyStore
<1>2. OrderInv => LogInOrder
  BY DEF OrderInv, InOrder, LogInOrder
<1>3. QED BY <1>1, <1>2, OrderStep, StoreInvariant, PTL DEF Spec

-----------------------------------------------------------------------------
(* Numbers.                                                                *)

InPlace(log) == \A i \in DOMAIN log : log[i].seq = i

\* A tainted process has left a trace in the file, or a write has failed.
PlaceInv ==
  /\ tainted => ~Intact
  /\ Intact => InPlace(store.log) /\ \A i \in DOMAIN hist : InPlace(hist[i].log)

\* The record made next is numbered by its place.
LEMMA PlaceAppends ==
  ASSUME StoreInv, InPlace(store.log), NEW op \in Op
  PROVE  InPlace(Absorb(store, NewRec(op)).log)
<1> DEFINE log == store.log
           rec == NewRec(op)
<1>1. rec \in AuditRecord /\ store \in Store
  BY NewRecType DEF StoreInv, TypeOK
<1>2. Absorb(store, rec).log = Append(log, rec)
  BY <1>1, AbsorbLog
<1>3. rec.seq = Len(log) + 1
  BY DEF NewRec, NextSeq
<1>4. log \in Seq(AuditRecord)
  BY <1>1 DEF Store
<1> HIDE DEF rec, log
<1>5. \A i \in DOMAIN log : log[i].seq = i
  BY DEF InPlace, log
<1>6. \A i \in DOMAIN Append(log, rec) : Append(log, rec)[i].seq = i
  BY <1>3, <1>4, <1>5
<1>7. QED BY <1>2, <1>6 DEF InPlace, rec

\* A file that is intact after a write was intact before it, and has got a
\* whole record on a line of its own.
LEMMA IntactBefore ==
  ASSUME StoreInv, NEW op, NEW line, Written(op, line), Intact'
  PROVE  /\ Intact /\ ~open /\ line.kind = "record" /\ failed' # failed + 1
<1> DEFINE n == Len(journal)
<1>1. PICK terminated \in BOOLEAN : Put(line, terminated)
  BY DEF Written
<1>2. /\ journal \in Seq(Line) /\ n \in Nat /\ failed \in Nat
      /\ failed' \in {failed, failed + 1}
  BY DEF StoreInv, TypeOK, Written
<1>3. failed' = 0 /\ \A i \in DOMAIN journal' : journal'[i].kind = "record"
  BY DEF Intact
<1>4. failed = 0 /\ failed' # failed + 1
  BY <1>2, <1>3
<1>5. ~open
  <2> SUFFICES ASSUME open PROVE FALSE
    OBVIOUS
  <2>1. n \in DOMAIN journal
    BY <1>2 DEF StoreInv, OpenOnLine
  <2>2. journal' = [journal EXCEPT ![n] = Glued(journal[n], line)]
    BY <1>1 DEF Put
  <2>3. n \in DOMAIN journal' /\ journal'[n] = Glued(journal[n], line)
    BY <2>1, <2>2
  <2>4. Glued(journal[n], line).kind # "record"
    BY GluedType
  <2>5. QED BY <1>3, <2>3, <2>4
<1>6. journal' = Append(journal, line)
  BY <1>1, <1>5 DEF Put
<1>7. /\ DOMAIN journal' = 1..(n + 1) /\ DOMAIN journal = 1..n
      /\ journal'[n + 1] = line
      /\ \A i \in 1..n : journal'[i] = journal[i]
  BY <1>2, <1>6
<1>8. \A i \in DOMAIN journal : journal[i].kind = "record"
  BY <1>2, <1>3, <1>7
<1>9. line.kind = "record"
  BY <1>2, <1>3, <1>7
<1>10. QED BY <1>4, <1>5, <1>8, <1>9 DEF Intact

\* Whatever a record call writes, an intact file stays numbered ...
LEMMA RecordKeepsPlaces ==
  ASSUME StoreInv, PlaceInv, mode \in {"seeding", "serving"},
         NEW op \in Op, NEW rest, Record(op, rest)
  PROVE  PlaceInv'
<1> DEFINE rec == NewRec(op)
<1>1. /\ \/ UNCHANGED disk /\ failed' = failed + 1
         \/ \E line \in Line : Written(op, line)
      /\ store' \in {Absorb(store, rec), EmptyStore}
  BY RecordWrites
<1>2. CASE failed' = failed + 1
  <2>1. failed \in Nat
    BY DEF StoreInv, TypeOK
  <2>2. ~Intact'
    BY <1>2, <2>1 DEF Intact
  <2>3. QED BY <2>2 DEF PlaceInv
<1>3. CASE \E line \in Line : Written(op, line)
  <2>1. PICK line \in Line : Written(op, line)
    BY <1>3
  <2>2. SUFFICES ASSUME Intact' PROVE PlaceInv'
    BY DEF PlaceInv
  <2>3. Intact /\ ~open /\ line.kind = "record" /\ failed' # failed + 1
    BY <2>1, <2>2, IntactBefore
  <2>4. ~tainted /\ ~tainted'
    BY <2>1, <2>3 DEF PlaceInv, Written
  <2>5. /\ store = hist[Len(hist)]
        /\ TypeOK /\ HistIsReplay /\ OpenOnLine
    BY <2>4 DEF StoreInv, RestartExact
  <2>6. InPlace(store.log) /\ \A i \in DOMAIN hist : InPlace(hist[i].log)
    BY <2>3 DEF PlaceInv
  <2>7. InPlace(Absorb(store, rec).log)
    BY <2>6, PlaceAppends
  <2>8. PICK terminated \in BOOLEAN : Put(line, terminated)
    BY <2>1 DEF Written
  <2>9. Replayed(hist[Len(hist)], line) = Absorb(store, rec)
    BY <2>1, <2>3, <2>5 DEF Written, Replayed
  <2> HIDE DEF rec
  <2>10. ASSUME NEW i \in DOMAIN hist'
         PROVE  InPlace(hist'[i].log)
    <3>1. \/ \E j \in DOMAIN hist : hist'[i] = hist[j]
          \/ hist'[i] = Absorb(store, rec)
      BY <2>5, <2>8, <2>9, <2>10, PutExtends
    <3>2. QED BY <2>6, <2>7, <3>1
  <2>11. InPlace(store'.log)
    <3>1. InPlace(EmptyStore.log)
      BY DEF EmptyStore, InPlace
    <3>2. QED BY <1>1, <2>7, <3>1
  <2>12. QED BY <2>4, <2>10, <2>11 DEF PlaceInv
<1>4. QED BY <1>1, <1>2, <1>3

\* ... and so by every step.
LEMMA PlaceStep == StoreInv /\ PlaceInv /\ [Next]_vars => PlaceInv'
<1> SUFFICES ASSUME StoreInv, PlaceInv, [Next]_vars
             PROVE  PlaceInv'
  OBVIOUS
<1>1. CASE Quiet
  <2>1. InPlace(EmptyStore.log)
    BY DEF EmptyStore, InPlace
  <2>2. Intact' = Intact /\ hist' = hist
    BY <1>1 DEF Quiet, disk, Intact
  <2>3. tainted' => tainted
    BY <1>1 DEF Quiet
  <2>4. store' \in {store, EmptyStore} \/ \E i \in DOMAIN hist : store' = hist[i]
    BY <1>1 DEF Quiet
  <2>5. QED BY <2>1, <2>2, <2>3, <2>4 DEF PlaceInv
<1>2. CASE Recording
  BY <1>2, RecordKeepsPlaces DEF Recording
<1>3. QED BY <1>1, <1>2, QuietOrRecording

\* As long as no line of the file was torn, glued, unreadable or missing, the
\* seq of a record is its place in the log, in every process and during every
\* replay (store.rs:637).
THEOREM SeqsArePlaces == Spec => []SeqIsPlace
<1>1. Init => PlaceInv
  BY DEF Init, PlaceInv, InPlace, EmptyStore
<1>2. PlaceInv => SeqIsPlace
  BY DEF PlaceInv, InPlace, SeqIsPlace
<1>3. QED BY <1>1, <1>2, PlaceStep, StoreInvariant, PTL DEF Spec

-----------------------------------------------------------------------------
(* A document at a time.                                                   *)

\* The first record of a document.
LEMMA EndsWithFirst ==
  ASSUME NEW log \in Seq(AuditRecord), NEW rec \in AuditRecord,
         NEW S, NEW rest \in Seq(S)
  PROVE  EndsWith(Append(log, rec), <<rec.op>> \o rest, rest)
<1> DEFINE document == <<rec.op>> \o rest
           more     == Append(log, rec)
<1>1. /\ Len(document) = Len(rest) + 1 /\ document[1] = rec.op
      /\ \A i \in 1..Len(rest) : document[1 + i] = rest[i]
  OBVIOUS
<1>2. Len(more) = Len(log) + 1 /\ more[Len(log) + 1] = rec /\ Len(log) \in Nat
  OBVIOUS
<1>3. Len(rest) \in Nat
  OBVIOUS
<1> HIDE DEF document, more
<1>4. Len(document) - Len(rest) = 1 /\ Len(more) - 1 + 1 = Len(log) + 1
  BY <1>1, <1>2, <1>3
<1>5. \A i \in 1..1 : more[Len(more) - 1 + i].op = document[i]
  BY <1>1, <1>2, <1>4
<1>6. 1 \in 1..Len(more)
  BY <1>2
<1>7. EndsWith(more, document, rest)
  BY <1>1, <1>4, <1>5, <1>6 DEF EndsWith
<1>8. QED BY <1>7 DEF document, more

\* And each one after it.
LEMMA EndsWithNext ==
  ASSUME NEW log \in Seq(AuditRecord), NEW rec \in AuditRecord, NEW document,
         NEW S, NEW rest \in Seq(S), rest # << >>, rec.op = Head(rest),
         Len(document) \in Nat, EndsWith(log, document, rest)
  PROVE  EndsWith(Append(log, rec), document, Tail(rest))
<1> DEFINE done == Len(document) - Len(rest)
           more == Append(log, rec)
           left == Tail(rest)
<1>1. /\ Len(more) = Len(log) + 1 /\ more[Len(log) + 1] = rec
      /\ \A i \in 1..Len(log) : more[i] = log[i]
      /\ Len(log) \in Nat
  OBVIOUS
<1>2. /\ Len(rest) \in Nat \ {0} /\ Len(left) = Len(rest) - 1
      /\ Head(rest) = rest[1]
      /\ \A i \in 1..Len(left) : left[i] = rest[i + 1]
  OBVIOUS
<1>3. /\ done \in 1..Len(log)
      /\ \A i \in 1..done : log[Len(log) - done + i].op = document[i]
      /\ \A i \in 1..Len(rest) : rest[i] = document[done + i]
  BY DEF EndsWith
<1>4. Len(document) - Len(left) = done + 1
  BY <1>2
<1> HIDE DEF more, left, done
<1>5. ASSUME NEW i \in 1..(done + 1)
      PROVE  more[Len(more) - (done + 1) + i].op = document[i]
  <2>1. CASE i \in 1..done
    <3>1. /\ Len(more) - (done + 1) + i = Len(log) - done + i
          /\ Len(log) - done + i \in 1..Len(log)
      BY <1>1, <1>3, <2>1
    <3>2. QED BY <1>1, <1>3, <2>1, <3>1
  <2>2. CASE i = done + 1
    <3>1. Len(more) - (done + 1) + i = Len(log) + 1
      BY <1>1, <1>3, <2>2
    <3>2. document[done + 1] = rest[1]
      BY <1>2, <1>3
    <3>3. QED BY <1>1, <1>2, <2>2, <3>1, <3>2
  <2>3. QED BY <1>3, <2>1, <2>2
<1>6. ASSUME NEW i \in 1..Len(left)
      PROVE  left[i] = document[done + 1 + i]
  <2>1. i + 1 \in 1..Len(rest) /\ done + (i + 1) = done + 1 + i
    BY <1>2, <1>3
  <2>2. QED BY <1>2, <1>3, <2>1
<1>7. done + 1 \in 1..Len(more)
  BY <1>1, <1>3
<1>8. EndsWith(more, document, left)
  BY <1>4, <1>5, <1>6, <1>7 DEF EndsWith
<1>9. QED BY <1>8 DEF more, left

\* Only the holder of the lock adds to the log while it has entries to do.
LEMMA PostedStep == StoreInv /\ PostedInOrder /\ [Next]_vars => PostedInOrder'
<1> SUFFICES ASSUME StoreInv, PostedInOrder, [Next]_vars,
                    mode' = "serving", todo' # << >>
             PROVE  \E b \in Batches :
                      EndsWith(store'.log, <<b.list>> \o b.entries, todo')
  BY DEF PostedInOrder
<1>1. /\ store \in Store /\ store.log \in Seq(AuditRecord)
      /\ todo \in Seq(Op \cup {Malformed})
  BY DEF StoreInv, TypeOK, Store
<1>2. ASSUME NEW op \in Op, NEW rest, Record(op, rest)
      PROVE  /\ todo' = rest /\ mode = "serving"
             /\ NewRec(op) \in AuditRecord /\ NewRec(op).op = op
             /\ store'.log = Append(store.log, NewRec(op))
  <2>1. NewRec(op) \in AuditRecord /\ NewRec(op).op = op
    BY NewRecType DEF NewRec, StoreInv
  <2>2. store' = Absorb(store, NewRec(op)) /\ todo' = rest /\ mode = "serving"
    BY <1>2, RecordEnds
  <2>3. QED BY <1>1, <2>1, <2>2, AbsorbLog
<1>3. CASE Idle
  <2>1. mode = "serving" /\ todo' = todo /\ store' = store
    BY <1>3 DEF Idle, Open, ReplayLine, ReplayRefused, ReplayDone, Crash, Dead,
                ListEntryRejected, vars
  <2>2. QED BY <2>1 DEF PostedInOrder
<1>4. CASE SeedNext
  <2>1. /\ todo # << >> /\ todo \in Seq(Op) /\ mode = "seeding"
        /\ Record(Head(todo), Tail(todo))
    BY <1>4 DEF SeedNext, StoreInv, SeedingOps
  <2>2. Head(todo) \in Op
    BY <2>1, RestOfTodo
  <2>3. QED BY <1>2, <2>1, <2>2
<1>5. CASE \E op \in Requests : Serve(op)
  <2>1. PICK op \in Requests : Record(op, << >>)
    BY <1>5 DEF Serve, RegisterNode, AddEdge, UpsertTrustEntry, SetWitnesses,
                UpsertMasterEntry, DeclareRevocation, RegisterEvidence,
                ReleaseEvidence
  <2>2. op \in Op
    BY RequestsAssumption
  <2>3. QED BY <1>2, <2>1, <2>2
<1>6. CASE \E b \in Batches : RegisterTrustList(b)
  <2>1. PICK b \in Batches : Record(b.list, b.entries)
    BY <1>6 DEF RegisterTrustList
  <2>2. b.list \in Op /\ b.entries \in Seq(Op \cup {Malformed})
    BY RequestsAssumption
  <2>3. /\ todo' = b.entries /\ NewRec(b.list) \in AuditRecord
        /\ NewRec(b.list).op = b.list
        /\ store'.log = Append(store.log, NewRec(b.list))
    BY <1>2, <2>1, <2>2
  <2>4. EndsWith(store'.log, <<b.list>> \o b.entries, b.entries)
    BY <1>1, <2>2, <2>3, EndsWithFirst
  <2>5. QED BY <2>3, <2>4
<1>7. CASE ListEntry
  <2>1. /\ mode = "serving" /\ todo # << >> /\ Head(todo) # Malformed
        /\ Record(Head(todo), Tail(todo))
    BY <1>7 DEF ListEntry
  <2>2. Head(todo) \in Op
    BY <1>1, <2>1, RestOfTodo
  <2>3. PICK b \in Batches : EndsWith(store.log, <<b.list>> \o b.entries, todo)
    BY <2>1 DEF PostedInOrder
  <2> DEFINE document == <<b.list>> \o b.entries
             rec      == NewRec(Head(todo))
  <2>4. Len(document) \in Nat
    BY RequestsAssumption
  <2>5. /\ todo' = Tail(todo) /\ rec \in AuditRecord /\ rec.op = Head(todo)
        /\ store'.log = Append(store.log, rec)
    BY <1>2, <2>1, <2>2
  <2> HIDE DEF document, rec
  <2>6. EndsWith(store.log, document, todo)
    BY <2>3 DEF document
  <2>7. EndsWith(Append(store.log, rec), document, Tail(todo))
    BY <1>1, <2>1, <2>4, <2>5, <2>6, EndsWithNext
  <2>8. QED BY <2>5, <2>7 DEF document
<1>8. QED
  BY <1>3, <1>4, <1>5, <1>6, <1>7 DEF Next, Startup, Idle

\* What is recorded of a posted list is a beginning of its document, without a
\* gap and without another client's record in between (api.rs:1502-1523).
THEOREM PostedAsWritten == Spec => []PostedInOrder
<1>1. Init => PostedInOrder
  BY DEF Init, PostedInOrder
<1>2. QED BY <1>1, PostedStep, StoreInvariant, PTL DEF Spec

-----------------------------------------------------------------------------
(* Losses.                                                                 *)

\* Records of the request in progress, which a success response will name.
Pending == IF mode = "serving" /\ todo # << >>
           THEN MadeSince(store.log, started) ELSE {}

\* Records on lines that nothing can be glued to any more.
Safe == {journal[i].rec :
          i \in {k \in DOMAIN journal :
                   journal[k].kind = "record" /\ ~(open /\ k = Len(journal))}}

\* Records that are answered for, or will be, and are not safe.  One on a
\* line without its newline counts as gone: the next write takes it away.
Gone == {rec \in (acked \cup Pending) \ Safe : rec.op \notin Unreadable}

\* An open line is a loss to come, for which the write that left it has paid.
LossInv ==
  /\ IsFiniteSet(Gone)
  /\ Cardinality(Gone) + (IF open THEN 1 ELSE 0) <= torn + 2 * failed

\* A write takes no safe record away, and a whole one makes its record safe
\* if it begins on a line of its own.
LEMMA PutKeepsSafe ==
  ASSUME TypeOK, OpenOnLine, NEW line, NEW terminated \in BOOLEAN,
         Put(line, terminated)
  PROVE  /\ Safe \subseteq Safe'
         /\ open' = ~terminated
         /\ ~open /\ terminated /\ line.kind = "record" => line.rec \in Safe'
<1> DEFINE n == Len(journal)
<1>1. /\ journal \in Seq(Line) /\ n \in Nat /\ DOMAIN journal = 1..n
      /\ open \in BOOLEAN /\ (open => n # 0)
  BY DEF TypeOK, OpenOnLine
<1>2. open' = ~terminated
  BY DEF Put
<1>3. CASE open
  <2>1. journal' = [journal EXCEPT ![n] = Glued(journal[n], line)]
    BY <1>3 DEF Put
  <2>4. Len(journal') = n /\ DOMAIN journal' = 1..n
    <3>1. Glued(journal[n], line) \in Line
      BY GluedType
    <3>2. QED BY <1>1, <2>1, <3>1
  <2>2. \A i \in 1..n : i # n => journal'[i] = journal[i]
    BY <1>1, <2>1
  <2>3. QED BY <1>1, <1>2, <1>3, <2>1, <2>2, <2>4 DEF Safe
<1>4. CASE ~open
  <2>1. /\ journal' = Append(journal, line)
        /\ Len(journal') = n + 1 /\ DOMAIN journal' = 1..(n + 1)
        /\ \A i \in 1..n : journal'[i] = journal[i]
        /\ journal'[n + 1] = line
    BY <1>1, <1>4 DEF Put
  <2>2. \A i \in 1..n : i \in 1..(n + 1) /\ i # n + 1
    BY <1>1
  <2>3. n + 1 \in 1..(n + 1)
    BY <1>1
  <2>4. Safe \subseteq Safe'
    BY <1>1, <1>4, <2>1, <2>2 DEF Safe
  <2>5. terminated /\ line.kind = "record" => line.rec \in Safe'
    BY <1>2, <2>1, <2>3 DEF Safe
  <2>6. QED BY <1>2, <2>4, <2>5
<1>5. QED BY <1>3, <1>4


\* Records that are answered for or will be.
Made == acked \cup Pending

\* Whoever survives a write adds its record to them, and no other one.
LEMMA SurvivorMakes ==
  ASSUME StoreInv, OrderInv, mode \in {"seeding", "serving"},
         NEW op \in Op, NEW rest, Survive(NewRec(op), rest)
  PROVE  Made' \subseteq Made \cup {NewRec(op)}
<1> DEFINE rec   == NewRec(op)
           first == IF todo = << >> THEN rec.id ELSE started
           log   == store.log
<1>1. rec \in AuditRecord /\ rec.id = issued + 1 /\ issued \in Nat
  BY NewRecType DEF StoreInv, TypeOK, NewRec
<1>2. log \in Seq(AuditRecord) /\ Absorb(store, rec).log = Append(log, rec)
  BY <1>1, AbsorbLog DEF StoreInv, TypeOK, Store
<1>3. /\ store' = Absorb(store, rec) /\ todo' = rest
      /\ \/ /\ rest = << >> /\ mode' = "serving"
            /\ acked' = IF mode = "serving"
                        THEN acked \cup MadeSince(store'.log, first) ELSE acked
         \/ /\ rest # << >> /\ started' = first
            /\ mode' = mode /\ acked' = acked
  BY DEF Survive
<1>4. \A i \in DOMAIN log : log[i].id \in Nat /\ log[i].id <= issued
  <2>1. \A i \in DOMAIN log : log[i] \in AuditRecord
    BY <1>2
  <2>2. QED BY <2>1 DEF AuditRecord, OrderInv, InOrder
<1>5. MadeSince(Append(log, rec), first) \subseteq MadeSince(log, first) \cup {rec}
  <2>1. /\ DOMAIN Append(log, rec) = DOMAIN log \cup {Len(log) + 1}
        /\ \A i \in DOMAIN log : Append(log, rec)[i] = log[i]
        /\ Append(log, rec)[Len(log) + 1] = rec
    BY <1>2
  <2> HIDE DEF log, first, rec
  <2>2. QED BY <2>1 DEF MadeSince
<1>6. mode = "serving" => MadeSince(log, first) \subseteq Pending
  <2>1. CASE todo = << >>
    BY <1>1, <1>4, <2>1 DEF MadeSince
  <2>2. CASE todo # << >>
    BY <2>2 DEF Pending
  <2>3. QED BY <2>1, <2>2
<1> HIDE DEF log, first, rec
<1>7. CASE mode = "seeding"
  BY <1>3, <1>7 DEF Made, Pending
<1>8. CASE mode = "serving"
  <2>1. MadeSince(store'.log, first) \subseteq Pending \cup {rec}
    BY <1>2, <1>3, <1>5, <1>6, <1>8
  <2>2. CASE rest = << >>
    <3>1. acked' = acked \cup MadeSince(store'.log, first) /\ todo' = << >>
      BY <1>3, <1>8, <2>2
    <3>2. Pending' = {} /\ Made' = acked' \cup Pending' /\ Made = acked \cup Pending
      BY <3>1 DEF Made, Pending
    <3>3. QED BY <2>1, <3>1, <3>2 DEF rec
  <2>3. CASE rest # << >>
    <3>1. acked' = acked /\ Pending' = MadeSince(store'.log, first)
      BY <1>3, <1>8, <2>3 DEF Pending
    <3>2. Made' = acked' \cup Pending' /\ Made = acked \cup Pending
      BY DEF Made
    <3>3. QED BY <2>1, <3>1, <3>2 DEF rec
  <2>4. QED BY <2>2, <2>3
<1>9. QED BY <1>7, <1>8 DEF rec

\* What is added to both sides of the sum.
LEMMA SumStays ==
  ASSUME NEW new \in Nat, NEW old \in Nat, NEW bit \in Nat, NEW bitNew \in Nat,
         NEW debt \in Nat, NEW debtNew \in Nat, old + bit <= debt
  PROVE  /\ new <= old /\ bitNew + debt <= bit + debtNew
              => new + bitNew <= debtNew
         /\ new <= old + 1 /\ 1 + bitNew + debt <= bit + debtNew
              => new + bitNew <= debtNew
OBVIOUS

\* What a torn write and a failed one pay.
LEMMA Paid ==
  ASSUME NEW bit \in Nat, NEW bitNew \in Nat, bitNew <= 1, NEW debt \in Nat
  PROVE  /\ bitNew + debt <= bit + (debt + 1)
         /\ 1 + bitNew + debt <= bit + (debt + 2)
OBVIOUS

\* What has been paid is a number.
LEMMA DebtType ==
  ASSUME NEW t \in Nat, NEW f \in Nat
  PROVE  /\ t + 2 * f \in Nat
         /\ t + 2 * (f + 1) = t + 2 * f + 2
         /\ (t + 1) + 2 * f = t + 2 * f + 1
OBVIOUS

\* A step costs at most one record more, and has paid for it and for the line
\* it may leave open.
Bit == IF open THEN 1 ELSE 0
Debt == torn + 2 * failed

Costs(rec) ==
  \/ Gone' \subseteq Gone /\ Bit' + Debt <= Bit + Debt'
  \/ Gone' \subseteq Gone \cup {rec} /\ 1 + Bit' + Debt <= Bit + Debt'

\* Where a step has paid for what it costs, the losses stay paid for.
LEMMA CostsKeepInv ==
  ASSUME StoreInv, StoreInv', LossInv, NEW rec, Costs(rec)
  PROVE  LossInv'
<1>1. /\ Bit \in Nat /\ Bit' \in Nat /\ Debt \in Nat /\ Debt' \in Nat
  <2>1. Bit \in Nat /\ Bit' \in Nat
    BY DEF Bit
  <2>2. Debt \in Nat /\ Debt' \in Nat
    <3>1. torn \in Nat /\ failed \in Nat /\ torn' \in Nat /\ failed' \in Nat
      BY DEF StoreInv, TypeOK
    <3>2. QED BY <3>1, DebtType DEF Debt
  <2>3. QED BY <2>1, <2>2
<1>0. IsFiniteSet(Gone) /\ Cardinality(Gone) \in Nat
  <2>1. IsFiniteSet(Gone)
    BY DEF LossInv
  <2>2. QED BY <2>1, FS_CardinalityType
<1>4. Cardinality(Gone) + Bit <= Debt
  BY DEF LossInv, Bit, Debt
<1> DEFINE old == Cardinality(Gone)
           new == Cardinality(Gone')
<1>5. IsFiniteSet(Gone') /\ new + Bit' <= Debt' => LossInv'
  BY DEF LossInv, Bit, Debt
<1>2. CASE Gone' \subseteq Gone /\ Bit' + Debt <= Bit + Debt'
  <2>1. IsFiniteSet(Gone') /\ new <= old
    BY <1>0, <1>2, FS_Subset
  <2>2. new \in Nat
    BY <2>1, FS_CardinalityType
  <2> HIDE DEF old, new
  <2>3. old \in Nat /\ old + Bit <= Debt
    BY <1>0, <1>4 DEF old
  <2>4. new + Bit' <= Debt'
    BY <1>1, <1>2, <2>1, <2>2, <2>3, SumStays, Zenon
  <2>5. QED BY <1>5, <2>1, <2>4
<1>3. CASE Gone' \subseteq Gone \cup {rec} /\ 1 + Bit' + Debt <= Bit + Debt'
  <2> DEFINE more == Gone \cup {rec}
  <2>1. IsFiniteSet(more) /\ Cardinality(more) \in {old, old + 1}
    BY <1>0, FS_AddElement
  <2>2. IsFiniteSet(Gone') /\ new <= Cardinality(more)
    BY <1>3, <2>1, FS_Subset
  <2>3. new \in Nat
    BY <2>2, FS_CardinalityType
  <2> HIDE DEF old, new, more
  <2>4. old \in Nat /\ old + Bit <= Debt
    BY <1>0, <1>4 DEF old
  <2>5. new + Bit' <= Debt'
    <3>1. new <= old + 1
      BY <2>1, <2>2, <2>3, <2>4
    <3>2. QED BY <1>1, <1>3, <2>3, <2>4, <3>1, SumStays, Zenon
  <2>6. QED BY <1>5, <2>2, <2>5
<1>6. QED BY <1>2, <1>3 DEF Costs

\* Every outcome of record has paid for what it costs.
LEMMA RecordCosts ==
  ASSUME StoreInv, OrderInv, mode \in {"seeding", "serving"},
         NEW op \in Op, NEW rest, Record(op, rest)
  PROVE  Costs(NewRec(op))
<1> DEFINE rec == NewRec(op)
<1>1. /\ TypeOK /\ OpenOnLine /\ rec.op = op
      /\ torn \in Nat /\ failed \in Nat /\ open \in BOOLEAN
  BY DEF StoreInv, TypeOK, NewRec
<1>2. Survive(rec, rest) => Made' \subseteq Made \cup {rec}
  BY SurvivorMakes
<1>3. Dead => Made' \subseteq Made
  BY DEF Dead, Made, Pending
<1>4. /\ Text(rec).kind = "record" => Text(rec).rec = rec
      /\ rec.op \notin Unreadable => Text(rec).kind = "record"
  BY DEF Text, Unparsed
<1>5. Gone = {r \in Made \ Safe : r.op \notin Unreadable}
  BY DEF Gone, Made
<1>6. Gone' = {r \in Made' \ Safe' : r.op \notin Unreadable}
  BY DEF Gone, Made
<1> HIDE DEF rec
<1>7. CASE WriteWhole(rec) /\ Survive(rec, rest)
  <2>1. Put(Text(rec), TRUE) /\ torn' = torn /\ failed' = failed
    BY <1>7 DEF WriteWhole
  <2>2. /\ Safe \subseteq Safe' /\ ~open'
        /\ ~open /\ Text(rec).kind = "record" => Text(rec).rec \in Safe'
    BY <1>1, <2>1, PutKeepsSafe
  <2>3. Gone' \subseteq Gone \cup {rec}
    BY <1>2, <1>5, <1>6, <1>7, <2>2
  <2>4. ~open => Gone' \subseteq Gone
    BY <1>4, <1>5, <1>6, <2>2, <2>3
  <2>5. Bit' = 0 /\ (open => Bit = 1) /\ (~open => Bit = 0) /\ Debt' = Debt /\ Debt \in Nat
    BY <1>1, <2>1, <2>2 DEF Bit, Debt
  <2>6. QED BY <2>3, <2>4, <2>5 DEF Costs, rec
<1>8. CASE WriteFails(rec) /\ Survive(rec, rest)
  <2>1. /\ torn' = torn /\ failed' = failed + 1
        /\ UNCHANGED disk \/ \E t \in Tears : Put(Piece(t, rec), FALSE)
    BY <1>8 DEF WriteFails
  <2>2. Safe \subseteq Safe'
    <3>1. CASE UNCHANGED disk
      BY <3>1 DEF disk, Safe
    <3>2. CASE \E t \in Tears : Put(Piece(t, rec), FALSE)
      BY <1>1, <3>2, PutKeepsSafe
    <3>3. QED BY <2>1, <3>1, <3>2
  <2>3. Gone' \subseteq Gone \cup {rec}
    BY <1>2, <1>5, <1>6, <1>8, <2>2
  <2>4. Bit \in Nat /\ Bit' \in Nat /\ Bit' <= 1
    BY DEF Bit
  <2>5. Debt' = Debt + 2 /\ Debt \in Nat
    BY <1>1, <2>1 DEF Debt
  <2>6. 1 + Bit' + Debt <= Bit + Debt'
    BY <2>4, <2>5, Paid, Zenon
  <2>7. QED BY <2>3, <2>6 DEF Costs, rec
<1>9. CASE WriteTorn(rec) /\ Dead
  <2>1. torn' = torn + 1 /\ failed' = failed
    BY <1>9 DEF WriteTorn
  <2>2. PICK t \in Tears : Put(Piece(t, rec), FALSE)
    BY <1>9 DEF WriteTorn
  <2>3. Safe \subseteq Safe'
    BY <1>1, <2>2, PutKeepsSafe
  <2>4. Gone' \subseteq Gone
    BY <1>3, <1>5, <1>6, <1>9, <2>3
  <2>5. Bit \in Nat /\ Bit' \in Nat /\ Bit' <= 1
    BY DEF Bit
  <2>6. Debt' = Debt + 1 /\ Debt \in Nat
    BY <1>1, <2>1 DEF Debt
  <2>7. Bit' + Debt <= Bit + Debt'
    BY <2>5, <2>6, Paid, Zenon
  <2>8. QED BY <2>4, <2>7 DEF Costs
<1>10. CASE Put(Text(rec), TRUE) /\ Dead /\ UNCHANGED <<torn, failed>>
  <2>1. Safe \subseteq Safe' /\ ~open'
    BY <1>1, <1>10, PutKeepsSafe
  <2>2. Gone' \subseteq Gone
    BY <1>3, <1>5, <1>6, <1>10, <2>1
  <2>3. Bit' = 0 /\ Bit \in {0, 1} /\ Debt' = Debt /\ Debt \in Nat
    BY <1>1, <1>10, <2>1 DEF Bit, Debt
  <2>4. QED BY <2>2, <2>3 DEF Costs
<1>11. QED BY <1>7, <1>8, <1>9, <1>10 DEF Record, NewRec, rec

\* The other steps cost nothing; a request that is given up is not answered.
LEMMA LossStep ==
  StoreInv /\ StoreInv' /\ OrderInv /\ LossInv /\ [Next]_vars => LossInv'
<1> SUFFICES ASSUME StoreInv, StoreInv', OrderInv, LossInv, [Next]_vars
             PROVE  LossInv'
  OBVIOUS
<1>1. CASE Idle
  <2>1. /\ UNCHANGED <<disk, torn, failed, acked>>
        /\ Pending' \subseteq Pending
    <3>1. CASE Open \/ ReplayLine \/ ReplayRefused \/ Crash
      BY <3>1 DEF Open, ReplayLine, ReplayRefused, Crash, Dead, Pending
    <3>2. CASE ReplayDone \/ ListEntryRejected
      BY <3>2 DEF ReplayDone, ListEntryRejected, Pending
    <3>3. CASE UNCHANGED vars
      BY <3>3 DEF vars, disk, Pending
    <3>4. QED BY <1>1, <3>1, <3>2, <3>3 DEF Idle
  <2>2. Safe' = Safe
    BY <2>1 DEF disk, Safe
  <2>3. Gone' \subseteq Gone
    BY <2>1, <2>2 DEF Gone
  <2>4. Bit' = Bit /\ Debt' = Debt
    BY <2>1 DEF disk, Bit, Debt
  <2>5. Bit \in Nat /\ Debt \in Nat
    BY DEF StoreInv, TypeOK, Bit, Debt
  <2>6. Costs(0)
    BY <2>3, <2>4, <2>5 DEF Costs
  <2>7. QED BY <2>6, CostsKeepInv
<1>2. CASE Recording
  <2>1. PICK op \in Op : Costs(NewRec(op))
    BY <1>2, RecordCosts DEF Recording
  <2>2. QED BY <2>1, CostsKeepInv
<1>3. QED BY <1>1, <1>2, IdleOrRecording

\* A write cut short by a crash loses at most one record that was answered
\* for, a failed one at most two, for all requests, tears and restarts
\* ("Torn final line tolerated (crash mid-write)", store.rs:487).
THEOREM LossIsBounded == Spec => []LossBounded
<1>1. Init => OrderInv /\ LossInv
  <2> SUFFICES ASSUME Init PROVE OrderInv /\ LossInv
    OBVIOUS
  <2>1. OrderInv
    BY DEF Init, OrderInv, InOrder, EmptyStore
  <2>2. Gone = {} /\ ~open /\ torn = 0 /\ failed = 0
    BY DEF Init, Gone, Pending
  <2>3. QED BY <2>1, <2>2, FS_EmptySet DEF LossInv
<1>2. StoreInv /\ LossInv => LossBounded
  <2> SUFFICES ASSUME StoreInv, LossInv PROVE LossBounded
    OBVIOUS
  <2>1. Safe \subseteq Durable
    BY DEF Safe, Durable
  <2> DEFINE L == {rec \in Lost : rec.op \notin Unreadable}
  <2>2. L \subseteq Gone
    BY <2>1 DEF Lost, Gone
  <2> HIDE DEF L
  <2>3. /\ IsFiniteSet(Gone) /\ IsFiniteSet(L)
        /\ Cardinality(L) <= Cardinality(Gone)
        /\ Cardinality(L) \in Nat /\ Cardinality(Gone) \in Nat
    BY <2>2, FS_Subset, FS_CardinalityType DEF LossInv
  <2>4. Cardinality(Gone) <= torn + 2 * failed
    BY <2>3 DEF LossInv, StoreInv, TypeOK
  <2>5. Cardinality(L) <= torn + 2 * failed
    BY <2>3, <2>4 DEF StoreInv, TypeOK
  <2>6. QED BY <2>5 DEF LossBounded, L
<1>3. QED BY <1>1, <1>2, LossStep, OrderStep, StoreInvariant, PTL DEF Spec

-----------------------------------------------------------------------------
(* Acceptance.                                                             *)

\* What the acceptance of root n is computed from.
RootBasis(s, n) == <<s.m, s.witnesses, s.roots[n]>>

\* No other op touches it.
LEMMA EffectOnRoot ==
  ASSUME NEW s \in Store, NEW op \in Op, NEW n \in NodeId,
         op.type # "set-witnesses",
         ~(op.type = "upsert-master-entry" /\ op.node = n)
  PROVE  RootBasis(Effect(s, op), n) = RootBasis(s, n)
<1> DEFINE t == Effect(s, op)
<1>1. CASE op.type = "upsert-master-entry"
  <2>1. op.node # n /\ op.node \in NodeId
    BY <1>1 DEF Op
  <2>2. t = [s EXCEPT !.roots[op.node] = op.attestations]
    BY <1>1 DEF Effect, PutRoot
  <2>3. /\ t.m = s.m /\ t.witnesses = s.witnesses
        /\ t.roots = [s.roots EXCEPT ![op.node] = op.attestations]
    BY <2>2 DEF Store
  <2>4. t.roots[n] = s.roots[n]
    BY <2>1, <2>3 DEF Store
  <2>5. QED BY <2>3, <2>4 DEF RootBasis
<1>2. CASE op.type # "upsert-master-entry"
  <2>1. t.m = s.m /\ t.witnesses = s.witnesses /\ t.roots = s.roots
    BY <1>2 DEF Op, Effect, Store, PutNode, PutEdge, PutList, PutEntry,
                PutRevocation, PutEvidence
  <2>2. QED BY <2>1 DEF RootBasis
<1>3. QED BY <1>1, <1>2

\* Acceptance of a root ends with a step of the log only when the witness set
\* or the root's own entry is replaced, for all requests and witness sets.
THEOREM AcceptanceIsStable == Spec => AcceptanceStable
<1> DEFINE Stays ==
      Appends =>
        \A n \in NodeId :
          RootAccepted(store, n) /\ ~RootAccepted(store', n)
          => \/ NewOp.type = "set-witnesses"
             \/ NewOp.type = "upsert-master-entry" /\ NewOp.node = n
<1>1. StoreInv /\ [Next]_vars => Stays
  <2> SUFFICES ASSUME StoreInv, [Next]_vars, Appends, NEW n \in NodeId,
                      RootAccepted(store, n),
                      NewOp.type # "set-witnesses",
                      ~(NewOp.type = "upsert-master-entry" /\ NewOp.node = n)
               PROVE  RootAccepted(store', n)
    BY Zenon
  <2>1. store \in Store
    BY DEF StoreInv, TypeOK
  <2>2. PICK rec \in AuditRecord : store' = Absorb(store, rec) /\ NewOp = rec.op
    BY AppendsAbsorb
  <2> DEFINE t == ApplyOp(store, rec.op)
  <2>3. rec.op \in Op
    BY DEF AuditRecord
  <2>4. t \in Store /\ RootBasis(t, n) = RootBasis(store, n)
    BY <2>1, <2>2, <2>3, EffectOnRoot, EffectType DEF ApplyOp
  <2> HIDE DEF t
  <2>5. store'.m = t.m /\ store'.witnesses = t.witnesses /\ store'.roots = t.roots
    BY <2>2, <2>4 DEF Absorb, Store, t
  <2>6. /\ store'.m = store.m /\ store'.witnesses = store.witnesses
        /\ store'.roots[n] = store.roots[n]
    BY <2>4, <2>5 DEF RootBasis
  <2>7. QED BY <2>6 DEF RootAccepted, Attesting
<1>2. QED BY <1>1, StoreInvariant, PTL DEF Spec, AcceptanceStable

-----------------------------------------------------------------------------
(* Without faults.                                                         *)

\* No write is cut short or fails, and every line reads back.
FaultFree == MaxTorn = 0 /\ MaxFailed = 0 /\ Unreadable = {}

\* Then every write is a whole record on a line of its own.
LEMMA CleanRecord ==
  ASSUME FaultFree, StoreInv, ~open, ~tainted,
         NEW op \in Op, NEW rest, Record(op, rest)
  PROVE  /\ journal' = Append(journal, [kind |-> "record", rec |-> NewRec(op)])
         /\ hist' = Append(hist, Absorb(hist[Len(hist)], NewRec(op)))
         /\ ~open' /\ ~tainted'
<1> DEFINE rec == NewRec(op)
<1>1. torn \in Nat /\ failed \in Nat /\ Len(hist) = Len(journal) + 1
  BY DEF StoreInv, TypeOK, HistIsReplay
<1>2. ~WriteFails(rec) /\ ~WriteTorn(rec)
  <2>1. ~(failed < MaxFailed) /\ ~(torn < MaxTorn)
    BY <1>1 DEF FaultFree
  <2>2. QED BY <2>1 DEF WriteFails, WriteTorn
<1>3. rec.op = op /\ Text(rec) = [kind |-> "record", rec |-> rec]
  BY DEF FaultFree, Text, NewRec
<1>4. Put(Text(rec), TRUE) /\ ~tainted'
  BY <1>2, <1>3 DEF Record, NewRec, WriteWhole, Dead, FaultFree
<1>5. Replayed(hist[Len(hist)], Text(rec)) = Absorb(hist[Len(hist)], rec)
  BY <1>3 DEF Replayed
<1> HIDE DEF rec
<1>6. QED BY <1>1, <1>3, <1>4, <1>5 DEF Put, rec

\* No line is unfinished and no record was lost.
Clean == ~open /\ ~tainted

\* So it stays for ever, through every crash and restart.
LEMMA CleanStep == FaultFree /\ StoreInv /\ Clean /\ [Next]_vars => Clean'
<1> SUFFICES ASSUME FaultFree, StoreInv, Clean, [Next]_vars PROVE Clean'
  OBVIOUS
<1>1. CASE Quiet
  <2>1. open' = open /\ (tainted' = tainted \/ tainted' = FALSE)
    BY <1>1 DEF Quiet, disk
  <2>2. QED BY <2>1 DEF Clean
<1>2. CASE Recording
  <2>1. PICK op, rest : op \in Op /\ Record(op, rest)
    BY <1>2 DEF Recording
  <2>2. ~open /\ ~tainted
    BY DEF Clean
  <2>3. ~open' /\ ~tainted'
    BY <2>1, <2>2, CleanRecord, Zenon
  <2>4. QED BY <2>3 DEF Clean
<1>3. QED BY <1>1, <1>2, QuietOrRecording
=============================================================================
