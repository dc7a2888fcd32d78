------------------------ MODULE RevocationViewProofs ------------------------
(***************************************************************************)
(* Theorems about RevocationView, for all instants, declarations, queries  *)
(* and bounds.                                                             *)
(***************************************************************************)
EXTENDS RevocationView, TLAPS

\* The filter on windows is sound: what InWindow lets through overlaps.
LEMMA InWindowOverlaps ==
  ASSUME NEW w \in Window, NEW asked \in Asked,
         asked.end # None => asked.start <= asked.end,
         InWindow(w, asked)
  PROVE  Overlaps(w, asked)
<1>1. /\ w.from \in Nat /\ asked.start \in Nat
      /\ w.to # None => w.to \in Nat /\ w.from <= w.to
      /\ asked.end # None => asked.end \in Nat
  BY ViewAssumption DEF Window, Asked
<1>2. CASE Contains(w, asked.start)
  BY <1>1, <1>2 DEF Contains, WindowEnd, Overlaps
<1>3. CASE asked.end # None /\ Contains(w, asked.end)
  BY <1>1, <1>3 DEF Contains, WindowEnd, Overlaps
<1>4. CASE asked.end = None /\ w.to = None
  BY <1>4 DEF Overlaps
<1>5. QED BY <1>2, <1>3, <1>4 DEF InWindow

\* What a read answers: rows of declarations that pass the filters.
LEMMA RowsMatch ==
  ASSUME ledger \in Seq(Entry), NEW q \in Query, NEW asof \in Instant
  PROVE  /\ Rows(q, asof) \subseteq Row
         /\ \A row \in Rows(q, asof) : Matches(row.rev, q)
<1> SUFFICES ASSUME NEW row \in Rows(q, asof)
             PROVE  row \in Row /\ Matches(row.rev, q)
  OBVIOUS
<1>1. PICK i \in DOMAIN ledger :
        /\ Matches(ledger[i].rev, q)
        /\ row = [seq |-> SeqOf(q, i), rev |-> ledger[i].rev,
                  known |-> KnownAt(ledger[i].rev, q),
                  standing |-> StandingOf(ledger[i].rev, q, asof)]
  BY DEF Rows
<1>2. ledger[i].rev \in Revocation /\ SeqOf(q, i) \in Nat
  <2>1. i \in 1..Len(ledger)
    OBVIOUS
  <2>2. ledger[i] \in Entry
    BY <2>1
  <2>3. QED BY <2>1, <2>2 DEF Entry, SeqOf
<1>3. KnownAt(ledger[i].rev, q) \in BOOLEAN
  BY DEF KnownAt
<1>4. StandingOf(ledger[i].rev, q, asof) \in Standing
  BY DEF StandingOf, Standing
<1>5. QED BY <1>1, <1>2, <1>3, <1>4 DEF Row

\* The inductive invariant: every answer given so far holds only declarations
\* that pass its filters.
Filtered == \A a \in served : \A row \in a.rows : Matches(row.rev, a.query)

ViewInv == TypeOK /\ Filtered

\* Nothing has been declared, asked or answered at the start.
LEMMA ViewInit == Init => ViewInv
BY DEF Init, ViewInv, TypeOK, Filtered

\* No step of the clock, a client or the reader breaks the invariant.
LEMMA ViewNext == ViewInv /\ [Next]_vars => ViewInv'
<1> SUFFICES ASSUME ViewInv, [Next]_vars PROVE ViewInv'
  OBVIOUS
<1> USE DEF ViewInv
<1>1. CASE Tick
  BY <1>1 DEF Tick, TypeOK, Filtered
<1>2. ASSUME NEW r \in Declarations, Declare(r)
      PROVE  ViewInv'
  <2>1. [rev |-> r, recorded |-> now] \in Entry
    BY ViewAssumption DEF Entry, TypeOK
  <2>2. ledger' \in Seq(Entry)
    BY <1>2, <2>1 DEF Declare, TypeOK
  <2>3. UNCHANGED <<now, reader, served>>
    BY <1>2 DEF Declare
  <2>4. QED BY <2>2, <2>3 DEF TypeOK, Filtered
<1>3. ASSUME NEW q \in Queries, Arrive(q)
      PROVE  ViewInv'
  <2>1. q \in Query
    BY ViewAssumption
  <2>2. (IF q.at = None THEN now ELSE q.at) \in Instant
    BY <2>1 DEF Query, TypeOK
  <2>3. reader' \in [query: Query, asof: Instant]
    BY <1>3, <2>1, <2>2 DEF Arrive
  <2>4. UNCHANGED <<now, ledger, served>>
    BY <1>3 DEF Arrive
  <2>5. QED BY <2>3, <2>4 DEF TypeOK, Filtered
<1>4. CASE Answered
  <2> DEFINE q == reader.query
             a == [query |-> q, asof |-> reader.asof,
                   immutable |-> PointInTime(q),
                   rows |-> Rows(q, reader.asof), given |-> now]
  <2>1. q \in Query /\ reader.asof \in Instant
    BY <1>4 DEF Answered, TypeOK
  <2>2. ledger \in Seq(Entry) /\ now \in Instant
    BY DEF TypeOK
  <2>3. /\ Rows(q, reader.asof) \subseteq Row
        /\ \A row \in Rows(q, reader.asof) : Matches(row.rev, q)
    BY <2>1, <2>2, RowsMatch
  <2>4. PointInTime(q) \in BOOLEAN
    BY DEF PointInTime
  <2>5. a \in Answer
    BY <2>1, <2>2, <2>3, <2>4 DEF Answer
  <2>6. /\ served' = served \cup {a} /\ reader' = None
        /\ UNCHANGED <<now, ledger>>
    BY <1>4 DEF Answered
  <2>7. TypeOK'
    BY <2>5, <2>6 DEF TypeOK
  <2>8. Filtered'
    <3>1. \A row \in a.rows : Matches(row.rev, a.query)
      BY <2>3
    <3> HIDE DEF a
    <3>2. QED BY <2>6, <3>1 DEF Filtered
  <2>9. QED BY <2>7, <2>8
<1>5. CASE UNCHANGED vars
  BY <1>5 DEF vars, TypeOK, Filtered
<1>6. QED BY <1>1, <1>2, <1>3, <1>4, <1>5 DEF Next

\* The invariant holds in every reachable state.
THEOREM ViewInvariant == Spec => []ViewInv
BY ViewInit, ViewNext, PTL DEF Spec

\* Every declaration recorded, every read in progress and every answer given
\* keeps its form, for all instants, queries and interleavings (api.rs
\* revocations_view).
THEOREM ViewTypes == Spec => []TypeOK
<1>1. ViewInv => TypeOK
  BY DEF ViewInv
<1>2. QED BY <1>1, ViewInvariant, PTL

\* GET /revocations never shows a declaration whose window does not overlap
\* the window asked for, for any ledger, query and order of the two.
THEOREM WindowFilterSound == Spec => []WindowSound
<1>1. ViewInv => WindowSound
  <2> SUFFICES ASSUME ViewInv, NEW a \in served, NEW row \in a.rows,
                      a.query.window # None,
                      a.query.window.end # None =>
                        a.query.window.start <= a.query.window.end
               PROVE  Overlaps(row.rev.window, a.query.window)
    BY DEF WindowSound
  <2>1. a.query \in Query /\ row \in Row
    BY DEF ViewInv, TypeOK, Answer
  <2>2. a.query.window \in Asked /\ row.rev.window \in Window
    BY <2>1 DEF Query, Row, Revocation
  <2>3. InWindow(row.rev.window, a.query.window)
    BY DEF ViewInv, Filtered, Matches
  <2>4. QED BY <2>2, <2>3, InWindowOverlaps
<1>2. QED BY <1>1, ViewInvariant, PTL

-----------------------------------------------------------------------------
(* What an answer says of the ledger.                                      *)

\* A row is about the ledger's entry of its number.
RowTells(row, a) ==
  /\ row.seq \in DOMAIN ledger
  /\ row.rev = ledger[row.seq].rev
  /\ row.standing = StandingOf(row.rev, a.query, a.asof)
  /\ Matches(row.rev, a.query)
  /\ ledger[row.seq].recorded <= a.given

\* And whatever was recorded before, and passes the filters, has a row.
Complete(a) ==
  \A i \in DOMAIN ledger :
    ledger[i].recorded < a.given /\ Matches(ledger[i].rev, a.query)
      => \E row \in a.rows : row.seq = i

Dated(x) == x.query.at # None => x.asof = x.query.at

AnswerTells(a) ==
  /\ a.given <= now /\ Dated(a)
  /\ \A row \in a.rows : RowTells(row, a)
  /\ Complete(a)

LedgerInv ==
  /\ \A i \in DOMAIN ledger : ledger[i].recorded <= now
  /\ reader # None => Dated(reader)
  /\ \A a \in served : AnswerTells(a)

\* An answer keeps telling the truth while the clock and the ledger go on.
LEMMA AnswerStays ==
  ASSUME TypeOK, NEW a \in served, AnswerTells(a),
         \/ now' = now + 1 /\ ledger' = ledger
         \/ now' = now /\ \E r : ledger' = Append(ledger, [rev |-> r, recorded |-> now])
  PROVE  AnswerTells(a)'
<1>1. now \in Nat /\ a.given \in Nat /\ ledger \in Seq(Entry)
  BY ViewAssumption DEF TypeOK, Answer
<1>2. now' \in {now, now + 1} /\ a.given <= now'
  BY <1>1 DEF AnswerTells
<1>3. CASE ledger' = ledger
  BY <1>2, <1>3 DEF AnswerTells, RowTells, Complete, Dated
<1>4. CASE \E r : ledger' = Append(ledger, [rev |-> r, recorded |-> now])
  <2>1. PICK r : ledger' = Append(ledger, [rev |-> r, recorded |-> now])
    BY <1>4
  <2> DEFINE e == [rev |-> r, recorded |-> now]
             n == Len(ledger)
  <2>2. /\ DOMAIN ledger = 1..n /\ DOMAIN ledger' = 1..(n + 1) /\ n \in Nat
        /\ \A i \in DOMAIN ledger : ledger'[i] = ledger[i]
        /\ ledger'[n + 1] = e
    BY <1>1, <2>1
  <2>3. ASSUME NEW row \in a.rows
        PROVE  RowTells(row, a)'
    <3>1. RowTells(row, a)
      BY DEF AnswerTells
    <3>2. row.seq \in DOMAIN ledger /\ row.seq \in DOMAIN ledger'
      BY <2>2, <3>1 DEF RowTells
    <3>3. QED BY <2>2, <3>1, <3>2 DEF RowTells
  <2>4. ASSUME NEW i \in DOMAIN ledger',
               ledger'[i].recorded < a.given, Matches(ledger'[i].rev, a.query)
        PROVE  \E row \in a.rows : row.seq = i
    <3>1. CASE i \in DOMAIN ledger
      BY <2>2, <2>4, <3>1 DEF AnswerTells, Complete
    <3>2. CASE i = n + 1
      <4>1. ledger'[i].recorded = now
        BY <2>2, <3>2
      <4>2. QED BY <1>1, <2>4, <4>1 DEF AnswerTells
    <3>3. QED BY <2>2, <3>1, <3>2
  <2>5. Complete(a)'
    BY <2>4 DEF Complete
  <2>6. QED BY <1>2, <2>3, <2>5 DEF AnswerTells, Dated
<1>5. QED BY <1>3, <1>4

\* A new answer tells the truth.
LEMMA AnswerNew ==
  ASSUME TypeOK, LedgerInv, reader # None, NEW a,
         a = [query |-> reader.query, asof |-> reader.asof,
              immutable |-> PointInTime(reader.query),
              rows |-> Rows(reader.query, reader.asof), given |-> now]
  PROVE  AnswerTells(a)
<1>1. /\ a.query = reader.query /\ a.asof = reader.asof /\ a.given = now
      /\ a.rows = Rows(a.query, a.asof)
  OBVIOUS
<1>2. now \in Nat /\ ledger \in Seq(Entry)
  BY ViewAssumption DEF TypeOK
<1> DEFINE Shown == {i \in DOMAIN ledger : Matches(ledger[i].rev, a.query)}
           R(i)  == [seq |-> i, rev |-> ledger[i].rev,
                     known |-> KnownAt(ledger[i].rev, a.query),
                     standing |-> StandingOf(ledger[i].rev, a.query, a.asof)]
<1>3. a.rows = {R(i) : i \in Shown}
  BY <1>1 DEF Rows, SeqOf
<1>4. ASSUME NEW row \in a.rows
      PROVE  RowTells(row, a)
  <2>1. PICK i \in Shown : row = R(i)
    BY <1>3
  <2>2. /\ row.seq = i /\ row.rev = ledger[i].rev
        /\ row.standing = StandingOf(ledger[i].rev, a.query, a.asof)
    BY <2>1
  <2>3. ledger[i].recorded <= now
    BY DEF LedgerInv
  <2>4. QED BY <1>1, <2>2, <2>3 DEF RowTells
<1>5. Complete(a)
  <2>1. ASSUME NEW i \in DOMAIN ledger, Matches(ledger[i].rev, a.query)
        PROVE  \E row \in a.rows : row.seq = i
    <3>1. R(i) \in a.rows /\ R(i).seq = i
      BY <1>3, <2>1
    <3>2. QED BY <3>1
  <2>2. QED BY <2>1 DEF Complete
<1>6. Dated(a)
  BY <1>1 DEF LedgerInv, Dated
<1>7. QED BY <1>1, <1>2, <1>4, <1>5, <1>6 DEF AnswerTells

\* So every step keeps all answers true of what they were read from.
LEMMA LedgerStep == ViewInv /\ LedgerInv /\ [Next]_vars => LedgerInv'
<1> SUFFICES ASSUME ViewInv, LedgerInv, [Next]_vars PROVE LedgerInv'
  OBVIOUS
<1>1. TypeOK /\ now \in Nat /\ ledger \in Seq(Entry)
  BY ViewAssumption DEF ViewInv, TypeOK
<1>2. \A i \in DOMAIN ledger : ledger[i].recorded \in Nat /\ ledger[i].recorded <= now
  <2>1. \A i \in DOMAIN ledger : ledger[i] \in Entry
    BY <1>1
  <2>2. QED BY <2>1, ViewAssumption DEF Entry, LedgerInv
<1>3. CASE Tick
  <2>1. now' = now + 1 /\ UNCHANGED <<ledger, reader, served>>
    BY <1>3 DEF Tick
  <2>2. \A a \in served : AnswerTells(a)'
    BY <1>1, <2>1, AnswerStays DEF LedgerInv
  <2>3. \A i \in DOMAIN ledger : ledger[i].recorded <= now + 1
    BY <1>1, <1>2
  <2>4. QED BY <2>1, <2>2, <2>3 DEF LedgerInv, Dated
<1>4. ASSUME NEW r \in Declarations, Declare(r)
      PROVE  LedgerInv'
  <2>1. /\ ledger' = Append(ledger, [rev |-> r, recorded |-> now])
        /\ UNCHANGED <<now, reader, served>>
    BY <1>4 DEF Declare
  <2>2. \A a \in served : AnswerTells(a)'
    BY <1>1, <2>1, AnswerStays DEF LedgerInv
  <2>3. \A i \in DOMAIN ledger' : ledger'[i].recorded <= now
    BY <1>1, <1>2, <2>1
  <2>4. QED BY <2>1, <2>2, <2>3 DEF LedgerInv, Dated
<1>5. ASSUME NEW q \in Queries, Arrive(q)
      PROVE  LedgerInv'
  <2>1. /\ reader' = [query |-> q, asof |-> IF q.at = None THEN now ELSE q.at]
        /\ UNCHANGED <<now, ledger, served>>
    BY <1>5 DEF Arrive
  <2>2. Dated(reader)'
    BY <2>1 DEF Dated
  <2>3. \A a \in served : AnswerTells(a)'
    BY <2>1 DEF LedgerInv, AnswerTells, RowTells, Complete, Dated
  <2>4. QED BY <2>1, <2>2, <2>3 DEF LedgerInv
<1>6. CASE Answered
  <2> DEFINE a == [query |-> reader.query, asof |-> reader.asof,
                   immutable |-> PointInTime(reader.query),
                   rows |-> Rows(reader.query, reader.asof), given |-> now]
  <2>1. /\ served' = served \cup {a} /\ reader # None /\ reader' = None
        /\ UNCHANGED <<now, ledger>>
    BY <1>6 DEF Answered
  <2>2. AnswerTells(a)
    BY <1>1, <2>1, AnswerNew
  <2> HIDE DEF a
  <2>3. \A b \in served' : AnswerTells(b)
    BY <2>1, <2>2 DEF LedgerInv
  <2>4. \A b \in served' : AnswerTells(b)'
    BY <2>1, <2>3 DEF AnswerTells, RowTells, Complete, Dated
  <2>5. QED BY <2>1, <2>4 DEF LedgerInv
<1>7. CASE UNCHANGED vars
  BY <1>7 DEF vars, LedgerInv, AnswerTells, RowTells, Complete, Dated
<1>8. QED BY <1>3, <1>4, <1>5, <1>6, <1>7 DEF Next

\* Every answer given so far tells of the ledger as it was then.
THEOREM LedgerIsTold == Spec => []LedgerInv
<1>1. Init => LedgerInv
  BY DEF Init, LedgerInv
<1>2. QED BY <1>1, LedgerStep, ViewInvariant, PTL DEF Spec

\* A seq names one declaration in all answers of the process, whatever their
\* filters, and however the ledger grew in between (api.rs:896).
THEOREM SeqNamesOneAlways == Spec => []SeqNamesOne
<1>1. LedgerInv => SeqNamesOne
  BY DEF LedgerInv, AnswerTells, RowTells, SeqNamesOne
<1>2. QED BY <1>1, LedgerIsTold, PTL

\* The filters do not depend on the cutoff.
LEMMA CutoffKeepsFilters ==
  ASSUME NEW q \in Query, NEW k \in Instant, NEW r
  PROVE  /\ [q EXCEPT !.known = k] \in Query
         /\ [q EXCEPT !.known = k].known = k
         /\ [q EXCEPT !.known = k].at = q.at
         /\ Matches(r, [q EXCEPT !.known = k]) <=> Matches(r, q)
BY DEF Query, Matches

\* The evidentiary reading, for all instants, declarations, filters and orders
\* of arrival: asking later for an instant as known by k gives of every
\* declaration the standing that an answer given at k showed -- provided that
\* it was dated when it was recorded, and not recorded at k itself.
THEOREM CutoffReplaysAlways == Spec => []CutoffReplays
<1>1. ViewInv /\ LedgerInv => CutoffReplays
  <2> SUFFICES ASSUME ViewInv, LedgerInv, NEW a \in served, NEW b \in served,
                      a.query.at # None, a.query.known = None,
                      b.query = [a.query EXCEPT !.known = a.given],
                      a.given <= b.given, NEW i \in DOMAIN ledger,
                      ledger[i].rev.declared = ledger[i].recorded,
                      ledger[i].recorded # a.given
               PROVE  Voided(a, i) <=> Voided(b, i)
    BY DEF CutoffReplays
  <2> DEFINE r == ledger[i].rev
             k == ledger[i].recorded
  <2>1. /\ a.query \in Query /\ a.given \in Instant
        /\ a.given \in Nat /\ b.given \in Nat
    BY ViewAssumption DEF ViewInv, TypeOK, Answer
  <2>2. k \in Nat
    <3>1. ledger \in Seq(Entry)
      BY DEF ViewInv, TypeOK
    <3>2. ledger[i] \in Entry
      BY <3>1
    <3>3. QED BY <3>2, ViewAssumption DEF Entry
  <2>3. /\ b.query.known = a.given /\ b.query.at = a.query.at
        /\ Matches(r, b.query) <=> Matches(r, a.query)
    BY <2>1, CutoffKeepsFilters
  <2>4. a.asof = b.asof
    BY <2>3 DEF LedgerInv, AnswerTells, Dated
  <2>5. ASSUME NEW row, row \in a.rows \/ row \in b.rows, row.seq = i
        PROVE  row.rev = r
    BY <2>5 DEF LedgerInv, AnswerTells, RowTells
  <2>6. KnownAt(r, a.query)
    BY DEF KnownAt
  <2>7. KnownAt(r, b.query) <=> k <= a.given
    <3>1. a.given # None
      BY <2>1, ViewAssumption
    <3>2. QED BY <2>3, <3>1 DEF KnownAt
  <2>8. k < a.given => StandingOf(r, a.query, a.asof) = StandingOf(r, b.query, b.asof)
    BY <2>1, <2>2, <2>4, <2>6, <2>7 DEF StandingOf
  <2>9. ASSUME Voided(a, i)
        PROVE  Voided(b, i)
    <3>1. PICK row \in a.rows : row.seq = i /\ row.standing # "valid"
      BY <2>9 DEF Voided
    <3>2. RowTells(row, a)
      BY DEF LedgerInv, AnswerTells
    <3>3. k < a.given /\ k < b.given
      BY <2>1, <2>2, <3>1, <3>2 DEF RowTells
    <3>4. Matches(r, a.query) /\ StandingOf(r, a.query, a.asof) # "valid"
      BY <3>1, <3>2 DEF RowTells
    <3>5. PICK other \in b.rows : other.seq = i
      BY <2>3, <3>3, <3>4 DEF LedgerInv, AnswerTells, Complete
    <3>6. RowTells(other, b) /\ other.rev = r
      BY <2>5, <3>5 DEF LedgerInv, AnswerTells
    <3>7. other.standing # "valid"
      BY <2>8, <3>3, <3>4, <3>6 DEF RowTells
    <3>8. QED BY <3>5, <3>7 DEF Voided
  <2>10. ASSUME Voided(b, i)
         PROVE  Voided(a, i)
    <3>1. PICK row \in b.rows : row.seq = i /\ row.standing # "valid"
      BY <2>10 DEF Voided
    <3>2. RowTells(row, b)
      BY DEF LedgerInv, AnswerTells
    <3>3. Matches(r, b.query) /\ StandingOf(r, b.query, b.asof) # "valid"
      BY <3>1, <3>2 DEF RowTells
    <3>4. k < a.given
      <4>1. KnownAt(r, b.query)
        BY <3>3 DEF StandingOf
      <4>2. QED BY <2>1, <2>2, <2>7, <4>1
    <3>5. PICK other \in a.rows : other.seq = i
      BY <2>3, <3>3, <3>4 DEF LedgerInv, AnswerTells, Complete
    <3>6. RowTells(other, a) /\ other.rev = r
      BY <2>5, <3>5 DEF LedgerInv, AnswerTells
    <3>7. other.standing # "valid"
      BY <2>8, <3>3, <3>4, <3>6 DEF RowTells
    <3>8. QED BY <3>5, <3>7 DEF Voided
  <2>11. QED BY <2>9, <2>10
<1>2. QED BY <1>1, LedgerIsTold, ViewInvariant, PTL
=============================================================================
