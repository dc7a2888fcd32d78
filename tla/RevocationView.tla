--------------------------- MODULE RevocationView ---------------------------
(***************************************************************************)
(* GET /revocations of src/api.rs: the ledger read at an instant, through  *)
(* the known_by cutoff and the subject, retroactive and window filters,    *)
(* while POST /revocations appends to it.  A read takes the clock before   *)
(* it takes the store's lock, so a declaration can come in between.        *)
(*                                                                         *)
(* Instants are numbers.  A filter on subjects is the set of the labels    *)
(* that begin with it; one on retroactivity a set of Booleans.             *)
(***************************************************************************)
EXTENDS Naturals, FiniteSets, Sequences

CONSTANTS
  Instant,       \* the instants there are
  Label,         \* subject labels
  None,          \* no such parameter; an open end
  Declarations,  \* the revocations that get declared
  Queries,       \* the queries that get asked
  MaxLedger,     \* bound: declarations
  MaxServed      \* bound: answers

\* A window whose "to" is None is open-ended.
Window == {w \in [from: Instant, to: Instant \cup {None}] :
             w.to # None => w.from <= w.to}

Revocation ==
  [subject: Label, retroactive: BOOLEAN, declared: Instant, window: Window]

\* The window asked for may be inverted: nothing compares its ends.
Asked == [start: Instant, end: Instant \cup {None}]

Query ==
  [at: Instant \cup {None}, known: Instant \cup {None},
   subjects: SUBSET Label, retroactive: SUBSET BOOLEAN,
   window: Asked \cup {None}]

ASSUME ViewAssumption ==
  /\ Instant \subseteq Nat /\ None \notin Instant /\ None \notin Asked
  /\ Declarations \subseteq Revocation
  /\ Queries \subseteq Query
  /\ MaxLedger \in Nat /\ MaxServed \in Nat

VARIABLES
  now,      \* the clock
  ledger,   \* what was declared, with the instant it was recorded at
  reader,   \* a read between its clock and its lock, or None
  served    \* history: the answers given, with the instant they were given at

vars == <<now, ledger, reader, served>>

Entry == [rev: Revocation, recorded: Instant]

Standing == {"valid", "void-ab-initio", "suspended-from"}
Row == [seq: Nat, rev: Revocation, known: BOOLEAN, standing: Standing]

Answer == [query: Query, asof: Instant, immutable: BOOLEAN,
           rows: SUBSET Row, given: Instant]

-----------------------------------------------------------------------------
(* The filters.                                                            *)

WindowEnd(w) == IF w.to = None THEN w.from ELSE w.to

\* Mutant: only the far side of the window is looked at.
ContainsEarlier(w, t) == t <= WindowEnd(w)

Contains(w, t) == w.from <= t /\ t <= WindowEnd(w)

\* One end of what is asked for falls inside, or both are open-ended.
InWindow(w, asked) ==
  \/ Contains(w, asked.start)
  \/ asked.end # None /\ Contains(w, asked.end)
  \/ asked.end = None /\ w.to = None

Matches(r, q) ==
  /\ r.retroactive \in q.retroactive
  /\ r.subject \in q.subjects
  /\ q.window # None => InWindow(r.window, q.window)

-----------------------------------------------------------------------------
(* The reading of one declaration.                                         *)

\* External, Revocation::voids: a retroactive reason voids inside its window,
\* a prospective one from its start on.
Voids(r, t) ==
  /\ r.window.from <= t
  /\ r.retroactive /\ r.window.to # None => t <= r.window.to

\* Mutant: what happened by the cutoff instead of what was declared by it.
KnownByWindow(r, q) == q.known # None => r.window.from <= q.known

KnownAt(r, q) == q.known # None => r.declared <= q.known

StandingOf(r, q, asof) ==
  IF ~(KnownAt(r, q) /\ Voids(r, asof)) THEN "valid"
  ELSE IF r.retroactive THEN "void-ab-initio" ELSE "suspended-from"

\* Mutant: counts what is shown.
SeqShown(q, i) == Cardinality({j \in 1..i : Matches(ledger[j].rev, q)})

\* seq counts every declaration, shown or not.
SeqOf(q, i) == i

Rows(q, asof) ==
  LET Shown == {i \in DOMAIN ledger : Matches(ledger[i].rev, q)}
  IN  {[seq |-> SeqOf(q, i), rev |-> ledger[i].rev,
        known |-> KnownAt(ledger[i].rev, q),
        standing |-> StandingOf(ledger[i].rev, q, asof)] : i \in Shown}

\* cache_for: an explicit "at" is answered for good, "immutable".
PointInTime(q) == q.at # None

-----------------------------------------------------------------------------
Init == now \in Instant /\ (\A t \in Instant : now <= t)
        /\ ledger = << >> /\ reader = None /\ served = {}

Tick == now + 1 \in Instant /\ now' = now + 1
        /\ UNCHANGED <<ledger, reader, served>>

\* POST /revocations: declared_at is the client's.
Declare(r) ==
  /\ Len(ledger) < MaxLedger
  /\ ledger' = Append(ledger, [rev |-> r, recorded |-> now])
  /\ UNCHANGED <<now, reader, served>>

\* Mutant: the clock is not asked when there is no "at".
ArriveUndated(q) ==
  /\ reader = None /\ Cardinality(served) < MaxServed
  /\ reader' = [query |-> q, asof |-> q.at]
  /\ UNCHANGED <<now, ledger, served>>

Arrive(q) ==
  /\ reader = None /\ Cardinality(served) < MaxServed
  /\ reader' = [query |-> q, asof |-> IF q.at = None THEN now ELSE q.at]
  /\ UNCHANGED <<now, ledger, served>>

\* Under the lock.
Answered ==
  /\ reader # None
  /\ served' = served \cup
       {[query |-> reader.query, asof |-> reader.asof,
         immutable |-> PointInTime(reader.query),
         rows |-> Rows(reader.query, reader.asof), given |-> now]}
  /\ reader' = None
  /\ UNCHANGED <<now, ledger>>

Next ==
  \/ Tick \/ Answered
  \/ \E r \in Declarations : Declare(r)
  \/ \E q \in Queries : Arrive(q)

Spec == Init /\ [][Next]_vars

-----------------------------------------------------------------------------
(* Properties.                                                             *)

TypeOK ==
  /\ now \in Instant
  /\ ledger \in Seq(Entry)
  /\ reader \in [query: Query, asof: Instant] \cup {None}
  /\ served \subseteq Answer

\* What overlapping means: some instant is in both.
Overlaps(w, asked) ==
  /\ asked.end = None \/ w.from <= asked.end
  /\ w.to = None \/ asked.start <= w.to

\* The window filter never shows a declaration whose window does not overlap
\* the one asked for (api.rs:912-926), whichever end it matched by.
WindowSound ==
  \A a \in served : \A row \in a.rows :
    LET w == a.query.window IN
    w # None /\ (w.end # None => w.start <= w.end)
      => Overlaps(row.rev.window, w)

\* A row's seq names one declaration in every answer there will be, whatever
\* the filters and however the ledger has grown (api.rs:896).
SeqNamesOne ==
  \A a, b \in served : \A x \in a.rows, y \in b.rows :
    x.seq = y.seq => x.rev = y.rev

\* A declaration that an answer shows not to be "valid".
Voided(a, i) == \E row \in a.rows : row.seq = i /\ row.standing # "valid"

\* The evidentiary reading (tests/integration.rs:596): whoever asks for an
\* instant at clock k sees of every declaration the standing that anyone sees
\* later who asks for the same instant as known by k -- provided that it was
\* dated when it was recorded, and was not recorded at clock k itself.
CutoffReplays ==
  \A a, b \in served :
    /\ a.query.at # None /\ a.query.known = None
    /\ b.query = [a.query EXCEPT !.known = a.given]
    /\ a.given <= b.given
    => \A i \in DOMAIN ledger :
         LET e == ledger[i] IN
         e.rev.declared = e.recorded /\ e.recorded # a.given
           => (Voided(a, i) <=> Voided(b, i))

-----------------------------------------------------------------------------
(* What the API's description and comments say and the code does not do.   *)

\* "declarations whose window overlaps it are returned" (api.rs:848): a
\* declaration recorded before an answer was given, that passes the other
\* filters, is in it.
WindowComplete ==
  \A a \in served :
    LET w == a.query.window
        Before == {i \in DOMAIN ledger : ledger[i].recorded < a.given}
    IN  w # None /\ (w.end # None => w.start <= w.end)
          => \A i \in Before :
               LET r == ledger[i].rev IN
               /\ r.retroactive \in a.query.retroactive
               /\ r.subject \in a.query.subjects
               /\ Overlaps(r.window, w)
               => \E row \in a.rows : row.seq = i

\* "Point-in-time response: the body is fixed for a given input", and is sent
\* as immutable (api.rs:55).
PointInTimeFixed ==
  \A a, b \in served :
    a.immutable /\ a.query = b.query => a.rows = b.rows
=============================================================================
