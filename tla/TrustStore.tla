----------------------------- MODULE TrustStore -----------------------------
(***************************************************************************)
(* The running store of src/store.rs: one process that opens a JSONL       *)
(* journal, replays it line by line, seeds an empty log, and then serves   *)
(* mutating requests, each of which holds the Mutex<Store> from its        *)
(* validation to its last record.  The process may be killed at any point, *)
(* a write may fail, and a write may be cut short.                         *)
(***************************************************************************)
EXTENDS TrustState

CONSTANTS
  Requests,    \* ops that requests with one record ask for
  Batches,     \* POST /trust-lists: [list: op, entries: Seq(op or Malformed)]
  Malformed,   \* an element of "entries" that does not parse
  Seeds,       \* seed::seed_ops(), << >> when seeding is off
  Unreadable,  \* ops whose JSON line AuditRecord::from_json rejects
  Tears,       \* what a cut-short write may leave: see Piece
  MaxRecords,  \* bound: no request is taken once this many records exist
  MaxTorn,     \* bound: crashes in the middle of a write
  MaxFailed    \* bound: writes that return an I/O error

\* The entries loop of POST /trust-lists upserts and does nothing else.
OnlyEntries(ops) ==
  \A i \in DOMAIN ops : ops[i] # Malformed => ops[i].type = "upsert-trust-entry"

ASSUME RequestsAssumption ==
  /\ Requests \subseteq Op
  /\ Unreadable \subseteq Op
  /\ Seeds \in Seq(Op)
  /\ Batches \subseteq [list: Op, entries: Seq(Op \cup {Malformed})]
  /\ \A b \in Batches : OnlyEntries(b.entries)
  /\ Malformed \notin Op
  /\ Absent \notin AuditRecord

ASSUME BoundsAssumption ==
  /\ MaxRecords \in Nat /\ MaxTorn \in Nat /\ MaxFailed \in Nat
  /\ Tears \subseteq {"garbage", "badutf8", "whole"}

VARIABLES
  mode,     \* "down", "replaying", "seeding", "serving", "refused"
  store,    \* the Store; EmptyStore while there is no process
  journal,  \* the file's lines, the last one perhaps unterminated
  open,     \* the file does not end in a newline
  pos,      \* the line replay reads next, 1 outside replay
  todo,     \* ops the lock holder has still to record
  \* History, read by no guard but the bounds':
  hist,     \* hist[i + 1]: the Store a replay of the first i lines gives
  issued,   \* records ever made
  started,  \* id of the first record of the handler in progress, or 0
  acked,    \* records a success response has been sent for
  torn, failed,  \* mid-write crashes and failed writes so far
  tainted   \* this process made a record the journal may not give back

disk == <<journal, open, hist>>
vars == <<mode, store, journal, open, pos, todo,
          hist, issued, started, acked, torn, failed, tainted>>

\* A line of the file: a record, text that does not parse, or bytes that are
\* not UTF-8.
Line == [kind: {"record"}, rec: AuditRecord]
        \cup [kind: {"garbage", "badutf8"}, rec: {Absent}]

Unparsed(k) == [kind |-> k, rec |-> Absent]

\* The whole line of a record, and what is left of it when the write is cut
\* short: a fragment, a fragment cut inside a character, or the whole text
\* with only the newline missing.
Text(rec) == IF rec.op \in Unreadable THEN Unparsed("garbage")
             ELSE [kind |-> "record", rec |-> rec]
Piece(t, rec) == IF t = "whole" THEN Text(rec) ELSE Unparsed(t)

\* Text written after an unterminated line continues that line.
Glued(line, more) ==
  Unparsed(IF "badutf8" \in {line.kind, more.kind} THEN "badutf8"
           ELSE "garbage")

\* One iteration of the replay loop.
Replayed(s, line) == IF line.kind = "record" THEN Absorb(s, line.rec) ELSE s

-----------------------------------------------------------------------------
Init ==
  /\ mode = "down" /\ store = EmptyStore
  /\ journal = << >> /\ open = FALSE /\ hist = <<EmptyStore>>
  /\ pos = 1 /\ todo = << >>
  /\ issued = 0 /\ started = 0 /\ acked = {}
  /\ torn = 0 /\ failed = 0 /\ tainted = FALSE

-----------------------------------------------------------------------------
(* Store::open and Store::replay.                                          *)

Open ==
  /\ mode \in {"down", "refused"}
  /\ mode' = "replaying" /\ pos' = 1 /\ store' = EmptyStore
  /\ UNCHANGED <<disk, todo, issued, started, acked, torn, failed, tainted>>

\* Mutant: a record that does not apply is left out of the log.
ReplayLineStrict ==
  /\ mode = "replaying" /\ pos <= Len(journal)
  /\ journal[pos].kind # "badutf8"
  /\ store' = IF /\ journal[pos].kind = "record"
                 /\ Applies(store, journal[pos].rec.op)
              THEN Absorb(store, journal[pos].rec) ELSE store
  /\ pos' = pos + 1
  /\ UNCHANGED <<mode, disk, todo, issued, started, acked, torn, failed,
                 tainted>>

\* Mutant: the loop does not get past a line that does not parse.
ReplayLineStuck ==
  /\ mode = "replaying" /\ pos <= Len(journal)
  /\ journal[pos].kind # "badutf8"
  /\ store' = Replayed(store, journal[pos])
  /\ pos' = IF journal[pos].kind = "record" THEN pos + 1 ELSE pos
  /\ UNCHANGED <<mode, disk, todo, issued, started, acked, torn, failed,
                 tainted>>

ReplayLine ==
  /\ mode = "replaying" /\ pos <= Len(journal)
  /\ journal[pos].kind # "badutf8"
  /\ store' = Replayed(store, journal[pos])
  /\ pos' = pos + 1
  /\ UNCHANGED <<mode, disk, todo, issued, started, acked, torn, failed,
                 tainted>>

\* Mutant: reads the file again, on top of what it has.
ReplayAgain ==
  /\ mode = "replaying" /\ pos <= Len(journal)
  /\ journal[pos].kind = "badutf8"
  /\ pos' = 1
  /\ UNCHANGED <<mode, store, disk, todo, issued, started, acked, torn,
                 failed, tainted>>

\* BufRead::lines yields an error: open returns it and the process exits.
ReplayRefused ==
  /\ mode = "replaying" /\ pos <= Len(journal)
  /\ journal[pos].kind = "badutf8"
  /\ mode' = "refused" /\ store' = EmptyStore /\ pos' = 1
  /\ UNCHANGED <<disk, todo, issued, started, acked, torn, failed, tainted>>

\* Mutant: seeds whatever the log holds.
ReplayDoneSeeding ==
  /\ mode = "replaying" /\ pos > Len(journal)
  /\ todo' = Seeds
  /\ mode' = IF todo' = << >> THEN "serving" ELSE "seeding"
  /\ pos' = 1
  /\ UNCHANGED <<store, disk, issued, started, acked, torn, failed,
                 tainted>>

\* Mutant: opens the file for writing instead of appending.
ReplayDoneTruncating ==
  /\ mode = "replaying" /\ pos > Len(journal)
  /\ todo' = IF store.log = << >> THEN Seeds ELSE << >>
  /\ mode' = IF todo' = << >> THEN "serving" ELSE "seeding"
  /\ pos' = 1
  /\ journal' = << >> /\ open' = FALSE /\ hist' = <<EmptyStore>>
  /\ UNCHANGED <<store, issued, started, acked, torn, failed, tainted>>

\* End of the file: open it for append, and seed when the log is empty.
ReplayDone ==
  /\ mode = "replaying" /\ pos > Len(journal)
  /\ todo' = IF store.log = << >> THEN Seeds ELSE << >>
  /\ mode' = IF todo' = << >> THEN "serving" ELSE "seeding"
  /\ pos' = 1
  /\ UNCHANGED <<store, disk, issued, started, acked, torn, failed,
                 tainted>>

-----------------------------------------------------------------------------
(* Store::record: write the line, apply the op, push the record.           *)

\* line goes to the end of the file.
Put(line, terminated) ==
  LET n == Len(journal) IN
  /\ open' = ~terminated
  /\ IF open
       THEN /\ journal' = [journal EXCEPT ![n] = Glued(@, line)]
            /\ hist' = [hist EXCEPT ![n + 1] = hist[n]]
       ELSE /\ journal' = Append(journal, line)
            /\ hist' = Append(hist, Replayed(hist[n + 1], line))

WriteWhole(rec) ==
  /\ Put(Text(rec), TRUE)
  /\ tainted' = (tainted \/ open \/ rec.op \in Unreadable)
  /\ UNCHANGED <<torn, failed>>

\* The error is logged and otherwise ignored; bytes may have gone out.
WriteFails(rec) ==
  /\ failed < MaxFailed /\ failed' = failed + 1
  /\ \/ UNCHANGED disk
     \/ \E t \in Tears : Put(Piece(t, rec), FALSE)
  /\ tainted' = TRUE
  /\ UNCHANGED torn

WriteTorn(rec) ==
  /\ torn < MaxTorn /\ torn' = torn + 1
  /\ \E t \in Tears : Put(Piece(t, rec), FALSE)
  /\ UNCHANGED failed

\* The process is gone, and with it the memory and the lock.
Dead ==
  /\ mode' = "down" /\ store' = EmptyStore /\ pos' = 1
  /\ todo' = << >> /\ started' = 0 /\ tainted' = FALSE
  /\ UNCHANGED acked

\* The records of a log from id first on.
MadeSince(log, first) ==
  {log[i] : i \in {k \in DOMAIN log : log[k].id >= first}}

\* The lock holder records op and has rest still to do; with nothing left a
\* request's response is sent (seeding has nobody to answer).
Survive(rec, rest) ==
  LET first == IF todo = << >> THEN rec.id ELSE started IN
  /\ store' = Absorb(store, rec)
  /\ todo' = rest
  /\ IF rest = << >>
       THEN /\ mode' = "serving" /\ started' = 0
            /\ acked' = IF mode = "serving"
                        THEN acked \cup MadeSince(store'.log, first)
                        ELSE acked
       ELSE /\ started' = first
            /\ UNCHANGED <<mode, acked>>
  /\ UNCHANGED pos

Record(op, rest) ==
  LET rec == [id |-> issued + 1, seq |-> NextSeq(store), op |-> op] IN
  /\ issued' = issued + 1
  /\ \/ WriteWhole(rec) /\ Survive(rec, rest)
     \/ WriteFails(rec) /\ Survive(rec, rest)
     \/ WriteTorn(rec) /\ Dead
     \/ /\ Put(Text(rec), TRUE)   \* killed before it could answer
        /\ Dead /\ UNCHANGED <<torn, failed>>

\* Killed between two records, or while replaying or idle.
Crash ==
  /\ mode \in {"replaying", "seeding", "serving"}
  /\ Dead
  /\ UNCHANGED <<disk, issued, torn, failed>>

SeedNext ==
  /\ mode = "seeding" /\ todo # << >>
  /\ Record(Head(todo), Tail(todo))

-----------------------------------------------------------------------------
(* The typed entry points, each under the lock of its handler.             *)

Asked(op, type) ==
  /\ mode = "serving" /\ todo = << >> /\ issued < MaxRecords
  /\ op.type = type

RegisterNode(op) == Asked(op, "register-node") /\ Record(op, << >>)

AddEdge(op) ==
  /\ Asked(op, "add-edge") /\ MayAddEdge(store, op)
  /\ Record(op, << >>)

UpsertTrustEntry(op) ==
  /\ Asked(op, "upsert-trust-entry") /\ MayUpsertEntry(store, op)
  /\ Record(op, << >>)

SetWitnesses(op) ==
  /\ Asked(op, "set-witnesses") /\ MaySetWitnesses(store, op)
  /\ Record(op, << >>)

UpsertMasterEntry(op) ==
  /\ Asked(op, "upsert-master-entry") /\ MayUpsertRoot(store, op)
  /\ Record(op, << >>)

DeclareRevocation(op) ==
  /\ Asked(op, "declare-revocation") /\ MayDeclare(store, op)
  /\ Record(op, << >>)

RegisterEvidence(op) ==
  /\ Asked(op, "register-evidence") /\ MayRegisterEvidence(store, op)
  /\ Record(op, << >>)

\* GET /evidence/{id}: the response is the document itself.
ReleaseEvidence(op) ==
  /\ Asked(op, "evidence-released") /\ MayRelease(store, op)
  /\ Record(op, << >>)

\* POST /trust-lists: the list first, then its entries one by one.
RegisterTrustList(b) ==
  /\ Asked(b.list, "register-trust-list") /\ MayRegisterList(store, b.list)
  /\ Record(b.list, b.entries)

ListEntry ==
  /\ mode = "serving" /\ todo # << >> /\ Head(todo) # Malformed
  /\ MayUpsertEntry(store, Head(todo))
  /\ Record(Head(todo), Tail(todo))

\* Mutant: a bad entry is left out, and the next one taken.
ListEntrySkipped ==
  /\ mode = "serving" /\ todo # << >>
  /\ Head(todo) # Malformed => ~MayUpsertEntry(store, Head(todo))
  /\ todo' = Tail(todo)
  /\ started' = IF todo' = << >> THEN 0 ELSE started
  /\ UNCHANGED <<mode, store, disk, pos, issued, acked, torn, failed, tainted>>

\* A bad entry answers 400; what has been recorded so far stays.
ListEntryRejected ==
  /\ mode = "serving" /\ todo # << >>
  /\ Head(todo) # Malformed => ~MayUpsertEntry(store, Head(todo))
  /\ todo' = << >> /\ started' = 0
  /\ UNCHANGED <<mode, store, disk, pos, issued, acked, torn, failed, tainted>>

-----------------------------------------------------------------------------
Startup == ReplayLine \/ ReplayRefused \/ ReplayDone \/ SeedNext

Serve(op) ==
  \/ RegisterNode(op)     \/ AddEdge(op)           \/ UpsertTrustEntry(op)
  \/ SetWitnesses(op)     \/ UpsertMasterEntry(op) \/ DeclareRevocation(op)
  \/ RegisterEvidence(op) \/ ReleaseEvidence(op)

Next ==
  \/ Open \/ Startup \/ Crash
  \/ \E op \in Requests : Serve(op)
  \/ \E b \in Batches : RegisterTrustList(b)
  \/ ListEntry \/ ListEntryRejected

Spec == Init /\ [][Next]_vars

\* A process that is running keeps running: nothing in the replay loop, the
\* seed loop or the entries loop waits.  Nobody has to start the process or
\* send a request.
FairSpec ==
  /\ Spec
  /\ WF_vars(Startup)
  /\ WF_vars(ListEntry \/ ListEntryRejected)
-----------------------------------------------------------------------------
(* Properties.                                                             *)

TypeOK ==
  /\ mode \in {"down", "replaying", "seeding", "serving", "refused"}
  /\ store \in Store
  /\ journal \in Seq(Line) /\ open \in BOOLEAN
  /\ pos \in Nat \ {0}
  /\ todo \in Seq(Op \cup {Malformed})
  /\ hist \in Seq(Store)
  /\ issued \in Nat /\ started \in Nat /\ acked \subseteq AuditRecord
  /\ torn \in Nat /\ failed \in Nat /\ tainted \in BOOLEAN

\* The history variable really is the replay of the file (record and replay
\* apply one op the same way), whatever was torn, glued or failed.
HistIsReplay ==
  /\ Len(hist) = Len(journal) + 1
  /\ hist[1] = EmptyStore
  /\ \A i \in 1..Len(journal) : hist[i + 1] = Replayed(hist[i], journal[i])

\* "The journal replays losslessly on start" (store.rs:1): as long as every
\* write of this process was whole and began on a line of its own, killing it
\* now and starting it again gives back exactly the memory it has, the log,
\* the graph, the lists, the ledger and the evidence.
RestartExact ==
  mode \in {"seeding", "serving"} /\ ~tainted => store = hist[Len(hist)]

\* The inductive strengthening of RestartExact: replay goes along hist, an
\* unterminated line is the last of the file, and seeding records seed ops.
ReplayAlongHist ==
  mode = "replaying" => pos <= Len(hist) /\ store = hist[pos]

OpenOnLine == open => journal # << >>

SeedingOps == mode = "seeding" => todo \in Seq(Op)

StoreInv ==
  TypeOK /\ HistIsReplay /\ OpenOnLine /\ SeedingOps
    /\ ReplayAlongHist /\ RestartExact

\* No record ever made was lost, torn or glued.
Intact == failed = 0 /\ \A i \in DOMAIN journal : journal[i].kind = "record"

\* On an intact journal the typed entry points never let through an op that
\* apply_op then refuses, neither live nor in any later replay: no "live
\* apply failed", no "apply failed" line (store.rs:480, 648).
NothingSkipped ==
  Intact => \A i \in DOMAIN journal : Applies(hist[i], journal[i].rec.op)

\* On an intact journal a record's seq is its place in the log, restarts
\* included (store.rs:637).
SeqIsPlace == Intact => \A i \in DOMAIN store.log : store.log[i].seq = i

\* The log ends with what a document has before its last ops, rest.
EndsWith(log, document, rest) ==
  LET done == Len(document) - Len(rest) IN
  /\ done \in 1..Len(log)
  /\ \A i \in 1..done : log[Len(log) - done + i].op = document[i]
  /\ \A i \in 1..Len(rest) : rest[i] = document[done + i]

\* A posted list is recorded under one lock in the order of its document, and up
\* to the first entry that is refused (api.rs:1502-1523): while its handler is
\* at work the log ends with the list and all entries before the next, none
\* left out and nobody else's record between them, whatever is refused or
\* killed afterwards.
PostedInOrder ==
  mode = "serving" /\ todo # << >> =>
    \E b \in Batches : EndsWith(store.log, <<b.list>> \o b.entries, todo)

\* Whatever was lost, the log never holds a record twice and never two
\* records in another order than they were made in.
LogInOrder ==
  \A i, j \in DOMAIN store.log : i < j => store.log[i].id < store.log[j].id

Durable == {journal[i].rec :
              i \in {k \in DOMAIN journal : journal[k].kind = "record"}}
Lost == acked \ Durable

\* A mid-write crash costs at most the one acknowledged record glued to the
\* torn line, a failed write at most itself and the record glued to it.
LossBounded ==
  Cardinality({rec \in Lost : rec.op \notin Unreadable}) <= torn + 2 * failed

\* The seed ops get into the log at most once each, however often seeding is
\* interrupted and the store restarted (store.rs:459).
SeedOnce ==
  LET Places(op) == {i \in DOMAIN store.log : store.log[i].op = op}
  IN  \A k \in DOMAIN Seeds :
        Cardinality(Places(Seeds[k]))
          <= Cardinality({l \in DOMAIN Seeds : Seeds[l] = Seeds[k]})

\* However many records are lost, no edge of the graph hangs in the air: its
\* endpoints are registered and its signing key is still on its parent.
EdgesAnchored ==
  \A i \in DOMAIN store.edges : EdgeAccepted(store, store.edges[i])

\* The record the step appended to the log, if it appended one.
NewOp == store'.log[Len(store'.log)].op
Appends == mode = "serving" /\ Len(store'.log) = Len(store.log) + 1

\* A retroactive revocation in the ledger was quorate when it was declared; a
\* later step can make its live verdict (GET /revocations) unquorate only by
\* registering the quorum node itself again.
VerdictStable ==
  [][Appends =>
       \A i \in DOMAIN store.ledger :
         LET r == store.ledger[i] IN
         /\ r.retroactive
         /\ Quorate(store.nodes, r.quorum)
         /\ ~Quorate(store'.nodes, r.quorum)
         => NewOp.type = "register-node" /\ NewOp.id = r.quorum.node]_vars

\* "Pinning is load-bearing": behind a retroactive revocation in the ledger is
\* a signing key that the graph has, a member's or the group's, even when the
\* journal lost the record that registered it and kept the declaration
\* (quorum-ceremony.rs:28, store.rs:589, tests/quorum.rs:331).
PinnedFirst ==
  \A i \in DOMAIN store.ledger :
    LET r == store.ledger[i] IN
    r.retroactive /\ r.quorum.threshold # 0 =>
      \E k \in Signers(r.quorum) : Resolves(store.nodes, k)

\* A root stops being accepted by the master list only when the witness set
\* is replaced ("a live de-attestation", store.rs:570) or its own entry is.
AcceptanceStable ==
  [][Appends =>
       \A n \in NodeId :
         RootAccepted(store, n) /\ ~RootAccepted(store', n)
         => \/ NewOp.type = "set-witnesses"
            \/ NewOp.type = "upsert-master-entry" /\ NewOp.node = n]_vars

\* Start-up ends and the lock is released: the process comes to serve with
\* nobody holding the store, or it is gone.
Settles ==
  (mode \in {"replaying", "seeding"} \/ todo # << >>)
    ~> (mode \in {"serving", "down", "refused"} /\ todo = << >>)

-----------------------------------------------------------------------------
(* What comments and tests of the repository say and the code does not do. *)

\* A crash in the middle of a write costs the record being written and no
\* acknowledged one: "Torn final line tolerated (crash mid-write)".
TornTolerated == failed = 0 => Lost = {}

\* Every evidence release a client was served is in the journal: "the audit
\* trail is the journal".
ReleasesAudited ==
  \A rec \in acked : rec.op.type = "evidence-released" => rec \in Durable

\* The journal is crash-tolerant: a start is never refused.
StartNeverRefused == mode # "refused"

\* m of k witnesses with m > k is structurally invalid.
WitnessSetStructure ==
  LET k == Cardinality({n \in NodeId : store.witnesses[n] # {}})
  IN  k # 0 => store.m <= k
=============================================================================
