--------------------------- MODULE StoreRefinement ---------------------------
(***************************************************************************)
(* TrustStore implements AuditedStore when no write is cut short or fails  *)
(* and every line reads back: MaxTorn = MaxFailed = 0, Unreadable = {}.    *)
(* The process may still be killed between any two steps, and between a    *)
(* whole write and its answer.                                             *)
(***************************************************************************)
EXTENDS TrustStore

CONSTANT Offline

AskedOps ==
  Requests \cup Elements(Seeds)
    \cup UNION {{b.list} \cup (Elements(b.entries) \ {Malformed}) :
                 b \in Batches}

\* A Store without its log.
Content(s) == [s EXCEPT !.log = << >>]

\* The history is in the file, the state is what a restart would make of it,
\* and what is served is the memory of a process that serves.
Audited == INSTANCE AuditedStore WITH
  Ops     <- AskedOps,
  history <- [i \in DOMAIN journal |-> journal[i].rec.op],
  state   <- Content(hist[Len(hist)]),
  serving <- IF mode = "serving" THEN Content(store) ELSE Offline

\* "The journal replays losslessly on start; mutations are validated before
\* being recorded and applied" (store.rs:1-3): every step of the store is an
\* admissible op committed once to file and memory, a start that brings back
\* exactly the committed state, a death, or nothing a client can see.
ImplementsAuditedStore == Audited!ASpec
=============================================================================
