-------------------------- MODULE MCRevocationView --------------------------
(***************************************************************************)
(* Small ledgers and queries for RevocationView.                           *)
(***************************************************************************)
EXTENDS RevocationView

MCInstant == 0..3

\* Bounded, one-instant and open-ended windows.
MCWindows == {[from |-> 1, to |-> 2], [from |-> 0, to |-> 0],
              [from |-> 1, to |-> None]}
\* Declared for instant 1: ahead, truly or back, by when it is recorded.
MCDeclarations ==
  [subject: {"key:a"}, retroactive: BOOLEAN, declared: {1}, window: MCWindows]
    \cup {[subject |-> "key:ab", retroactive |-> FALSE, declared |-> 2,
           window |-> [from |-> 1, to |-> None]]}

Ask(at, known, subjects, retroactive, window) ==
  [at |-> at, known |-> known, subjects |-> subjects,
   retroactive |-> retroactive, window |-> window]
All == {"key:a", "key:ab"}

\* The filters, each alone and with an instant.
FilterQueries ==
  {Ask(None, None, All, BOOLEAN, w) :
     w \in {[start |-> 0, end |-> 3], [start |-> 2, end |-> 3],
            [start |-> 0, end |-> 0], [start |-> 3, end |-> None],
            [start |-> 3, end |-> 1]}}
  \cup {Ask(2, None, {"key:ab"}, BOOLEAN, None),
        Ask(2, None, All, {TRUE}, None), Ask(2, None, All, BOOLEAN, None)}

\* One instant, now and as known by then.
CutoffQueries == {Ask(1, k, All, BOOLEAN, None) : k \in MCInstant \cup {None}}

MCQueries == FilterQueries \cup CutoffQueries
=============================================================================
