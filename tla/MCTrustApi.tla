----------------------------- MODULE MCTrustApi -----------------------------
\* TrustApi over the fixtures of src/seed.rs.  On top of them: the root
\* registered again without its key, a witness rotated, and the entry
\* superseded under a lower-case spelling.  A jurisdiction is asked for in
\* either case, padded, blank, and where there is none.
EXTENDS TrustApi

MCUpper ==
  [s \in Spelling |-> CASE s \in {"eu", "EU"} -> "EU"
                        [] s = " eu " -> " EU "
                        [] s = "jp"   -> "JP"
                        [] OTHER      -> s]
MCTrim ==
  [s \in Spelling \cup Framework |-> CASE s = " eu " -> "eu"
                                      [] s = "  "   -> ""
                                      [] OTHER      -> s]
MCDates == {FromT0, [from |-> 0, until |-> 1]}
MCSubject == {Issuer("T0+3000..T0+8000"), Issuer("T0+9500..")}

MCRequests ==
  {[type |-> "register-node", id |-> "eu-root", kind |-> Plain, keys |-> {}],
   [type |-> "set-witnesses", m |-> 2,
    witnesses |-> << <<"witness-1", "witness-1">>,
                     <<"witness-2", "witness-3">> >>],
   [type |-> "upsert-trust-entry", name |-> "eu", node |-> "eu-root",
    dates |-> [from |-> 0, until |-> 1]]}

\* Both operator seeds; one of them missing; one rejected.
MCEnvs ==
  {Env(<<"e">>, <<"p">>, ""), Env(<<"e">>, Unset, ""), Env(<<"bad">>, <<"p">>, "")}
MCGoodSeeds == {<<"e">>, <<"p">>}

NoBatches == {}
=============================================================================
