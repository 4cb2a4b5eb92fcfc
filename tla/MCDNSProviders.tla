---------------------------- MODULE MCDNSProviders ----------------------------
(* Small instances of DNSProviders for TLC.                                 *)
EXTENDS DNSProviders, TLC

CONSTANTS s1, s2, p1, r1, r2, tok, acc, v1, v2

TwoServers == {s1, s2}
OneServer  == {s1}
OneId      == {p1}
TwoHandlers == {r1, r2}
OneHandler == {r1}

\* A token, which is secret by its name, and an account.
TwoVars   == {tok, acc}
TwoVals   == {v1, v2}
SecretVar == {tok}

Submitted(source, t, a, secrets) ==
  [source |-> source, env |-> (tok :> t @@ acc :> a), secrets |-> secrets]

\* Both given; the masked form; the account marked secret, the token dropped;
\* credentials left to acme.sh.
SomeForms == {
  Submitted("managed", v1, v1, {}),
  Submitted("managed", "", v1, {tok}),
  Submitted("managed", "omitted", "", {acc}),
  Submitted("acme_saved", v1, "omitted", {})}

\* Another token, an account, nothing.
SomeTyped == {<<tok, v2>>, <<acc, v1>>, <<tok, "">>}

AccountConf == Submitted("managed", v2, v1, {tok})

Interchangeable == Permutations(TwoServers) \cup Permutations(TwoHandlers)
=============================================================================
