------------------------------ MODULE MCReissue ------------------------------
(* Small instances of Reissue for TLC.                                      *)
EXTENDS Reissue

CONSTANTS x, api, bad

AllNames  == {x, api, bad}
GoodNames == {x, api}

Body(domains, challenge, key) ==
  [domains |-> domains, challenge |-> challenge,
   webroot |-> IF challenge = "webroot" THEN "absolute" ELSE "",
   saved |-> challenge = "dns", code |-> IF challenge = "dns" THEN "dns_cf" ELSE "",
   provider |-> "", keyType |-> key, ca |-> "", staging |-> FALSE]

\* With the credentials of a provider instead.
By(id, body) == [body EXCEPT !.saved = FALSE, !.code = "", !.provider = id]

Padded(d) == [d EXCEPT !.padded = TRUE]

\* One name, two names, a wildcard beside them, wildcards elsewhere; every challenge;
\* key types that are offered, left out and not offered; providers, a CA, staging;
\* requests that are refused.
SomeRequests == {
  Body(<<Host(x)>>, "webroot", "2048"),
  Body(<<Padded(Host(x)), Host(api)>>, "standalone", ""),
  Body(<<Host(x), Wild(x), Host(api)>>, "dns", "ec-384"),
  By("p2", Body(<<Host(x), Wild(x)>>, "dns", "ec-256")),
  By("p3", Body(<<Host(x)>>, "dns", "")),
  [Body(<<Host(x)>>, "standalone", "ec-256") EXCEPT !.ca = "zerossl"],
  [Body(<<Host(x)>>, "webroot", "ec-256") EXCEPT !.staging = TRUE],
  [Body(<<Host(x)>>, "standalone", "") EXCEPT !.ca = "other"],
  Body(<<Host(x)>>, "dns-manual", "ec-256"),
  Body(<<Host(x)>>, "standalone", "3072"),
  Body(<<Host(x), Wild(api)>>, "dns", "ec-256"),
  Body(<<Wild(x)>>, "dns", "ec-256"),
  Body(<<Host(x), Padded(Host(x))>>, "standalone", ""),
  Body(<<Host(bad)>>, "standalone", ""),
  Body(<<Host(x)>>, "standalone", "RSA-2048"),
  [Body(<<Host(x)>>, "webroot", "") EXCEPT !.webroot = "relative"]}

Home(abs, parts) ==
  [Default EXCEPT !.home = Path(abs, parts), !.days = 1]

\* Homes of every shape, and values that Validate accepts or refuses.
SomeFiles == {
  Home(TRUE, <<"root", ".", "opt", "..", ".acme.sh", "">>),
  Home(TRUE, <<>>), Home(FALSE, <<".">>), Home(FALSE, <<"acme">>),
  Home(TRUE, <<"root", "acme\\", "">>), Home(TRUE, <<"acme", ".\\">>), Home(FALSE, <<"\\">>),
  Home(FALSE, <<"..", "acme">>), Home(FALSE, <<"..">>), Home(FALSE, <<>>),
  [Default EXCEPT !.days = 0, !.port = 0, !.bind = "", !.auth = "", !.keyType = ""],
  [Default EXCEPT !.days = 2, !.bind = "lan"],
  [Default EXCEPT !.days = 2, !.bind = "lan", !.allow = TRUE],
  [Default EXCEPT !.days = 2, !.bind = "lan", !.auth = "reverse_proxy"],
  [Default EXCEPT !.auth = "oauth"], [Default EXCEPT !.port = 70000],
  [Default EXCEPT !.binary = Path(FALSE, <<"acme.sh">>)],
  [Default EXCEPT !.reloads = "string"]}

SomeAnswers == [bind : {"", "loopback", "lan"}, port : {0, 8443, 70000}, yes : BOOLEAN]

\* For the homes and the answers to init, one request; for the requests, the key types of
\* an operator who configured one, another or none.
OneRequest  == Body(<<Host(x)>>, "standalone", "")
KeyFiles    == {[Default EXCEPT !.keyType = key, !.days = 1] : key \in {"ec-384", "3072", ""}}

AllRequests == SomeRequests \cup {OneRequest}
AllFiles    == SomeFiles \cup KeyFiles

\* None, one, and two of one code of which the second was there first.
SomeProviders ==
  LET p1 == [id |-> "p1", code |-> "dns_cf", env |-> "account1"]
      p2 == [id |-> "p2", code |-> "dns_cf", env |-> "account2"]
      p3 == [id |-> "p3", code |-> "dns_he", env |-> ""]
  IN  {<<>>, <<p2>>, <<p3, p1, p2>>}

SomeDotted == {"..", "x..y", "..\\"}
SomeBare   == [c \in {"acme\\", ".\\", "\\"} |->
                 CASE c = "acme\\" -> "acme" [] c = ".\\" -> "." [] OTHER -> ""]

SomeDirs == {"x", "x..y"}

\* The way round of every request under the configurations for it, while the certificate
\* is new; the whole life of a certificate for the one request under every configuration.
Scope ==
  \/ file \in KeyFiles /\ ~fromInit /\ now <= 1
  \/ /\ providers = <<>>
     /\ asked # None => asked = Issue(SpecOf(OneRequest, [code |-> "", env |-> ""]), cfg.keyType)
=============================================================================
