---------------------------- MODULE DNSProviders ----------------------------
(***************************************************************************)
(* The store of DNS providers: create, update, delete, import and use over *)
(* bbolt, with secrets encrypted under the key of the running server, and  *)
(* the page's form.  Every bbolt call is a transaction of its own: an      *)
(* update reads a record in one and writes it in another.                  *)
(*                                                                         *)
(* The name, code and description of a provider, which every update        *)
(* replaces, are left out.                                                 *)
(***************************************************************************)
EXTENDS ServerStart

CONSTANTS Providers,    \* ids that can be drawn
          Requests,     \* HTTP handlers that run side by side
          Vars,         \* environment variables
          SecretNamed,  \* those whose name says secret (IsSecretEnvName)
          Vals,         \* their values
          Forms,        \* what clients of the API submit
          Typed,        \* what operators type on the page: a variable and a value
          Saved         \* what account.conf has for a known provider

\* An Input: source, value per variable or "omitted", SecretNames.
Form == [source  : {"managed", "acme_saved"},
         env     : [Vars -> Vals \cup {"", "omitted"}],
         secrets : SUBSET Vars]

ASSUME ProvidersAssumption ==
  /\ "none" \notin Providers
  /\ {"", "omitted"} \cap Vals = {}
  /\ SecretNamed \subseteq Vars
  /\ Forms \subseteq Form
  /\ Typed \subseteq Vars \X (Vals \cup {""})
  /\ Saved \in Form

VARIABLES
  db,      \* the bucket
  born,    \* ids that have been drawn
  update,  \* what each update has computed and not written yet
  want,    \* history: the values the requests asked for, one after the other
  kept,    \* history: the secrets that the last edit left blank
  revived  \* history: providers written by an update that a deletion overlapped

history == <<want, kept, revived>>
vars    == <<start, db, born, update, history>>

\* EnvVar: an entry is encrypted if secret, unless it is empty.
Entry   == [secret : BOOLEAN, value : Vals \cup {""}, key : Key \cup {NoKey}]
NoEntry == [secret |-> FALSE, value |-> "omitted", key |-> NoKey]
Env     == [Vars -> Entry \cup {NoEntry}]
NoEnv   == [v \in Vars |-> NoEntry]
Record  == [source : {"managed", "acme_saved"}, env : Env]
Absent  == [source |-> "absent", env |-> NoEnv]
Plain   == [Vars -> Vals \cup {"", "omitted"}]
Nothing == [v \in Vars |-> "omitted"]

\* An update between its read and its write: the record it has computed, and for
\* the properties what it was asked for, the secrets its form left blank, and
\* whether the provider is still the one it read.
Update == [id : Providers, record : Record, asked : Plain, blank : SUBSET Vars,
           alone : BOOLEAN]
Idle   == [id |-> "none"]

Init ==
  /\ StartInit
  /\ db = [p \in Providers |-> Absent]
  /\ born = {}
  /\ update = [r \in Requests |-> Idle]
  /\ want = [p \in Providers |-> Nothing]
  /\ kept = {}
  /\ revived = {}

-----------------------------------------------------------------------------
(* Entries.                                                                *)

Values(env) == [v \in Vars |-> env[v].value]

\* Mutant: the name is not looked at.
SecretIfListed(form, v) == v \in form.secrets

IsSecret(form, v) == v \in form.secrets \/ v \in SecretNamed

\* Mutant: an empty value is encrypted too.
KeyForAll(val, secret) == IF secret THEN key[lock] ELSE NoKey

\* Encrypt leaves an empty value as it is.
KeyFor(val, secret) == IF secret /\ val # "" THEN key[lock] ELSE NoKey

EncodeEnv(form, v) ==
  [secret |-> IsSecret(form, v),
   value  |-> form.env[v],
   key    |-> KeyFor(form.env[v], IsSecret(form, v))]

\* applyEnv
NewEnv(form) ==
  [v \in Vars |-> IF form.source = "acme_saved" \/ form.env[v] = "omitted" THEN NoEntry
                  ELSE EncodeEnv(form, v)]

\* Mutant: an empty secret is stored like any other value.
EditedByForm(old, form) == NewEnv(form)

\* Update: an empty secret keeps its entry.
Edited(old, form) ==
  [v \in Vars |-> IF /\ form.source = "managed" /\ form.env[v] = ""
                     /\ IsSecret(form, v) /\ old[v] # NoEntry
                  THEN old[v] ELSE NewEnv(form)[v]]

-----------------------------------------------------------------------------
(* The store.                                                              *)

Serving == lock # Nobody

\* A write to a provider, of what was asked for it: an update of it that is under
\* way has not read it.
Put(id, record, asked) ==
  /\ db' = [db EXCEPT ![id] = record]
  /\ want' = [want EXCEPT ![id] = asked]

Overtaken(id) == [r \in Requests |->
  IF update[r].id = id THEN [update[r] EXCEPT !.alone = FALSE] ELSE update[r]]

Create(id, form) ==
  /\ Serving
  /\ id \notin born
  /\ born' = born \cup {id}
  /\ Put(id, [source |-> form.source, env |-> NewEnv(form)], Values(NewEnv(form)))
  /\ kept' = {}
  /\ UNCHANGED <<start, update, revived>>

\* ImportFromAccountConf: what acme.sh saved becomes a provider of its own.
Import(id) == Saved.env # Nothing /\ Create(id, Saved)

\* Mutant: a provider that is not there is made up.
FoundAny(id) == Serving /\ id \in born

Found(id) == Serving /\ db[id] # Absent

\* What a request asks for: a secret left empty keeps the value it had.
Asked(w, form) ==
  [v \in Vars |->
    IF form.source = "acme_saved" THEN "omitted"
    ELSE IF form.env[v] = "" /\ IsSecret(form, v) /\ w[v] # "omitted" THEN w[v]
    ELSE form.env[v]]

\* Update, up to its write: read the record and compute the new one.
UpdateRead(r, id, form, blank) ==
  /\ Found(id)
  /\ update[r] = Idle
  /\ update' = [update EXCEPT ![r] =
       [id |-> id, asked |-> Asked(want[id], form), blank |-> blank, alone |-> TRUE,
        record |-> [source |-> form.source, env |-> Edited(db[id].env, form)]]]
  /\ UNCHANGED <<start, db, born, history>>

\* Its write.
UpdateWrite(r) ==
  LET u == update[r] IN
  /\ u # Idle
  /\ Put(u.id, u.record, IF u.alone THEN u.asked ELSE Values(u.record.env))
  /\ update' = [Overtaken(u.id) EXCEPT ![r] = Idle]
  /\ kept' = IF u.alone THEN {u.id} \X u.blank ELSE {}
  /\ revived' = IF u.alone THEN revived ELSE revived \cup {u.id}
  /\ UNCHANGED <<start, born>>

Delete(id) ==
  /\ Serving
  /\ Put(id, Absent, Nothing)
  /\ update' = Overtaken(id)
  /\ kept' = {}
  /\ revived' = revived \ {id}
  /\ UNCHANGED <<start, born>>

\* DecryptedEnv would return the provider's variables.
Usable(id) ==
  \A v \in Vars : db[id].env[v].key \in {NoKey, key[lock]}

-----------------------------------------------------------------------------
(* Clients.                                                                *)

\* Of the API: any input, in which an empty secret means the stored one.
Submit(r, id, form) ==
  UpdateRead(r, id, form,
    {v \in Vars : form.env[v] = "" /\ IsSecret(form, v) /\ db[id].env[v].value \in Vals})

\* The page's rows: the stored entries, secrets masked, and one that the operator
\* types val into or adds.
Shown(env, v, val) ==
  [u \in Vars |-> IF u = v THEN val ELSE IF env[u].secret THEN "" ELSE env[u].value]

Ticked(env) == {u \in Vars : env[u].secret \/ env[u] = NoEntry}

\* dnsEdit: secret rows without a value are not sent.
PageForm(env, v, val) ==
  [source  |-> "managed",
   env     |-> [u \in Vars |-> IF u \in Ticked(env) /\ Shown(env, v, val)[u] = ""
                               THEN "omitted" ELSE Shown(env, v, val)[u]],
   secrets |-> {u \in Ticked(env) : Shown(env, v, val)[u] # "omitted"}]

\* The page offers no edit of a provider whose credentials acme.sh keeps.
PageEdit(r, id, v, val) ==
  LET env == db[id].env IN
  /\ db[id].source = "managed"
  /\ UpdateRead(r, id, PageForm(env, v, val),
       {u \in Ticked(env) : Shown(env, v, val)[u] = "" /\ env[u].value \in Vals})

-----------------------------------------------------------------------------
\* The end of the server takes the requests with it.
Stop(s) ==
  /\ Die(s)
  /\ update' = IF lock = s THEN [r \in Requests |-> Idle] ELSE update
  /\ UNCHANGED <<db, born, history>>

StartStep(s) == Starting(s) /\ UNCHANGED <<db, born, update, history>>

Next ==
  \/ \E s \in Servers : StartStep(s) \/ Stop(s)
  \/ \E id \in Providers :
       \/ Import(id) \/ Delete(id)
       \/ \E form \in Forms : Create(id, form) \/ \E r \in Requests : Submit(r, id, form)
       \/ \E r \in Requests, t \in Typed : PageEdit(r, id, t[1], t[2])
  \/ \E r \in Requests : UpdateWrite(r)

Spec == Init /\ [][Next]_vars

-----------------------------------------------------------------------------
TypeOK ==
  /\ StartTypeOK
  /\ db \in [Providers -> Record \cup {Absent}]
  /\ \A id \in Providers, v \in Vars : LET e == db[id].env[v] IN
       e.key # NoKey <=> e.secret /\ e.value # ""
  /\ born \subseteq Providers
  /\ update \in [Requests -> Update \cup {Idle}]
  /\ want \in [Providers -> Plain]
  /\ kept \subseteq Providers \X Vars
  /\ revived \subseteq Providers

\* Whatever was encrypted can be decrypted by the server that runs and by any that
\* starts later, wherever a process died while the key was created - unless two
\* first starts overlapped and the second replaced the key of the first
\* (encrypt.go:33-58, server.go:36-46).
SecretsReadable ==
  ~raced => \A id \in Providers, v \in Vars :
    /\ db[id].env[v].key \in {NoKey, keyFile}
    /\ Serving => Usable(id)

\* A variable whose name says secret is never stored, and so never shown, in the
\* clear, by whatever sequence of creations, imports, edits and switches of the
\* source it got there (store.go:67-74, 134-177).
NoSecretInClear ==
  \A id \in Providers, v \in SecretNamed :
    db[id].env[v] # NoEntry => db[id].env[v].secret

\* A provider has the values that the requests asked for, one after the other; an
\* update that another write overlapped between its read and its write is the one
\* exception, and later updates build on what it left (store.go:103-154).
AsAsked ==
  \A id \in Providers : Values(db[id].env) = want[id]

\* A deleted provider comes back only by an update that had read it before it was
\* deleted (store.go:104, 150).
DeletedStaysDeleted ==
  [][\A id \in Providers :
       id \in born /\ db[id] = Absent /\ db'[id] # Absent =>
         \E r \in Requests : update[r].id = id /\ ~update[r].alone]_vars

-----------------------------------------------------------------------------
\* docs/troubleshooting.md:39-40: "Leaving a secret field empty when editing keeps
\* the previous value."  The page does not send the fields left empty, and the store
\* drops what is not sent.
BlankSecretKept ==
  \A x \in kept : db[x[1]].env[x[2]].value \in Vals
=============================================================================
