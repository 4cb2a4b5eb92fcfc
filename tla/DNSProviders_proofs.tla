------------------------- MODULE DNSProviders_proofs -------------------------
(***************************************************************************)
(* Proofs about DNSProviders, for any number of providers, requests,       *)
(* variables, values, forms and processes: nothing whose name says secret  *)
(* is stored in the clear, a provider holds what was asked for it, a       *)
(* deleted provider stays deleted unless an update had read it, and what   *)
(* is encrypted can be decrypted unless two first starts raced.            *)
(*                                                                         *)
(* The first three follow a record from the read of an update to its       *)
(* write: what holds of a stored record holds of one that was computed     *)
(* from it.  The last one follows the key: without a race one process at a *)
(* time creates it, before any process has come up and any secret has been *)
(* stored, and every later process works with what the file holds.         *)
(***************************************************************************)
EXTENDS DNSProviders, TLAPS

\* A record as the store encodes it.
Encoded(env) ==
  /\ env \in Env
  /\ \A v \in Vars : /\ env[v].key # NoKey <=> env[v].secret /\ env[v].value # ""
                     /\ v \in SecretNamed /\ env[v] # NoEntry => env[v].secret

WithKeys(env, known) == \A v \in Vars : env[v].key \in known

\* The keys a secret can have been encrypted under: none as long as the key is being
\* created.
Known == IF \E s \in Servers : up[s] = "write" THEN {NoKey} ELSE {NoKey, keyFile}

\* The processes: who has come up works with the key in the file, and nobody has
\* while the key is being created.
StartInv ==
  /\ StartTypeOK
  /\ \A s \in Servers : /\ up[s] \in {"write", "open", "up"} => key[s] \in Key
                        /\ up[s] = "write" => keyFile # NoKey
                        /\ lock = s => up[s] = "up"
                        /\ up[s] \in {"open", "up"} /\ ~raced => key[s] = keyFile
  /\ \A s, t \in Servers : up[s] = "write" /\ s # t /\ ~raced => up[t] \in {"down", "create"}

\* The stored records.
StoredInv(id) ==
  /\ db[id] \in Record \cup {Absent}
  /\ Encoded(db[id].env)
  /\ want[id] = Values(db[id].env)
  /\ ~raced => WithKeys(db[id].env, Known)

\* The updates between their read and their write.
UpdateInv(r) ==
  update[r] # Idle =>
    /\ update[r] \in Update
    /\ Encoded(update[r].record.env)
    /\ update[r].asked = Values(update[r].record.env)
    /\ update[r].alone => db[update[r].id] # Absent
    /\ ~raced => WithKeys(update[r].record.env, Known)

DInv ==
  /\ TypeOK
  /\ StartInv
  /\ \A id \in Providers : StoredInv(id)
  /\ \A r \in Requests : UpdateInv(r)

-----------------------------------------------------------------------------
(* The start of the processes.                                              *)

LEMMA NoKeyIsNoKey == NoKey \notin Key
BY DEF NoKey, Key

LEMMA InitStartInv == StartInit => StartInv
<1> SUFFICES ASSUME StartInit PROVE StartInv
  OBVIOUS
<1>1. StartTypeOK
  <2>1. key \in [Servers -> Key \cup {NoKey}]
    BY DEF StartInit
  <2>2. keys \in 0..MaxKeys
    BY StartAssumption DEF StartInit
  <2>3. up \in [Servers -> {"down", "create", "write", "open", "up"}]
    BY DEF StartInit
  <2> QED
    BY <2>1, <2>2, <2>3 DEF StartInit, StartTypeOK
<1> QED
  BY <1>1, StartAssumption DEF StartInit, StartInv, Nobody

\* A step of a process keeps what is known of the key, and every secret that was
\* encrypted stays readable.
LEMMA StartStepInv ==
  ASSUME StartInv, NEW s \in Servers, Starting(s) \/ Die(s)
  PROVE  /\ StartInv'
         /\ ~raced' => ~raced /\ Known \subseteq Known'
<1>0. /\ StartTypeOK
      /\ keyFile \in Key \cup {NoKey} /\ keys \in 0..MaxKeys /\ MaxKeys \in Nat
      /\ up \in [Servers -> {"down", "create", "write", "open", "up"}]
      /\ key \in [Servers -> Key \cup {NoKey}]
      /\ lock \in Servers \cup {Nobody} /\ Nobody \notin Servers
      /\ raced \in BOOLEAN
  BY StartAssumption DEF StartInv, StartTypeOK, Nobody
<1>1. CASE ReadKey(s)
  <2>1. StartTypeOK'
    BY <1>0, <1>1 DEF ReadKey, StartTypeOK
  <2>2. /\ UNCHANGED <<keyFile, lock>>
        /\ ~raced' => ~raced /\ \A t \in Servers : up[t] # "write"
        /\ up[s] = "down" /\ up'[s] \in {"down", "create", "open"}
        /\ up'[s] = "open" => key'[s] = keyFile /\ keyFile # NoKey
        /\ \A t \in Servers \ {s} : UNCHANGED <<up[t], key[t]>>
    <3>1. NoKey.written = "short"
      BY DEF NoKey
    <3>2. ~raced' => ~raced /\ \A t \in Servers : up[t] # "write"
      BY <1>1 DEF ReadKey
    <3> QED
      BY <1>0, <1>1, <3>1, <3>2 DEF ReadKey
  <2>3. StartInv'
    <3>1. ASSUME NEW t \in Servers
          PROVE  /\ up'[t] \in {"write", "open", "up"} => key'[t] \in Key
                 /\ up'[t] = "write" => keyFile' # NoKey
                 /\ lock' = t => up'[t] = "up"
                 /\ up'[t] \in {"open", "up"} /\ ~raced' => key'[t] = keyFile'
      <4>1. CASE t = s
        BY <4>1, <1>0, <2>2 DEF StartInv
      <4>2. CASE t # s
        BY <4>2, <2>2 DEF StartInv
      <4> QED
        BY <4>1, <4>2
    <3>2. ~raced' => \A t \in Servers : up'[t] # "write"
      BY <2>2
    <3> QED
      BY <2>1, <3>1, <3>2 DEF StartInv
  <2>4. ~raced' => Known \subseteq Known'
    BY <2>2 DEF Known
  <2> QED
    BY <2>2, <2>3, <2>4
<1>2. CASE CreateKey(s)
  <2>1. /\ key' = [key EXCEPT ![s] = [number |-> keys + 1, written |-> "full"]]
        /\ [number |-> keys + 1, written |-> "full"] \in Key
        /\ keyFile' \in Key
        /\ keys' \in 0..MaxKeys
    BY <1>0, <1>2 DEF CreateKey, Key
  <2>2. StartTypeOK'
    BY <1>0, <1>2, <2>1 DEF CreateKey, StartTypeOK
  <2>3. /\ UNCHANGED lock
        /\ ~raced' => ~raced /\ keyFile = NoKey
        /\ up[s] = "create" /\ up'[s] = "write" /\ key'[s] \in Key
        /\ \A t \in Servers \ {s} : UNCHANGED <<up[t], key[t]>>
    BY <1>0, <1>2, <2>1 DEF CreateKey
  <2>4. ~raced' => \A t \in Servers : up[t] \in {"down", "create"}
    <3> SUFFICES ASSUME ~raced', NEW t \in Servers, up[t] \in {"write", "open", "up"}
                 PROVE FALSE
      BY <1>0
    <3>1. key[t] \in Key
      BY DEF StartInv
    <3> QED
      BY <2>3, <3>1, NoKeyIsNoKey DEF StartInv
  <2>5. StartInv'
    <3>1. keyFile' # NoKey
      BY <2>1, NoKeyIsNoKey
    <3>2. \A t \in Servers : /\ up'[t] \in {"write", "open", "up"} => key'[t] \in Key
                             /\ lock' = t => up'[t] = "up"
      BY <1>0, <2>3 DEF StartInv
    <3>3. ~raced' => /\ up'[s] = "write"
                     /\ \A t \in Servers \ {s} : up'[t] \in {"down", "create"}
      BY <2>3, <2>4
    <3> QED
      BY <2>2, <3>1, <3>2, <3>3 DEF StartInv
  <2>6. ~raced' => Known' = {NoKey} /\ Known = {NoKey}
    BY <2>3, <2>4 DEF Known
  <2> QED
    BY <2>3, <2>5, <2>6
<1>3. CASE WriteKey(s)
  <2>1. /\ up[s] = "write" /\ up'[s] \in {"write", "open"}
        /\ up'[s] = "open" => keyFile' = key[s]
        /\ keyFile' \in Key
        /\ UNCHANGED <<keys, key, lock, raced>>
        /\ \A t \in Servers \ {s} : up'[t] = up[t]
    <3>1. key[s] \in Key
      BY <1>3 DEF StartInv, WriteKey
    <3>2. [key[s] EXCEPT !.written = "part"] \in Key
      BY <3>1 DEF Key
    <3> QED
      BY <1>0, <1>3, <3>1, <3>2 DEF WriteKey
  <2>2. StartTypeOK'
    BY <1>0, <1>3, <2>1 DEF WriteKey, StartTypeOK
  <2>3. ~raced => \A t \in Servers \ {s} : up[t] \in {"down", "create"}
    BY <2>1 DEF StartInv
  <2>4. StartInv'
    <3>1. keyFile' # NoKey
      BY <2>1, NoKeyIsNoKey
    <3>2. \A t \in Servers : /\ up'[t] \in {"write", "open", "up"} => key'[t] \in Key
                             /\ lock' = t => up'[t] = "up"
      BY <2>1 DEF StartInv
    <3> QED
      BY <2>1, <2>2, <2>3, <3>1, <3>2 DEF StartInv
  <2>5. Known \subseteq Known'
    BY <2>1 DEF Known
  <2> QED
    BY <2>1, <2>4, <2>5
<1>4. CASE OpenStore(s) \/ Die(s)
  <2>1. /\ UNCHANGED <<keyFile, keys, raced>>
        /\ \/ up[s] = "open" /\ up'[s] = "up" /\ key' = key /\ lock' = s
           \/ /\ up'[s] = "down" /\ lock' \in {lock, Nobody} /\ lock' # s
              /\ \A t \in Servers \ {s} : key'[t] = key[t]
        /\ \A t \in Servers \ {s} : up'[t] = up[t]
    BY <1>0, <1>4 DEF OpenStore, Die, StartInv
  <2>2. StartTypeOK'
    BY <1>0, <1>4 DEF OpenStore, Die, StartTypeOK
  <2>3. StartInv'
    BY <1>0, <2>1, <2>2 DEF StartInv
  <2>4. Known \subseteq Known'
    BY <2>1 DEF Known
  <2> QED
    BY <2>1, <2>3, <2>4
<1> QED
  BY <1>1, <1>2, <1>3, <1>4 DEF Starting

\* The process that serves has a key, and without a race the one in the file.
LEMMA ServingKey ==
  ASSUME StartInv, Serving
  PROVE  /\ key[lock] \in Key
         /\ ~raced => key[lock] \in Known
<1>1. lock \in Servers /\ up[lock] = "up"
  BY DEF StartInv, StartTypeOK, Serving
<1>2. key[lock] \in Key /\ (~raced => key[lock] = keyFile)
  BY <1>1 DEF StartInv
<1>3. ~raced => \A s \in Servers : up[s] # "write"
  BY <1>1 DEF StartInv
<1> QED
  BY <1>2, <1>3 DEF Known

-----------------------------------------------------------------------------
(* Records.                                                                 *)

LEMMA NoEnvEncoded ==
  /\ Encoded(NoEnv)
  /\ Absent.env = NoEnv
  /\ Values(NoEnv) = Nothing
  /\ WithKeys(NoEnv, {NoKey})
<1>1. NoEntry.key = NoKey /\ NoEntry.secret = FALSE /\ NoEntry.value = "omitted"
  BY DEF NoEntry
<1>2. Encoded(NoEnv)
  BY <1>1 DEF Encoded, NoEnv, Env
<1>3. Values(NoEnv) = Nothing
  BY <1>1 DEF Values, NoEnv, Nothing
<1>4. WithKeys(NoEnv, {NoKey})
  BY <1>1 DEF WithKeys, NoEnv
<1> QED
  BY <1>2, <1>3, <1>4 DEF Absent

\* A value of a form is encoded under the key of the process that serves.
LEMMA EntryEncoded ==
  ASSUME NEW form \in Form, NEW v \in Vars, form.env[v] # "omitted",
         key[lock] \in Key
  PROVE  LET e == EncodeEnv(form, v) IN
         /\ e \in Entry
         /\ e.key # NoKey <=> e.secret /\ e.value # ""
         /\ v \in SecretNamed => e.secret
         /\ e.value = form.env[v]
         /\ e.key \in {NoKey, key[lock]}
<1> DEFINE e == EncodeEnv(form, v)
<1>1. /\ e.secret = IsSecret(form, v) /\ e.value = form.env[v]
      /\ e.key = KeyFor(form.env[v], IsSecret(form, v))
      /\ e = [secret |-> e.secret, value |-> e.value, key |-> e.key]
  BY DEF EncodeEnv
<1>2. form.env[v] \in Vals \cup {""} /\ IsSecret(form, v) \in BOOLEAN
  BY DEF Form, IsSecret
<1>3. /\ e.key \in {NoKey, key[lock]}
      /\ e.key # NoKey <=> IsSecret(form, v) /\ form.env[v] # ""
  BY <1>1, NoKeyIsNoKey DEF KeyFor
<1>4. e \in Entry
  BY <1>1, <1>2, <1>3 DEF Entry
<1>5. v \in SecretNamed => e.secret
  BY <1>1 DEF IsSecret
<1> QED
  BY <1>1, <1>2, <1>3, <1>4, <1>5

\* What applyEnv makes of a form.
LEMMA NewEnvEncoded ==
  ASSUME NEW form \in Form, key[lock] \in Key
  PROVE  /\ Encoded(NewEnv(form))
         /\ WithKeys(NewEnv(form), {NoKey, key[lock]})
         /\ \A v \in Vars : NewEnv(form)[v].value =
              IF form.source = "acme_saved" THEN "omitted" ELSE form.env[v]
<1>0. NoEntry.key = NoKey /\ NoEntry.secret = FALSE /\ NoEntry.value = "omitted"
  BY DEF NoEntry
<1>1. ASSUME NEW v \in Vars
      PROVE  LET e == NewEnv(form)[v] IN
             /\ e \in Entry \cup {NoEntry}
             /\ e.key # NoKey <=> e.secret /\ e.value # ""
             /\ v \in SecretNamed /\ e # NoEntry => e.secret
             /\ e.value = IF form.source = "acme_saved" THEN "omitted" ELSE form.env[v]
             /\ e.key \in {NoKey, key[lock]}
  <2>1. CASE form.source = "acme_saved" \/ form.env[v] = "omitted"
    BY <2>1, <1>0 DEF NewEnv
  <2>2. CASE form.source # "acme_saved" /\ form.env[v] # "omitted"
    <3>1. NewEnv(form)[v] = EncodeEnv(form, v)
      BY <2>2 DEF NewEnv
    <3>2. LET e == EncodeEnv(form, v) IN
          /\ e \in Entry
          /\ e.key # NoKey <=> e.secret /\ e.value # ""
          /\ v \in SecretNamed => e.secret
          /\ e.value = form.env[v]
          /\ e.key \in {NoKey, key[lock]}
      BY <2>2, EntryEncoded
    <3> QED
      BY <2>2, <3>1, <3>2
  <2> QED
    BY <2>1, <2>2
<1>2. NewEnv(form) \in Env
  BY <1>1 DEF NewEnv, Env
<1> QED
  BY <1>1, <1>2 DEF Encoded, WithKeys

\* What an update makes of the record it read.
LEMMA EditedEncoded ==
  ASSUME NEW form \in Form, NEW old, Encoded(old), key[lock] \in Key
  PROVE  /\ Encoded(Edited(old, form))
         /\ \A K : WithKeys(old, K) /\ {NoKey, key[lock]} \subseteq K =>
              WithKeys(Edited(old, form), K)
         /\ Values(Edited(old, form)) = Asked(Values(old), form)
<1>0. NoEntry.value = "omitted" /\ "omitted" # "" /\ "omitted" \notin Vals
  BY ProvidersAssumption DEF NoEntry
<1>1. /\ Encoded(NewEnv(form))
      /\ WithKeys(NewEnv(form), {NoKey, key[lock]})
      /\ \A v \in Vars : NewEnv(form)[v].value =
           IF form.source = "acme_saved" THEN "omitted" ELSE form.env[v]
  BY NewEnvEncoded
<1>2. ASSUME NEW v \in Vars PROVE Edited(old, form)[v] \in {old[v], NewEnv(form)[v]}
  BY DEF Edited
<1>3. Edited(old, form) \in Env
  BY <1>1, <1>2 DEF Encoded, Env, Edited
<1>4. Encoded(Edited(old, form))
  BY <1>1, <1>2, <1>3 DEF Encoded
<1>5. ASSUME NEW K, WithKeys(old, K), {NoKey, key[lock]} \subseteq K
      PROVE  WithKeys(Edited(old, form), K)
  BY <1>1, <1>2, <1>5 DEF WithKeys
<1>6. ASSUME NEW v \in Vars PROVE Edited(old, form)[v].value = Asked(Values(old), form)[v]
  <2>1. old[v] # NoEntry <=> old[v].value # "omitted"
    BY <1>0 DEF Encoded, Env, Entry
  <2>2. Values(old)[v] = old[v].value
    BY DEF Values
  <2>3. form.source \in {"managed", "acme_saved"}
    BY DEF Form
  <2> QED
    BY <1>1, <2>1, <2>2, <2>3 DEF Edited, Asked
<1>7. Values(Edited(old, form)) = Asked(Values(old), form)
  BY <1>6 DEF Values, Asked
<1> QED
  BY <1>4, <1>5, <1>7

\* The page sends a form like any other.
LEMMA PageFormIsForm ==
  ASSUME NEW env, Encoded(env), NEW v \in Vars, NEW val \in Vals \cup {""}
  PROVE  PageForm(env, v, val) \in Form
<1> DEFINE vals == PageForm(env, v, val).env
           secret == PageForm(env, v, val).secrets
<1>1. ASSUME NEW u \in Vars PROVE Shown(env, v, val)[u] \in Vals \cup {"", "omitted"}
  <2>1. env[u].value \in Vals \cup {"", "omitted"}
    <3>1. env[u] \in Entry \cup {NoEntry}
      BY DEF Encoded, Env
    <3>2. NoEntry.value = "omitted"
      BY DEF NoEntry
    <3>3. \A e \in Entry : e.value \in Vals \cup {""}
      BY DEF Entry
    <3> QED
      BY <3>1, <3>2, <3>3
  <2> QED
    BY <2>1 DEF Shown
<1>2. vals \in [Vars -> Vals \cup {"", "omitted"}]
  BY <1>1 DEF PageForm
<1>3. secret \in SUBSET Vars
  BY DEF PageForm, Ticked
<1>4. PageForm(env, v, val) = [source |-> "managed", env |-> vals, secrets |-> secret]
  BY DEF PageForm
<1> HIDE DEF vals, secret
<1>5. [source |-> "managed", env |-> vals, secrets |-> secret] \in Form
  BY <1>2, <1>3 DEF Form
<1> QED
  BY <1>4, <1>5

LEMMA ValuesArePlain ==
  ASSUME NEW env, Encoded(env)
  PROVE  Values(env) \in Plain
<1>1. ASSUME NEW v \in Vars PROVE env[v].value \in Vals \cup {"", "omitted"}
  <2>1. env[v] \in Entry \cup {NoEntry}
    BY DEF Encoded, Env
  <2>2. NoEntry.value = "omitted"
    BY DEF NoEntry
  <2>3. \A e \in Entry : e.value \in Vals \cup {""}
    BY DEF Entry
  <2> QED
    BY <2>1, <2>2, <2>3
<1> QED
  BY <1>1 DEF Values, Plain

-----------------------------------------------------------------------------
(* The steps of the store.                                                  *)

LEMMA InitDInv == Init => DInv
<1> SUFFICES ASSUME Init PROVE DInv
  OBVIOUS
<1>1. StartInv
  BY InitStartInv DEF Init
<1>2. ASSUME NEW id \in Providers PROVE StoredInv(id)
  <2>1. db[id] = Absent /\ want[id] = Nothing
    BY DEF Init
  <2>2. WithKeys(NoEnv, Known)
    BY NoEnvEncoded DEF WithKeys, Known
  <2> QED
    BY <2>1, <2>2, NoEnvEncoded DEF StoredInv
<1>3. \A r \in Requests : UpdateInv(r)
  BY DEF Init, UpdateInv
<1>4. TypeOK
  <2>1. Nothing \in Plain
    BY ValuesArePlain, NoEnvEncoded
  <2>2. db \in [Providers -> Record \cup {Absent}]
    BY DEF Init
  <2>3. want \in [Providers -> Plain]
    BY <2>1 DEF Init
  <2>4. update \in [Requests -> Update \cup {Idle}]
    BY DEF Init
  <2>5. \A id \in Providers, v \in Vars : LET e == db[id].env[v] IN
          e.key # NoKey <=> e.secret /\ e.value # ""
    BY <1>2 DEF StoredInv, Encoded
  <2> QED
    BY <1>1, <2>2, <2>3, <2>4, <2>5 DEF TypeOK, StartInv, Init
<1> QED
  BY <1>1, <1>2, <1>3, <1>4 DEF DInv

\* The parts make up the invariant.
LEMMA PartsSuffice ==
  ASSUME DInv, StartInv',
         \A id \in Providers : StoredInv(id)', \A r \in Requests : UpdateInv(r)',
         db' = [id \in Providers |-> db'[id]],
         want' = [id \in Providers |-> want'[id]],
         update' = [r \in Requests |-> update'[r]],
         born' \subseteq Providers, kept' \subseteq Providers \X Vars,
         revived' \subseteq Providers
  PROVE  DInv'
<1>1. db' \in [Providers -> Record \cup {Absent}] /\ want' \in [Providers -> Plain]
  <2>1. \A id \in Providers : db'[id] \in Record \cup {Absent} /\ want'[id] \in Plain
    BY ValuesArePlain DEF StoredInv
  <2> QED
    BY <2>1
<1>2. update' \in [Requests -> Update \cup {Idle}]
  BY DEF UpdateInv
<1>3. \A id \in Providers, v \in Vars : LET e == db'[id].env[v] IN
        e.key # NoKey <=> e.secret /\ e.value # ""
  BY DEF StoredInv, Encoded
<1> QED
  BY <1>1, <1>2, <1>3 DEF DInv, TypeOK, StartInv

\* What holds of the stored records and of the updates only speaks of the processes
\* through the keys that are known.
LEMMA StoredKept ==
  ASSUME NEW id \in Providers, StoredInv(id), UNCHANGED <<db[id], want[id]>>,
         ~raced' => ~raced /\ Known \subseteq Known'
  PROVE  StoredInv(id)'
BY DEF StoredInv, WithKeys

LEMMA UpdateKept ==
  ASSUME NEW r \in Requests, UpdateInv(r), UNCHANGED <<update[r], db>>,
         ~raced' => ~raced /\ Known \subseteq Known'
  PROVE  UpdateInv(r)'
BY DEF UpdateInv, WithKeys

LEMMA SameKeys == UNCHANGED start => (~raced' => ~raced /\ Known \subseteq Known')
BY DEF start, Known

LEMMA SameStart == StartInv /\ UNCHANGED start => StartInv'
BY DEF StartInv, StartTypeOK, start

\* A record of the right form is written.
LEMMA PutStored ==
  ASSUME DInv, NEW id \in Providers, NEW record \in Record \cup {Absent}, NEW asked,
         UNCHANGED start, Put(id, record, asked),
         Encoded(record.env), asked = Values(record.env),
         ~raced => WithKeys(record.env, Known)
  PROVE  /\ \A p \in Providers : StoredInv(p)'
         /\ db' = [p \in Providers |-> db'[p]]
         /\ want' = [p \in Providers |-> want'[p]]
<1>1. /\ db'[id] = record /\ want'[id] = asked
      /\ \A p \in Providers \ {id} : UNCHANGED <<db[p], want[p]>>
      /\ db' = [p \in Providers |-> db'[p]]
      /\ want' = [p \in Providers |-> want'[p]]
  BY DEF DInv, TypeOK, Put
<1>2. StoredInv(id)'
  BY <1>1, SameKeys DEF StoredInv, WithKeys
<1>3. \A p \in Providers \ {id} : StoredInv(p)'
  BY <1>1, SameKeys, StoredKept DEF DInv
<1> QED
  BY <1>1, <1>2, <1>3

\* The updates of a provider that is written are no longer alone, and what they have
\* read is as good as before.
LEMMA OvertakenUpdates ==
  ASSUME DInv, NEW id \in Providers, UNCHANGED start,
         \A p \in Providers \ {id} : UNCHANGED db[p],
         NEW r \in Requests, update'[r] = Overtaken(id)[r]
  PROVE  UpdateInv(r)'
<1>1. UpdateInv(r) /\ update[r] \in Update \cup {Idle}
  BY DEF DInv, TypeOK
<1>2. CASE update[r].id # id
  <2>1. update'[r] = update[r]
    BY <1>2 DEF Overtaken
  <2>2. update[r] # Idle => db'[update[r].id] = db[update[r].id]
    BY <1>1, <1>2 DEF Update
  <2> QED
    BY <1>1, <2>1, <2>2, SameKeys DEF UpdateInv, WithKeys
<1>3. CASE update[r].id = id
  <2>1. update'[r] = [update[r] EXCEPT !.alone = FALSE]
    BY <1>3 DEF Overtaken
  <2>2. update[r] # Idle
    <3>1. Idle.id = "none" /\ "none" \notin Providers
      BY ProvidersAssumption DEF Idle
    <3> QED
      BY <1>3, <3>1
  <2>3. update[r] \in Update
    BY <1>1, <2>2
  <2>4. /\ update'[r] \in Update /\ ~update'[r].alone
        /\ update'[r].record = update[r].record /\ update'[r].asked = update[r].asked
    BY <2>1, <2>3 DEF Update
  <2> QED
    BY <1>1, <2>2, <2>4, SameKeys DEF UpdateInv, WithKeys
<1> QED
  BY <1>2, <1>3

LEMMA CreateStep ==
  ASSUME DInv, NEW id \in Providers, NEW form \in Form, Create(id, form)
  PROVE  DInv'
<1>1. StartInv /\ StartInv' /\ UNCHANGED start /\ key[lock] \in Key
      /\ (~raced => key[lock] \in Known) /\ NoKey \in Known
  BY SameStart, ServingKey DEF Create, DInv, Known
<1> DEFINE record == [source |-> form.source, env |-> NewEnv(form)]
<1>2. /\ Encoded(NewEnv(form))
      /\ WithKeys(NewEnv(form), {NoKey, key[lock]})
  BY <1>1, NewEnvEncoded
<1>3. record \in Record
  BY <1>2 DEF Record, Encoded, Form
<1>4. ~raced => WithKeys(record.env, Known)
  BY <1>1, <1>2 DEF WithKeys
<1>5. /\ \A p \in Providers : StoredInv(p)'
      /\ db' = [p \in Providers |-> db'[p]]
      /\ want' = [p \in Providers |-> want'[p]]
  <2>1. record.env = NewEnv(form)
    OBVIOUS
  <2>2. Put(id, record, Values(record.env))
    BY <2>1 DEF Create
  <2> HIDE DEF record
  <2> QED
    BY <1>1, <1>2, <1>3, <1>4, <2>1, <2>2, PutStored
<1>6. /\ db[id] # db'[id] => db'[id] # Absent
      /\ \A p \in Providers \ {id} : db'[p] = db[p]
      /\ UNCHANGED update
  <2>1. db'[id] = record
    BY DEF Create, Put, DInv, TypeOK
  <2>2. record # Absent
    BY DEF Form, Absent
  <2> QED
    BY <2>1, <2>2 DEF Create, Put, DInv, TypeOK
<1>7. \A r \in Requests : UpdateInv(r)'
  <2> TAKE r \in Requests
  <2>1. UpdateInv(r) /\ update'[r] = update[r] /\ (~raced' => ~raced /\ Known \subseteq Known')
    BY <1>1, <1>6, SameKeys DEF DInv
  <2>2. update[r] # Idle => update[r].id \in Providers
    BY <2>1 DEF UpdateInv, Update
  <2>3. update[r] # Idle /\ update[r].alone => db'[update[r].id] # Absent
    BY <2>1, <2>2, <1>6 DEF UpdateInv
  <2> QED
    BY <2>1, <2>3 DEF UpdateInv, WithKeys
<1> QED
  BY <1>1, <1>5, <1>6, <1>7, PartsSuffice DEF Create, DInv, TypeOK

\* What an update computes from the record it reads is as good as that record.
LEMMA ReadStep ==
  ASSUME DInv, NEW r \in Requests, NEW id \in Providers, NEW form \in Form,
         NEW blank \in SUBSET Vars, UpdateRead(r, id, form, blank)
  PROVE  DInv'
<1>1. StartInv /\ StartInv' /\ UNCHANGED <<start, db, want, born, kept, revived>>
      /\ key[lock] \in Key /\ (~raced => key[lock] \in Known) /\ NoKey \in Known
      /\ db[id] # Absent
  BY SameStart, ServingKey DEF UpdateRead, Found, DInv, Known, history
<1> DEFINE env == Edited(db[id].env, form)
           u == [id |-> id, asked |-> Asked(want[id], form), blank |-> blank,
                 alone |-> TRUE, record |-> [source |-> form.source, env |-> env]]
<1>2. StoredInv(id)
  BY DEF DInv
<1>3. Encoded(env) /\ u.asked = Values(env) /\ (~raced => WithKeys(env, Known))
  BY <1>1, <1>2, EditedEncoded DEF StoredInv
<1>4. u \in Update
  <2>1. [source |-> form.source, env |-> env] \in Record
    BY <1>3 DEF Encoded, Record, Form
  <2>2. Asked(want[id], form) \in Plain
    BY <1>3, ValuesArePlain
  <2> HIDE DEF env
  <2> QED
    BY <2>1, <2>2 DEF Update
<1>5. /\ u.id = id /\ u.record.env = env /\ u.alone
      /\ update' = [update EXCEPT ![r] = u]
  BY DEF UpdateRead
<1> HIDE DEF env, u
<1>6. ASSUME NEW q \in Requests PROVE UpdateInv(q)'
  <2>1. CASE q = r
    <3>1. update'[q] = u
      BY <2>1, <1>5 DEF DInv, TypeOK
    <3> QED
      BY <1>1, <1>3, <1>4, <1>5, <3>1, SameKeys DEF UpdateInv, WithKeys
  <2>2. CASE q # r
    <3>1. update'[q] = update[q]
      BY <2>2, <1>5 DEF DInv, TypeOK
    <3> QED
      BY <1>1, <3>1, SameKeys, UpdateKept DEF DInv
  <2> QED
    BY <2>1, <2>2
<1>7. \A p \in Providers : StoredInv(p)'
  BY <1>1, SameKeys, StoredKept DEF DInv
<1>8. update' = [q \in Requests |-> update'[q]]
  BY <1>5 DEF DInv, TypeOK
<1> QED
  BY <1>1, <1>6, <1>7, <1>8, PartsSuffice DEF DInv, TypeOK

\* The record that was computed is written; whoever else has read the provider will
\* not be alone.
LEMMA WriteStep ==
  ASSUME DInv, NEW r \in Requests, UpdateWrite(r)
  PROVE  DInv'
<1> DEFINE u == update[r]
<1>1. /\ u \in Update /\ u.id \in Providers /\ u.record \in Record /\ u.blank \subseteq Vars
      /\ Encoded(u.record.env) /\ u.asked = Values(u.record.env)
      /\ ~raced => WithKeys(u.record.env, Known)
  BY DEF DInv, UpdateInv, UpdateWrite, Update
<1>2. StartInv' /\ UNCHANGED <<start, born>>
  BY SameStart DEF UpdateWrite, DInv
<1>3. PICK asked : Put(u.id, u.record, asked) /\ asked = Values(u.record.env)
  BY <1>1 DEF UpdateWrite
<1> HIDE DEF u
<1>4. /\ \A p \in Providers : StoredInv(p)'
      /\ db' = [p \in Providers |-> db'[p]]
      /\ want' = [p \in Providers |-> want'[p]]
  BY <1>1, <1>2, <1>3, PutStored
<1>5. \A p \in Providers \ {u.id} : UNCHANGED db[p]
  BY <1>3 DEF Put, DInv, TypeOK
<1>6. update' = [Overtaken(u.id) EXCEPT ![r] = Idle]
  BY DEF UpdateWrite, u
<1>7. ASSUME NEW q \in Requests PROVE UpdateInv(q)'
  <2>1. CASE q = r
    BY <2>1, <1>6 DEF UpdateInv, Overtaken
  <2>2. CASE q # r
    <3>1. update'[q] = Overtaken(u.id)[q]
      BY <2>2, <1>6 DEF Overtaken
    <3> QED
      BY <1>1, <1>2, <1>5, <3>1, OvertakenUpdates
  <2> QED
    BY <2>1, <2>2
<1>8. update' = [q \in Requests |-> update'[q]]
  BY <1>6 DEF Overtaken
<1>9. kept' \subseteq Providers \X Vars /\ revived' \subseteq Providers
  BY <1>1 DEF UpdateWrite, DInv, TypeOK, u
<1> QED
  BY <1>2, <1>4, <1>7, <1>8, <1>9, PartsSuffice DEF DInv, TypeOK

LEMMA DeleteStep ==
  ASSUME DInv, NEW id \in Providers, Delete(id)
  PROVE  DInv'
<1>1. StartInv' /\ UNCHANGED <<start, born>>
  BY SameStart DEF Delete, DInv
<1>2. Encoded(Absent.env) /\ Nothing = Values(Absent.env) /\ WithKeys(Absent.env, Known)
  BY NoEnvEncoded DEF WithKeys, Known
<1>3. /\ \A p \in Providers : StoredInv(p)'
      /\ db' = [p \in Providers |-> db'[p]]
      /\ want' = [p \in Providers |-> want'[p]]
  BY <1>1, <1>2, PutStored DEF Delete
<1>4. \A p \in Providers \ {id} : UNCHANGED db[p]
  BY DEF Delete, Put, DInv, TypeOK
<1>5. update' = Overtaken(id)
  BY DEF Delete
<1>6. \A q \in Requests : UpdateInv(q)'
  BY <1>1, <1>4, <1>5, OvertakenUpdates
<1>7. update' = [q \in Requests |-> update'[q]]
  BY <1>5 DEF Overtaken
<1> QED
  BY <1>1, <1>3, <1>6, <1>7, PartsSuffice DEF Delete, DInv, TypeOK

\* A process starts or ends: the records stay, and their keys stay known.
LEMMA ProcessStep ==
  ASSUME DInv, NEW s \in Servers, StartStep(s) \/ Stop(s)
  PROVE  DInv'
<1>1. StartInv' /\ (~raced' => ~raced /\ Known \subseteq Known')
  BY StartStepInv DEF StartStep, Stop, DInv
<1>2. UNCHANGED <<db, want, born, kept, revived>>
  BY DEF StartStep, Stop, history
<1>3. update' = update \/ update' = [r \in Requests |-> Idle]
  BY DEF StartStep, Stop
<1>4. \A p \in Providers : StoredInv(p)'
  BY <1>1, <1>2, StoredKept DEF DInv
<1>5. \A r \in Requests : UpdateInv(r)'
  <2>1. CASE update' = update
    BY <2>1, <1>1, <1>2, UpdateKept DEF DInv
  <2>2. CASE update' = [r \in Requests |-> Idle]
    BY <2>2 DEF UpdateInv
  <2> QED
    BY <2>1, <2>2, <1>3
<1>6. /\ db' = [p \in Providers |-> db'[p]] /\ want' = [p \in Providers |-> want'[p]]
      /\ update' = [q \in Requests |-> update'[q]]
  BY <1>2, <1>3 DEF DInv, TypeOK
<1> QED
  BY <1>1, <1>2, <1>4, <1>5, <1>6, PartsSuffice DEF DInv, TypeOK

LEMMA NextDInv == DInv /\ [Next]_vars => DInv'
<1> SUFFICES ASSUME DInv, [Next]_vars PROVE DInv'
  OBVIOUS
<1> USE ProvidersAssumption
<1>1. ASSUME NEW s \in Servers, StartStep(s) \/ Stop(s) PROVE DInv'
  BY <1>1, ProcessStep
<1>2. ASSUME NEW id \in Providers, Import(id) PROVE DInv'
  BY <1>2, CreateStep DEF Import
<1>3. ASSUME NEW id \in Providers, Delete(id) PROVE DInv'
  BY <1>3, DeleteStep
<1>4. ASSUME NEW id \in Providers, NEW form \in Forms, Create(id, form) PROVE DInv'
  BY <1>4, CreateStep
<1>5. ASSUME NEW id \in Providers, NEW form \in Forms, NEW r \in Requests,
             Submit(r, id, form)
      PROVE  DInv'
  BY <1>5, ReadStep, ZenonT(60) DEF Submit
<1>6. ASSUME NEW id \in Providers, NEW r \in Requests, NEW t \in Typed,
             PageEdit(r, id, t[1], t[2])
      PROVE  DInv'
  <2> DEFINE form == PageForm(db[id].env, t[1], t[2])
  <2>1. form \in Form
    <3>1. Encoded(db[id].env) /\ t[1] \in Vars /\ t[2] \in Vals \cup {""}
      BY DEF DInv, StoredInv
    <3> QED
      BY <3>1, PageFormIsForm
  <2>2. PICK blank \in SUBSET Vars : UpdateRead(r, id, form, blank)
    BY <1>6 DEF PageEdit, Ticked
  <2> HIDE DEF form
  <2> QED
    BY <2>1, <2>2, ReadStep
<1>7. ASSUME NEW r \in Requests, UpdateWrite(r) PROVE DInv'
  BY <1>7, WriteStep
<1>8. CASE UNCHANGED vars
  <2>1. UNCHANGED <<start, db, born, update, want, kept, revived>>
    BY <1>8 DEF vars, history
  <2>2. StartInv'
    BY <2>1, SameStart DEF DInv
  <2>3. Known' = Known /\ raced' = raced
    BY <2>1 DEF Known, start
  <2>4. \A p \in Providers : StoredInv(p)'
    BY <2>1, <2>3 DEF DInv, StoredInv
  <2>5. \A q \in Requests : UpdateInv(q)'
    BY <2>1, <2>3 DEF DInv, UpdateInv
  <2>6. TypeOK'
    BY <2>1, <2>2 DEF DInv, TypeOK, StartInv
  <2> QED
    BY <2>2, <2>4, <2>5, <2>6 DEF DInv
<1> QED
  BY <1>1, <1>2, <1>3, <1>4, <1>5, <1>6, <1>7, <1>8 DEF Next

-----------------------------------------------------------------------------
\* The inductive invariant holds in every reachable state.
THEOREM Invariance == Spec => []DInv
<1> QED
  BY InitDInv, NextDInv, PTL DEF Spec

\* The records, the updates and the processes keep their types; an entry carries a
\* key exactly when it is a secret that is not empty.
THEOREM TypeCorrect == Spec => []TypeOK
<1>1. DInv => TypeOK
  BY DEF DInv
<1> QED
  BY <1>1, Invariance, PTL

\* A variable whose name says secret is never stored in the clear (store.go:67-74,
\* 134-177).
THEOREM NothingInClear == Spec => []NoSecretInClear
<1>1. DInv => NoSecretInClear
  BY ProvidersAssumption DEF DInv, StoredInv, Encoded, NoSecretInClear
<1> QED
  BY <1>1, Invariance, PTL

\* A provider holds what the requests asked for, one after the other (store.go:103-154).
THEOREM HoldsWhatWasAsked == Spec => []AsAsked
<1>1. DInv => AsAsked
  BY DEF DInv, StoredInv, AsAsked
<1> QED
  BY <1>1, Invariance, PTL

\* What was encrypted can be decrypted, now and after any restart, unless two first
\* starts raced for the key (encrypt.go:33-58, server.go:36-46).
THEOREM Readable == Spec => []SecretsReadable
<1>1. ASSUME DInv, ~raced, NEW id \in Providers, NEW v \in Vars
      PROVE  /\ db[id].env[v].key \in {NoKey, keyFile}
             /\ Serving => Usable(id)
  <2>1. \A u \in Vars : db[id].env[u].key \in {NoKey, keyFile}
    BY <1>1 DEF DInv, StoredInv, WithKeys, Known
  <2>2. Serving => key[lock] = keyFile
    BY <1>1 DEF DInv, StartInv, StartTypeOK, Serving
  <2> QED
    BY <2>1, <2>2 DEF Usable
<1>2. DInv => SecretsReadable
  BY <1>1 DEF SecretsReadable
<1> QED
  BY <1>2, Invariance, PTL

\* A deleted provider comes back by an update only that had read it before it was
\* deleted (store.go:104, 150).
THEOREM StaysDeleted == Spec => DeletedStaysDeleted
<1> DEFINE Kept(id) == id \in born /\ db[id] = Absent /\ db'[id] # Absent =>
                         \E r \in Requests : update[r].id = id /\ ~update[r].alone
<1>1. ASSUME DInv, [Next]_vars, NEW id \in Providers PROVE Kept(id)
  <2> SUFFICES ASSUME id \in born, db[id] = Absent, db'[id] # Absent
               PROVE  \E r \in Requests : update[r].id = id /\ ~update[r].alone
    OBVIOUS
  <2>1. CASE \E r \in Requests : UpdateWrite(r)
    <3>1. PICK r \in Requests : UpdateWrite(r)
      BY <2>1
    <3>2. update[r].id = id
      BY <1>1, <3>1 DEF UpdateWrite, Put, DInv, TypeOK
    <3>3. ~update[r].alone
      BY <1>1, <3>1, <3>2 DEF DInv, UpdateInv, UpdateWrite
    <3> QED
      BY <3>2, <3>3
  <2>2. CASE ~\E r \in Requests : UpdateWrite(r)
    <3>1. ASSUME NEW p \in Providers, Delete(p) PROVE FALSE
      BY <1>1, <3>1 DEF Delete, Put, DInv, TypeOK
    <3>2. ASSUME NEW p \in Providers, NEW form \in Form, Create(p, form) PROVE FALSE
      BY <1>1, <3>2 DEF Create, Put, DInv, TypeOK
    <3>3. UNCHANGED db
      BY <1>1, <2>2, <3>1, <3>2, ProvidersAssumption
         DEF Next, Import, Submit, PageEdit, UpdateRead, StartStep, Stop, vars
    <3> QED
      BY <3>3
  <2> QED
    BY <2>1, <2>2
<1>2. DInv /\ [Next]_vars =>
        [\A id \in Providers : Kept(id)]_vars
  BY <1>1
<1> QED
  BY <1>2, Invariance, PTL DEF Spec, DeletedStaysDeleted
=============================================================================
