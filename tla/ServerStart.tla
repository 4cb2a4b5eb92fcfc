----------------------------- MODULE ServerStart -----------------------------
(***************************************************************************)
(* The start of the server as far as its secret key and its database are   *)
(* concerned: server.New reads the key file, or creates it, and then opens *)
(* the database, which one process at a time can.  A process may end       *)
(* between any two steps, and a second one may be started beside the first.*)
(*                                                                         *)
(* What the key file holds is the number of the key that was generated and *)
(* how much of it was written: a key of which 16 bytes or more were        *)
(* written is accepted, as another key.                                    *)
(***************************************************************************)
EXTENDS Integers, FiniteSets

CONSTANTS Servers,  \* processes started on one configuration
          MaxKeys   \* bound: keys generated

ASSUME StartAssumption == /\ IsFiniteSet(Servers) /\ "nobody" \notin Servers
                          /\ MaxKeys \in Nat

VARIABLES
  keyFile,  \* its content
  keys,     \* keys generated so far
  up,       \* how far each process is
  key,      \* the key each process works with
  lock,     \* the process that has the database open
  raced     \* history: two processes were creating the key, or one read it half-way

start == <<keyFile, keys, up, key, lock, raced>>

Key     == [number : 1..MaxKeys, written : {"short", "part", "full"}]
NoKey   == [number |-> 0, written |-> "short"]
Nobody  == "nobody"

StartInit ==
  /\ keyFile = NoKey
  /\ keys = 0
  /\ up = [s \in Servers |-> "down"]
  /\ key = [s \in Servers |-> NoKey]
  /\ lock = Nobody
  /\ raced = FALSE

\* LoadOrCreateKey: read the file; one that is too short is refused, at every start.
ReadKey(s) ==
  /\ up[s] = "down"
  /\ \/ keyFile = NoKey /\ up' = [up EXCEPT ![s] = "create"] /\ UNCHANGED key
     \/ /\ keyFile.written # "short"
        /\ up' = [up EXCEPT ![s] = "open"]
        /\ key' = [key EXCEPT ![s] = keyFile]
     \/ keyFile # NoKey /\ keyFile.written = "short" /\ UNCHANGED <<up, key>>
  /\ raced' = (raced \/ \E t \in Servers : up[t] = "write")
  /\ UNCHANGED <<keyFile, keys, lock>>

\* Mutant: the database is opened before the key is written.
CreateKeyLater(s) ==
  /\ up[s] = "create" /\ keys < MaxKeys
  /\ keys' = keys + 1
  /\ up' = [up EXCEPT ![s] = "open"]
  /\ key' = [key EXCEPT ![s] = [number |-> keys + 1, written |-> "full"]]
  /\ keyFile' = [number |-> keys + 1, written |-> "short"]
  /\ raced' = (raced \/ keyFile # NoKey)
  /\ UNCHANGED lock

\* A fresh key; os.WriteFile creates the file, or empties the one that has
\* appeared since it was read.
CreateKey(s) ==
  /\ up[s] = "create" /\ keys < MaxKeys
  /\ keys' = keys + 1
  /\ up' = [up EXCEPT ![s] = "write"]
  /\ key' = [key EXCEPT ![s] = [number |-> keys + 1, written |-> "full"]]
  /\ keyFile' = [number |-> keys + 1, written |-> "short"]
  /\ raced' = (raced \/ keyFile # NoKey)
  /\ UNCHANGED lock

\* The key is written, perhaps in two pieces.
WriteKey(s) ==
  /\ up[s] = "write"
  /\ \/ keyFile' = key[s] /\ up' = [up EXCEPT ![s] = "open"]
     \/ keyFile' = [key[s] EXCEPT !.written = "part"] /\ UNCHANGED up
  /\ UNCHANGED <<keys, key, lock, raced>>

\* storage.Open: the second process gives up after three seconds.
OpenStore(s) ==
  /\ up[s] = "open"
  /\ \/ lock = Nobody /\ lock' = s /\ up' = [up EXCEPT ![s] = "up"] /\ UNCHANGED key
     \/ /\ lock # Nobody
        /\ up' = [up EXCEPT ![s] = "down"]
        /\ key' = [key EXCEPT ![s] = NoKey]
        /\ UNCHANGED lock
  /\ UNCHANGED <<keyFile, keys, raced>>

\* The process ends, wherever it is.
Die(s) ==
  /\ up[s] # "down"
  /\ up' = [up EXCEPT ![s] = "down"]
  /\ key' = [key EXCEPT ![s] = NoKey]
  /\ lock' = IF lock = s THEN Nobody ELSE lock
  /\ UNCHANGED <<keyFile, keys, raced>>

Starting(s) == ReadKey(s) \/ CreateKey(s) \/ WriteKey(s) \/ OpenStore(s)

StartTypeOK ==
  /\ keyFile \in Key \cup {NoKey}
  /\ keys \in 0..MaxKeys
  /\ up \in [Servers -> {"down", "create", "write", "open", "up"}]
  /\ key \in [Servers -> Key \cup {NoKey}]
  /\ lock \in Servers \cup {Nobody}
  /\ raced \in BOOLEAN
=============================================================================
