------------------------------- MODULE Config -------------------------------
(***************************************************************************)
(* config.yaml: what "init" writes, what an operator makes of it, and what *)
(* of it the server accepts at its start.  Only the fields are kept that a *)
(* decision depends on; of an address it matters whether it is loopback,   *)
(* of a path whether and how it is absolute.                               *)
(***************************************************************************)
EXTENDS Integers, Sequences, SequencesExt

\* A path: absolute or not, and its components.
Component == STRING
Paths == [abs : BOOLEAN, parts : Seq(Component)]
Path(abs, parts) == [abs |-> abs, parts |-> parts]
Unset == Path(FALSE, <<>>)

Default ==
  [bind |-> "loopback", port |-> 8090, auth |-> "none", allow |-> FALSE,
   binary |-> Path(TRUE, <<"root", ".acme.sh", "acme.sh">>),
   home   |-> Path(TRUE, <<"root", ".acme.sh">>),
   keyType |-> "ec-256", days |-> 30, reloads |-> "argv"]

OrElse(value, unset, default) == IF value = unset THEN default ELSE value

\* applyDerivedDefaults
Derived(c) ==
  [c EXCEPT !.port = OrElse(@, 0, 8090),
            !.bind = OrElse(@, "", "loopback"),
            !.auth = OrElse(@, "", "none"),
            !.days = IF @ <= 0 THEN 30 ELSE @]

IsOpenBind(c)   == c.bind \notin {"loopback", ""}
AuthDisabled(c) == c.auth \in {"", "none"}

PortInRange(c) == 1 <= c.port /\ c.port <= 65535

\* The gate of Validate.
Gate(c) == IsOpenBind(c) /\ AuthDisabled(c) => c.allow

Validate(c) ==
  /\ c.auth \in {"none", "basic", "reverse_proxy"}
  /\ PortInRange(c)
  /\ Gate(c)
  /\ c.binary.abs
  /\ c.reloads = "argv"

\* Load: the file over the defaults, then the derived defaults, then the checks.
Loads(c) == Validate(Derived(c))

-----------------------------------------------------------------------------
(* acmesh-ui init                                                          *)

\* A flag wins; else whoever sits at a terminal answers, with Enter for the default.
Chosen(flag, unset, interactive, answer, default) ==
  IF flag # unset THEN flag
  ELSE IF interactive THEN OrElse(answer, unset, default) ELSE default

\* What init writes: of the answers it takes ports in range only, of the flags it
\* checks the port afterwards.
Written(flags, interactive, answers) ==
  LET bind == Chosen(flags.bind, "", interactive, answers.bind, Default.bind)
      port == Chosen(flags.port, 0, interactive, answers.port, Default.port)
      c    == [Default EXCEPT !.bind = bind, !.port = port]
  IN  [c EXCEPT !.allow = IsOpenBind(c) /\ AuthDisabled(c) /\ interactive /\ answers.yes]
=============================================================================
