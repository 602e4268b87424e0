------------------------------ MODULE Startup ------------------------------
(***************************************************************************)
(* The start of the process: run of cmd/gandalf/run.go up to the listening *)
(* server, with Bootstrap of internal/config/bootstrap.go, which seeds the *)
(* tables of providers, routes and keys from the configuration file on     *)
(* every start, and the registration of providers from the same file.      *)
(*                                                                         *)
(* A row is named by what Bootstrap looks it up by: the ID of a provider,  *)
(* the alias of a route, the hash of a key.  An admin who renames a route  *)
(* takes its alias away, which is a deletion here.                         *)
(***************************************************************************)
EXTENDS Integers, Sequences, FiniteSets

CONSTANTS
  Rows,        \* names of rows
  Seeds,       \* entries in the order of Bootstrap: Seq([row, empty])
  Entries,     \* providers of the file: records [name, enabled, type, hosting, auth]
  MaxStarts    \* bound: starts of the process

ASSUME StartupAssumption ==
  /\ Seeds \in Seq([row : Rows, empty : BOOLEAN])
  /\ MaxStarts \in Nat

VARIABLES
  phase,     \* of the process
  step,      \* entry that Bootstrap is about to seed
  table,     \* row -> who wrote it last, or "none"
  registry,  \* provider.Registry: names
  removed,   \* history: rows that an admin deleted since the process started
  starts     \* history: starts so far

startVars == <<phase, step, table, registry, removed, starts>>

StartupInit ==
  /\ phase = "down"
  /\ step = 1
  /\ table = [x \in Rows |-> "none"]
  /\ registry = {}
  /\ removed = {}
  /\ starts = 0

\* The memory of the process is gone.
Down ==
  /\ phase' = "down"
  /\ step' = 1
  /\ registry' = {}

\* The file is read, the store opened and migrated.
Start ==
  /\ phase = "down"
  /\ starts < MaxStarts
  /\ starts' = starts + 1
  /\ phase' = "boot"
  /\ removed' = {}
  /\ UNCHANGED <<step, table, registry>>

Seeding == phase = "boot" /\ step <= Len(Seeds)

NextSeed == step' = step + 1 /\ UNCHANGED <<phase, registry>>

\* Mutant: the row is written without a look at the store.
SeedAlways(seen, up) ==
  LET s == Seeds[step]
  IN  /\ Seeding
      /\ IF s.empty
         THEN NextSeed /\ UNCHANGED table
         ELSE IF up
              THEN NextSeed /\ table' = [table EXCEPT ![s.row] = "file"]
              ELSE Down /\ UNCHANGED table
      /\ UNCHANGED <<removed, starts>>

\* Mutant: an entry that cannot be written is skipped.
SeedSkips(seen, up) ==
  LET s == Seeds[step]
  IN  /\ Seeding
      /\ IF up /\ ~ s.empty /\ table[s.row] = "none"
         THEN NextSeed /\ table' = [table EXCEPT ![s.row] = "file"]
         ELSE NextSeed /\ UNCHANGED table
      /\ UNCHANGED <<removed, starts>>

\* One entry of Bootstrap: a key without a value is left out, a row that is
\* found is left alone, and anything else is inserted.  The error of the lookup
\* is dropped (seen is FALSE), and then the row may be there and the insertion
\* violate its uniqueness; it also fails when the store does or the entry names
\* an organization that is not there (up is FALSE).  Then run returns.
Seed(seen, up) ==
  LET s == Seeds[step]
  IN  /\ Seeding
      /\ IF s.empty \/ (seen /\ table[s.row] # "none")
         THEN NextSeed /\ UNCHANGED table
         ELSE IF up /\ table[s.row] = "none"
              THEN NextSeed /\ table' = [table EXCEPT ![s.row] = "file"]
              ELSE Down /\ UNCHANGED table
      /\ UNCHANGED <<removed, starts>>
-----------------------------------------------------------------------------
(* Registration. *)

ResolvedAuthType(p) ==
  IF p.auth # "" THEN p.auth
  ELSE IF p.hosting = "vertex" THEN "gcp_oauth"
  ELSE IF p.hosting = "bedrock" THEN "aws_sigv4"
  ELSE "api_key"

\* buildProviderClient fails: no credentials are found in the environment (found
\* is FALSE), or the authentication is of an unknown kind.
ClientFails(p, found) ==
  CASE ResolvedAuthType(p) \in {"gcp_oauth", "aws_sigv4"} -> ~ found
    [] ResolvedAuthType(p) = "api_key"                    -> FALSE
    [] OTHER                                              -> TRUE

KnownTypes == {"openai", "anthropic", "gemini", "ollama"}

\* The providers of the file are registered, the services wired and the workers
\* started; one provider that cannot be set up ends the start.
Register(found) ==
  /\ phase = "boot" /\ step > Len(Seeds)
  /\ IF \E p \in Entries : p.enabled /\ ClientFails(p, found)
     THEN Down
     ELSE /\ registry' = {p.name : p \in {e \in Entries : e.enabled /\ e.type \in KnownTypes}}
          /\ phase' = "serving"
          /\ UNCHANGED step
  /\ UNCHANGED <<table, removed, starts>>

\* A service cannot be set up, ListenAndServe fails, or the process is killed.
Crash ==
  /\ phase # "down"
  /\ Down
  /\ UNCHANGED <<table, removed, starts>>

\* A signal: srv.Shutdown, which lets the requests finish.
Signal ==
  /\ phase = "serving"
  /\ phase' = "draining"
  /\ UNCHANGED <<step, table, registry, removed, starts>>

\* Shutdown is done or has timed out, and run returns.
Exit ==
  /\ phase = "draining"
  /\ Down
  /\ UNCHANGED <<table, removed, starts>>

StartupStep ==
  \/ Start
  \/ \E seen, up \in BOOLEAN : Seed(seen, up)
  \/ \E found \in BOOLEAN : Register(found)
  \/ Signal
-----------------------------------------------------------------------------
(* The admin handlers, as far as the store goes: the error they meet, and  *)
(* what they leave in the table.                                           *)

\* A second row of a name violates its uniqueness.
CreateRow(x, up) ==
  IF up /\ table[x] = "none"
  THEN [err |-> "none", table |-> [table EXCEPT ![x] = "admin"]]
  ELSE [err |-> "store error", table |-> table]

\* checkRowsAffected.
UpdateRow(x, up) ==
  IF ~ up THEN [err |-> "store error", table |-> table]
  ELSE IF table[x] = "none" THEN [err |-> "not found", table |-> table]
  ELSE [err |-> "none", table |-> [table EXCEPT ![x] = "admin"]]

DeleteRow(x, up) ==
  IF ~ up THEN [err |-> "store error", table |-> table]
  ELSE IF table[x] = "none" THEN [err |-> "not found", table |-> table]
  ELSE [err |-> "none", table |-> [table EXCEPT ![x] = "none"]]
-----------------------------------------------------------------------------
(* A server that takes requests has every row that its file names, unless  *)
(* an admin has deleted it since: a start that was cut short, a failed     *)
(* lookup or a failed insertion in Bootstrap never goes on to serve.       *)
ServesSeeded ==
  phase \in {"serving", "draining"}
    => \A i \in 1 .. Len(Seeds) :
         Seeds[i].empty \/ table[Seeds[i].row] # "none" \/ Seeds[i].row \in removed

(* A start only adds rows: what an admin wrote is never overwritten by the *)
(* file, nor removed, however often the process starts and fails.          *)
BootKeepsRows ==
  [][phase = "boot" => \A x \in Rows : table[x] = "none" \/ table'[x] = table[x]]_startVars
=============================================================================
