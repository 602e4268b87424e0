------------------------------- MODULE Server -------------------------------
(***************************************************************************)
(* The process as a whole: Startup brings the server up and down, and      *)
(* Middleware answers requests in between, among them those of admins, who *)
(* change the rows that the next start finds (internal/server/admin.go).   *)
(***************************************************************************)
EXTENDS Startup, Middleware

vars == <<startVars, mwVars>>

Init == StartupInit /\ MiddlewareInit

\* A handler of the admin API, from the decoded payload to the answer; 200
\* stands for 201 and 204 as well.
Admin(r, res) ==
  /\ ~ probe[r]
  /\ table' = res.table
  /\ removed' = removed \cup {x \in Rows : table[x] # "none" /\ res.table[x] = "none"}
  /\ Answer(r, IF res.err = "none" THEN 200 ELSE errorStatus(res.err))
  /\ UNCHANGED <<phase, step, registry, starts>>

handleCreate(r, x, up) == Admin(r, CreateRow(x, up))
handleUpdate(r, x, up) == Admin(r, UpdateRow(x, up))
handleDelete(r, x, up) == Admin(r, DeleteRow(x, up))

AdminStep(r) ==
  \E x \in Rows, up \in BOOLEAN :
    handleCreate(r, x, up) \/ handleUpdate(r, x, up) \/ handleDelete(r, x, up)

\* A request comes in while the server listens.
Accept(r) ==
  /\ phase = "serving"
  /\ \E p \in BOOLEAN : Arrive(r, p)
  /\ UNCHANGED startVars

Serve(r) ==
  /\ ChainStep(r) \/ HandlerStep(r)
  /\ UNCHANGED startVars

\* The process ends with whatever was in its memory, after the requests or,
\* when Shutdown times out or it is killed, in the middle of them.
Die ==
  /\ Crash \/ Exit
  /\ MiddlewareEnds

Next ==
  \/ StartupStep /\ UNCHANGED mwVars
  \/ Die
  \/ \E r \in Requests : Accept(r) \/ Serve(r) \/ AdminStep(r)

Spec == Init /\ [][Next]_vars
=============================================================================
