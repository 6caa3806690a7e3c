------------------------------ MODULE Webhooks ------------------------------
(***************************************************************************)
(* The API's two endpoints (src/src/api/app.py): POST /webhook/{name},     *)
(* whose secrets are in the table webhook_secrets that module Registry's   *)
(* commands write, and POST /run. The requests are coroutines of one       *)
(* process, and take turns at their awaits. Module System says when the    *)
(* process serves, and on which schema.                                    *)
(***************************************************************************)
EXTENDS Registry

CONSTANTS
    File,     \* workflow files
    NoFile,   \* workflow_file_path is NULL
    Loads,    \* Loads[f]: what importing file f can do
    Token,    \* a request that carries the bearer token
    Request   \* requests under way at the same time

\* A load returns the workflow, raises WorkflowLoadError, or exits the process.
Outcome == {"loads", "fails", "exits"}

\* What register-webhook records, besides a fresh secret: the secret of a row is
\* told by its id.
Hook == [name : Name, file : File \cup {NoFile}]

ASSUME WebhooksAssumption ==
    /\ NoFile \notin File
    /\ Token \notin 0..MaxRows
    /\ Loads \in [File -> SUBSET Outcome]
    /\ Offers \subseteq Hook /\ \A o \in Offers : o.file \in File
    /\ Legacy \subseteq Hook /\ \A o \in Legacy : o.file = NoFile

VARIABLES
    req,   \* req[r]: the frame of a request
    live   \* live[r]: rows of its name that were enabled at some moment since it arrived

webhooks == <<registry, req, live>>

\* What a request is signed with: the secret of row 1, 2, ..., or none of them (0).
Signature == 0..MaxRows \cup {Token}

RequestType ==
    [pc : {"out", "select", "body", "running"}, name : Name, sig : Signature,
     row : Row \cup {Absent}, file : File \cup {NoFile}]

Gone ==
    [pc |-> "out", name |-> CHOOSE n \in Name : TRUE, sig |-> 0, row |-> Absent,
     file |-> NoFile]

WebhooksInit ==
    /\ RegistryInit
    /\ req = [r \in Request |-> Gone]
    /\ live = [r \in Request |-> {}]

Answered(r) == req' = [req EXCEPT ![r] = Gone]

\* live is a history variable: it is kept by every step.
EnabledRows == {row \in {table[n] : n \in Name} : row # Absent /\ row.enabled}

Remember ==
    live' = [r \in Request |->
        IF req'[r].pc = "out" THEN {}
        ELSE live[r] \cup {row \in EnabledRows' : row.offer.name = req'[r].name}]

-----------------------------------------------------------------------------

\* import_workflow_from_file returns, and the run begins before the next await; or the
\* answer is 400.
LoadAndRun(r, f, sig) ==
    \/ /\ "loads" \in Loads[f]
       /\ req' = [req EXCEPT ![r] = [@ EXCEPT !.pc = "running", !.sig = sig, !.file = f]]
    \/ /\ "fails" \in Loads[f]
       /\ Answered(r)

\* A caller knows the secrets that were printed so far.
Arrive(r, n, sig) ==
    /\ req[r].pc = "out"
    /\ sig <= rows
    /\ req' = [req EXCEPT ![r] = [Gone EXCEPT !.pc = "select", !.name = n, !.sig = sig]]
    /\ UNCHANGED registry

\* POST /run: without the token it ends in require_token.
PostRun(r, f) ==
    /\ req[r].pc = "out"
    /\ LoadAndRun(r, f, Token)
    /\ UNCHANGED registry

\* Mutant of Found: a disabled webhook is served.
FoundDisabled(n) == Present(n)

Found(n) == Present(n) /\ table[n].enabled

\* The SELECT: secret, enabled and file of one row at one moment, or 404.
SelectHook(r) ==
    LET n == req[r].name IN
    /\ req[r].pc = "select"
    /\ IF Found(n)
       THEN req' = [req EXCEPT ![r] = [@ EXCEPT !.pc = "body", !.row = table[n]]]
       ELSE Answered(r)
    /\ UNCHANGED registry

\* The body is there, and verify_signature agrees.
Verified(r) == req[r].pc = "body" /\ req[r].sig = req[r].row.id

\* The signature and the file are those of the row that was read. A row without a file
\* raises in the loader, outside what it catches.
VerifyAndRun(r) ==
    LET f == req[r].row.offer.file IN
    /\ req[r].pc = "body"
    /\ IF Verified(r) /\ f # NoFile THEN LoadAndRun(r, f, req[r].sig) ELSE Answered(r)
    /\ UNCHANGED registry

\* A file that exits ends the server with it, from either endpoint.
LoadExits ==
    /\ \E r \in Request, f \in File :
          /\ "exits" \in Loads[f]
          /\ req[r].pc = "out" \/ (Verified(r) /\ req[r].row.offer.file = f)
    /\ req' = [r \in Request |-> Gone]
    /\ UNCHANGED registry

\* run_workflow returns or raises; a statement raises; or the caller is gone.
EndRequest(r) ==
    /\ req[r].pc # "out"
    /\ Answered(r)
    /\ UNCHANGED registry

ServeRequests ==
    \E r \in Request :
        \/ \E n \in Name, sig \in 0..MaxRows : Arrive(r, n, sig)
        \/ \E f \in File : PostRun(r, f)
        \/ VerifyAndRun(r) \/ EndRequest(r)

-----------------------------------------------------------------------------
(* Properties *)

WebhooksTypeOK ==
    /\ RegistryTypeOK
    /\ req \in [Request -> RequestType]
    /\ live \in [Request -> SUBSET Row]

\* A request that runs a workflow carried the bearer token, or was signed with the
\* secret of a row of its name that was enabled at some moment after it arrived, and
\* runs the file that was registered with that very secret; however the webhook was
\* disabled, removed or registered anew while the body was awaited.
RunsAreAuthorised ==
    \A r \in Request :
        req[r].pc = "running" =>
            \/ req[r].sig = Token
            \/ \E row \in live[r] :
                  row.id = req[r].sig /\ row.offer.file = req[r].file
=============================================================================
