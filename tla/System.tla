------------------------------- MODULE System -------------------------------
(***************************************************************************)
(* The deployment with its API: module Webhooks serves when module         *)
(* Deployment has the api container up, and its statements, like those of  *)
(* the `brain` commands, find the schema as far as it is migrated.         *)
(***************************************************************************)
EXTENDS Deployment, Webhooks

CONSTANTS
    HookTable,  \* the migration that creates webhook_secrets
    HookPath    \* the one that adds workflow_file_path to it

ASSUME SystemAssumption == HookTable \in 1..Last /\ HookPath \in HookTable..Last

vars == <<deployment, webhooks>>

Init ==
    /\ DeploymentInit
    /\ WebhooksInit
    /\ (\E n \in Name : Present(n)) => HookTable \in schema

Serving == service["api"].pc = "up"

\* A step of the deployment; with the api container its requests end.
DeploymentStep ==
    /\ DeploymentNext
    /\ UNCHANGED registry
    /\ IF Serving /\ service'["api"].pc # "up"
       THEN req' = [r \in Request |-> Gone]
       ELSE UNCHANGED req

\* register-webhook loads the file before its first statement.
RegisterHook(c) ==
    /\ \E o \in Offers : "loads" \in Loads[o.file] /\ BeginRegister(c, o)
    /\ UNCHANGED <<deployment, req>>

\* A command's statement on a table or column that is not there raises.
HookCommands ==
    /\ HookTable \in schema
    /\ \/ \E c \in Client : CheckName(c) \/ (HookPath \in schema /\ InsertRow(c))
       \/ \E n \in Name : Unregister(n) \/ \E on \in BOOLEAN : SetEnabled(n, on)
    /\ UNCHANGED <<deployment, req>>

CommandRaises(c) ==
    /\ client[c].pc # "idle"
    /\ HookPath \notin schema
    /\ client' = [client EXCEPT ![c] = IdleClient]
    /\ UNCHANGED <<table, rows, touched, deployment, req>>

\* The endpoint's SELECT names the column of HookPath: without it, EndRequest.
ApiStep ==
    /\ Serving
    /\ ServeRequests \/ (HookPath \in schema /\ \E r \in Request : SelectHook(r))
    /\ UNCHANGED deployment

\* The container ends, and will be restarted.
ApiExits ==
    /\ Serving
    /\ LoadExits
    /\ service' = [service EXCEPT !["api"].pc = "down"]
    /\ UNCHANGED <<now, schema, record, migrator, brain, beat, health, faults>>

Next ==
    /\ \/ DeploymentStep
       \/ \E c \in Client : RegisterHook(c) \/ CommandRaises(c)
       \/ HookCommands
       \/ ApiStep \/ ApiExits
    /\ Remember

Spec == Init /\ [][Next]_vars

-----------------------------------------------------------------------------
(* Properties *)

\* Both halves keep their types, and only a container that is up has requests.
TypeOK ==
    /\ DeploymentTypeOK
    /\ WebhooksTypeOK
    /\ ~Serving => \A r \in Request : req[r] = Gone
=============================================================================
