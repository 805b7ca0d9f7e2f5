------------------------------ MODULE Gateway -------------------------------
(***************************************************************************)
(* What the handlers of app/api check, in their order, before they write   *)
(* anything: get_auth_context and require_roles of                         *)
(* app/infrastructure/auth.py, then the checks of the handler itself.      *)
(*                                                                         *)
(* What may be wrong with a call is a set of flaws; the one that is        *)
(* reported is the first one the handler checks.                           *)
(***************************************************************************)
EXTENDS Naturals, Sequences

CONSTANT AuthEnabled  \* settings.auth_enabled

WorkflowStatus == {"absent", "draft", "active", "archived"}

-----------------------------------------------------------------------------
(* A caller presents [token, subject, realm_roles, direct_roles,           *)
(* dev_roles]: the token is "none", "invalid" or "valid", its subject TRUE *)
(* when sub is a non-empty string.  A claim of roles is {} when it is      *)
(* missing or is not a list, else the set of one set.  A role is spelled   *)
(* [role: its lower-case name, upper: BOOLEAN].                            *)

AllowedRoles == [create_execution |-> {"admin", "operator"}]

(* str(role).lower() of every element.                                     *)
Lower(spellings) == {s.role : s \in spellings}

ExtractRoles(caller) ==
    Lower(UNION (caller.realm_roles \cup caller.direct_roles))

Authenticated(caller) ==
    ~AuthEnabled \/ (caller.token = "valid" /\ caller.subject)

(* Mutant: the development header adds to the roles of a token.            *)
RolesWithHeader(caller) ==
    Lower(caller.dev_roles) \cup
        (IF AuthEnabled THEN ExtractRoles(caller) ELSE {})

(* The roles of the context that get_auth_context returns.                 *)
RolesOf(caller) ==
    IF AuthEnabled THEN ExtractRoles(caller) ELSE Lower(caller.dev_roles)

(* 401, 403, or 0 to go on.  The webhook asks for no role.                 *)
Authorize(caller, endpoint) ==
    IF endpoint \notin DOMAIN AllowedRoles THEN 0
    ELSE IF ~Authenticated(caller) THEN 401
    ELSE IF RolesOf(caller) \cap AllowedRoles[endpoint] = {} THEN 403
    ELSE 0

-----------------------------------------------------------------------------
(* What the workflow a call names adds to its flaws.                       *)
StatusFlaws(status) == {f \in {"missing"} : status = "absent"}
                           \cup {f \in {"inactive"} : status # "active"}

(* Mutant: the workflow is looked up in front of the signature.            *)
WebhookChecksLookupFirst ==
    <<<<"header", 422>>, <<"unconfigured", 503>>, <<"missing", 404>>,
      <<"inactive", 409>>, <<"oversized", 413>>, <<"non_ascii", 500>>,
      <<"signature", 401>>, <<"json", 422>>>>

(* The checks of trigger_webhook and their codes.  compare_digest raises a *)
(* TypeError for a signature that is not ASCII, which nobody handles.      *)
WebhookChecks ==
    <<<<"header", 422>>, <<"unconfigured", 503>>, <<"oversized", 413>>,
      <<"non_ascii", 500>>, <<"signature", 401>>, <<"json", 422>>,
      <<"missing", 404>>, <<"inactive", 409>>>>

(* Those of create_schedule and create_execution, behind the roles.        *)
Checks ==
    [create_schedule  |-> <<<<"body", 422>>, <<"missing", 404>>,
                            <<"inactive", 409>>>>,
     create_execution |-> <<<<"body", 422>>, <<"header", 422>>,
                            <<"missing", 404>>, <<"inactive", 409>>>>,
     webhook          |-> WebhookChecks]

(* The code of the first check that fails, or 0.                           *)
FirstFailure(endpoint, flaws, status) ==
    LET checks == Checks[endpoint]
        failing == {i \in DOMAIN checks :
                       checks[i][1] \in flaws \cup StatusFlaws(status)}
    IN  IF failing = {} THEN 0
        ELSE checks[CHOOSE i \in failing : \A j \in failing : i <= j][2]
=============================================================================
