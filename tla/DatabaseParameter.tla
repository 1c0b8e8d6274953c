------------------------- MODULE DatabaseParameter --------------------------
(***************************************************************************)
(* How the database URL reaches the Lambda function: the script that puts  *)
(* it into the SSM parameter and leaves a receipt                          *)
(* (put_aws_database_parameter.py), and resolve_database_url               *)
(* (aws_config.py), which every warm execution environment calls once and  *)
(* remembers.                                                              *)
(*                                                                         *)
(* Several people may run the script, for one URL after another, and the   *)
(* cluster's credentials are issued and revoked beside it.                 *)
(***************************************************************************)
EXTENDS Naturals, Sequences

CONSTANTS Writer,        \* executions of put_aws_database_parameter.py
          Environment,   \* execution environments of the function
          Url,           \* connection strings
          UrlOf,         \* [Writer -> Url]: DATABASE_URL of each execution
          MaxVersions    \* bound: how often the parameter is stored

ASSUME MaxVersionsAssumption == MaxVersions \in Nat
ASSUME UrlOfAssumption == UrlOf \in [Writer -> Url]

VARIABLES
  parameter,   \* the values the parameter has had, the last one current
  issued,      \* URLs the cluster accepts
  writer,      \* where each execution of the script is
  version,     \* the version it was answered
  receipt,     \* the receipt file: "absent", "torn", or a version
  cached,      \* what resolve_database_url remembers in each environment
  request      \* how the last request of each environment went

vars == <<parameter, issued, writer, version, receipt, cached, request>>

NoUrl == <<>>

Init ==
  /\ parameter = <<>>
  /\ issued = Url
  /\ writer = [w \in Writer |-> "start"]
  /\ version = [w \in Writer |-> 0]
  /\ receipt = [state |-> "absent", version |-> 0]
  /\ cached = [e \in Environment |-> NoUrl]
  /\ request = [e \in Environment |-> "none"]

Move(w, from, to) == writer[w] = from /\ writer' = [writer EXCEPT ![w] = to]

UnchangedFunction == UNCHANGED <<cached, request>>

(***************************************************************************)
(* put_aws_database_parameter.py.                                          *)
(***************************************************************************)

(* put_parameter with Overwrite; the answer carries the new version. *)
Put(w) ==
  /\ Len(parameter) < MaxVersions
  /\ Move(w, "start", "put")
  /\ parameter' = Append(parameter, UrlOf[w])
  /\ version' = [version EXCEPT ![w] = Len(parameter) + 1]
  /\ UNCHANGED <<issued, receipt>> /\ UnchangedFunction

(* The answer is lost and the value is stored: boto3 sends it once more,   *)
(* or gives up and "failed" is printed.                                    *)
PutUnanswered(w) ==
  /\ Len(parameter) < MaxVersions
  /\ \/ Move(w, "start", "failed")
     \/ writer[w] = "start" /\ UNCHANGED writer
  /\ parameter' = Append(parameter, UrlOf[w])
  /\ UNCHANGED <<issued, version, receipt>> /\ UnchangedFunction

PutFails(w) ==
  /\ Move(w, "start", "failed")
  /\ UNCHANGED <<parameter, issued, version, receipt>> /\ UnchangedFunction

(* write_bytes truncates and then writes. *)
OpenReceipt(w) ==
  /\ Move(w, "put", "writing")
  /\ receipt' = [state |-> "torn", version |-> 0]
  /\ UNCHANGED <<parameter, issued, version>> /\ UnchangedFunction

(* Mutant of WriteReceipt: the receipt names the newest version.           *)
WriteNewest(w) ==
  /\ Move(w, "writing", "stored")
  /\ receipt' = [state |-> "written", version |-> Len(parameter)]
  /\ UNCHANGED <<parameter, issued, version>> /\ UnchangedFunction

WriteReceipt(w) ==
  /\ Move(w, "writing", "stored")
  /\ receipt' = [state |-> "written", version |-> version[w]]
  /\ UNCHANGED <<parameter, issued, version>> /\ UnchangedFunction

WriterDies(w) ==
  /\ writer[w] \in {"put", "writing"}
  /\ writer' = [writer EXCEPT ![w] = "failed"]
  /\ UNCHANGED <<parameter, issued, version, receipt>> /\ UnchangedFunction

(***************************************************************************)
(* build_service in an environment: resolve, then connect.                 *)
(***************************************************************************)

(* Mutant of Resolve: what was raised is remembered too.                   *)
ResolveOnce(e) ==
  /\ request[e] = "none"
  /\ IF parameter = <<>>
       THEN /\ request' = [request EXCEPT ![e] = "unresolved"]
            /\ UNCHANGED cached
       ELSE /\ request' = [request EXCEPT ![e] = "resolved"]
            /\ cached' = [cached EXCEPT ![e] = parameter[Len(parameter)]]
  /\ UNCHANGED <<parameter, issued, writer, version, receipt>>

(* lru_cache remembers what was returned, never what was raised. *)
Resolve(e) ==
  /\ request[e] # "resolved"
  /\ IF cached[e] = NoUrl /\ parameter = <<>>
       THEN /\ request' = [request EXCEPT ![e] = "unresolved"]
            /\ UNCHANGED cached
       ELSE /\ request' = [request EXCEPT ![e] = "resolved"]
            /\ cached' = [cached EXCEPT ![e] = IF @ = NoUrl THEN parameter[Len(parameter)] ELSE @]
  /\ UNCHANGED <<parameter, issued, writer, version, receipt>>

(* Mutant of ResolveFails: an empty value is returned and remembered.      *)
ResolveEmpty(e) ==
  /\ request[e] # "resolved"
  /\ cached[e] = NoUrl
  /\ request' = [request EXCEPT ![e] = "resolved"]
  /\ UNCHANGED <<parameter, issued, writer, version, receipt, cached>>

(* The parameter store does not answer, or with an empty value. *)
ResolveFails(e) ==
  /\ request[e] # "resolved"
  /\ cached[e] = NoUrl
  /\ request' = [request EXCEPT ![e] = "unresolved"]
  /\ UNCHANGED <<parameter, issued, writer, version, receipt, cached>>

Connect(e) ==
  /\ request[e] = "resolved"
  /\ request' = [request EXCEPT ![e] = IF cached[e] \in issued THEN "served" ELSE "refused"]
  /\ UNCHANGED <<parameter, issued, writer, version, receipt, cached>>

(* Lambda replaces an environment between two requests: a cold start. *)
Recycle(e) ==
  /\ request[e] # "resolved"
  /\ cached' = [cached EXCEPT ![e] = NoUrl]
  /\ request' = [request EXCEPT ![e] = "none"]
  /\ UNCHANGED <<parameter, issued, writer, version, receipt>>

(* The operator revokes a URL that is not, or no longer, in the parameter  *)
(* and that nobody is about to put there.                                  *)
Revoke(u) ==
  /\ u \in issued
  /\ parameter # <<>> /\ parameter[Len(parameter)] # u
  /\ \A w \in Writer : UrlOf[w] = u => writer[w] # "start"
  /\ issued' = issued \ {u}
  /\ UNCHANGED <<parameter, writer, version, receipt>> /\ UnchangedFunction

WriterStep(w) ==
  \/ Put(w) \/ PutUnanswered(w) \/ PutFails(w)
  \/ OpenReceipt(w) \/ WriteReceipt(w) \/ WriterDies(w)

EnvironmentStep(e) == Resolve(e) \/ ResolveFails(e) \/ Connect(e) \/ Recycle(e)

Next ==
  \/ \E w \in Writer : WriterStep(w)
  \/ \E e \in Environment : EnvironmentStep(e)
  \/ \E u \in Url : Revoke(u)

Spec == Init /\ [][Next]_vars

(* Requests keep coming to every environment and the parameter store       *)
(* answers again and again.  Nothing makes Lambda recycle an environment.  *)
Fairness == \A e \in Environment : SF_vars(Resolve(e)) /\ WF_vars(Connect(e))

FairSpec == Spec /\ Fairness

-----------------------------------------------------------------------------
(***************************************************************************)
(* Properties.                                                             *)
(***************************************************************************)

(* A receipt names the version under which the execution that wrote it     *)
(* stored its own URL, however many executions overlap                     *)
(* (put_aws_database_parameter.py:32-40, 56-59).                           *)
ReceiptNamesItsPut ==
  receipt.state = "written" =>
    \E w \in Writer :
      /\ writer[w] = "stored"
      /\ version[w] = receipt.version
      /\ receipt.version \in DOMAIN parameter
      /\ parameter[receipt.version] = UrlOf[w]

(* The database refuses an environment for one reason only: the URL it     *)
(* remembers was the parameter's once and has been overtaken since         *)
(* (aws_config.py:10-38, lambda_handler.py:29-31).                         *)
RefusedIsOvertaken ==
  \A e \in Environment :
    request[e] = "refused" =>
      \E v \in 1..(Len(parameter) - 1) :
        cached[e] = parameter[v] /\ cached[e] # parameter[Len(parameter)]

(* An environment that could not resolve the URL is not stuck with that:   *)
(* once there is one it gets through to the database (aws_config.py:10).   *)
ResolvesInTheEnd ==
  \A e \in Environment :
    parameter # <<>> ~> request[e] \in {"served", "refused"}

=============================================================================
