----------------------- MODULE DatabaseParameter_proofs -----------------------
(***************************************************************************)
(* Proofs about DatabaseParameter, for any number of people who run the    *)
(* script, any environments, and any URLs.                                 *)
(***************************************************************************)
EXTENDS DatabaseParameter, TLAPS

Holding == {"put", "writing", "stored"}
Connected == {"resolved", "served", "refused"}

(* The parameter's values are URLs, versions are numbers.                  *)
Typing ==
  /\ parameter \in Seq(Url)
  /\ version \in [Writer -> Nat]
  /\ DOMAIN writer = Writer
  /\ DOMAIN cached = Environment
  /\ DOMAIN request = Environment

(* The version an execution was answered is that of its own URL.           *)
VersionsNameUrls ==
  \A w \in Writer :
    writer[w] \in Holding =>
      version[w] \in DOMAIN parameter /\ parameter[version[w]] = UrlOf[w]

(* What the parameter says now is accepted by the cluster, and what is     *)
(* about to be put there too.                                              *)
CurrentAccepted ==
  /\ parameter # <<>> => parameter[Len(parameter)] \in issued
  /\ \A w \in Writer : writer[w] = "start" => UrlOf[w] \in issued

(* What an environment remembers was the parameter's once.                 *)
RememberedWasStored ==
  \A e \in Environment :
    cached[e] # NoUrl \/ request[e] \in Connected =>
      \E v \in DOMAIN parameter : cached[e] = parameter[v]

RefusedIsRevoked ==
  \A e \in Environment : request[e] = "refused" => cached[e] \notin issued

IInv ==
  /\ Typing
  /\ VersionsNameUrls
  /\ ReceiptNamesItsPut
  /\ CurrentAccepted
  /\ RememberedWasStored
  /\ RefusedIsRevoked

-----------------------------------------------------------------------------
(* Nothing is stored or remembered yet and every URL is accepted.          *)
LEMMA InvInit == Init => IInv
BY UrlOfAssumption
   DEF Init, IInv, Typing, VersionsNameUrls, ReceiptNamesItsPut, CurrentAccepted,
       RememberedWasStored, RefusedIsRevoked, Holding, Connected

(* A further version leaves the earlier ones what they were                *)
(* (PutParameter with Overwrite keeps the history).                        *)
LEMMA AppendedVersion ==
  ASSUME NEW w \in Writer, Typing, parameter' = Append(parameter, UrlOf[w])
  PROVE  /\ parameter' \in Seq(Url)
         /\ parameter' # <<>>
         /\ Len(parameter) + 1 \in DOMAIN parameter'
         /\ Len(parameter') = Len(parameter) + 1
         /\ parameter'[Len(parameter) + 1] = UrlOf[w]
         /\ DOMAIN parameter \subseteq DOMAIN parameter'
         /\ \A v \in DOMAIN parameter : parameter'[v] = parameter[v]
<1>1. UrlOf[w] \in Url
  BY UrlOfAssumption
<1> QED BY <1>1 DEF Typing

(* Storing a URL keeps the invariant, whether the answer arrives or not    *)
(* (put_aws_database_parameter.py:32-40).                                  *)
LEMMA StoringStep ==
  ASSUME IInv, NEW w \in Writer, Put(w) \/ PutUnanswered(w)
  PROVE  IInv'
<1> USE DEF IInv
<1>0. parameter' = Append(parameter, UrlOf[w]) /\ writer[w] = "start"
  BY DEF Put, PutUnanswered, Move
<1>a. /\ parameter' \in Seq(Url)
      /\ parameter' # <<>>
      /\ Len(parameter) + 1 \in DOMAIN parameter'
      /\ Len(parameter') = Len(parameter) + 1
      /\ parameter'[Len(parameter) + 1] = UrlOf[w]
      /\ DOMAIN parameter \subseteq DOMAIN parameter'
      /\ \A v \in DOMAIN parameter : parameter'[v] = parameter[v]
  BY <1>0, AppendedVersion
<1>b. UNCHANGED <<issued, receipt, cached, request>>
  BY DEF Put, PutUnanswered, UnchangedFunction
<1>c. /\ \A x \in Writer : x # w => writer'[x] = writer[x] /\ version'[x] = version[x]
      /\ \/ writer'[w] = "put" /\ version'[w] = Len(parameter) + 1
         \/ writer'[w] \in {"failed", "start"} /\ version'[w] = version[w]
      /\ DOMAIN writer' = Writer /\ version' \in [Writer -> Nat]
  BY <1>0 DEF Put, PutUnanswered, Move, Typing
<1>1. Typing'
  BY <1>a, <1>b, <1>c DEF Typing
<1>2. VersionsNameUrls'
  BY <1>0, <1>a, <1>c DEF VersionsNameUrls, Holding
<1>3. ReceiptNamesItsPut'
  <2> SUFFICES ASSUME receipt.state = "written"
               PROVE  ReceiptNamesItsPut'
    BY <1>b DEF ReceiptNamesItsPut
  <2>1. PICK x \in Writer : /\ writer[x] = "stored"
                            /\ version[x] = receipt.version
                            /\ receipt.version \in DOMAIN parameter
                            /\ parameter[receipt.version] = UrlOf[x]
    BY DEF ReceiptNamesItsPut
  <2> QED BY <1>0, <1>a, <1>b, <1>c, <2>1 DEF ReceiptNamesItsPut
<1>4. CurrentAccepted'
  BY <1>0, <1>a, <1>b, <1>c DEF CurrentAccepted
<1>5. RememberedWasStored'
  BY <1>a, <1>b DEF RememberedWasStored
<1>6. RefusedIsRevoked'
  BY <1>b DEF RefusedIsRevoked
<1> QED BY <1>1, <1>2, <1>3, <1>4, <1>5, <1>6

(* So does every other step of the script: it touches the receipt and its  *)
(* own place only (put_aws_database_parameter.py:41-60).                   *)
LEMMA ReceiptStep ==
  ASSUME IInv, NEW w \in Writer,
         PutFails(w) \/ OpenReceipt(w) \/ WriteReceipt(w) \/ WriterDies(w)
  PROVE  IInv'
<1> USE DEF IInv
<1>b. UNCHANGED <<parameter, issued, version, cached, request>>
  BY DEF PutFails, OpenReceipt, WriteReceipt, WriterDies, UnchangedFunction
<1>c. /\ \A x \in Writer : x # w => writer'[x] = writer[x]
      /\ writer[w] # "stored" /\ writer'[w] # "start"
      /\ writer'[w] \in Holding => writer[w] \in Holding
      /\ DOMAIN writer' = Writer
  BY DEF PutFails, OpenReceipt, WriteReceipt, WriterDies, Move, Typing, Holding
<1>1. Typing'
  BY <1>b, <1>c DEF Typing
<1>2. VersionsNameUrls'
  BY <1>b, <1>c DEF VersionsNameUrls
<1>3. ReceiptNamesItsPut'
  <2>1. CASE WriteReceipt(w)
    <3>1. /\ writer[w] = "writing" /\ writer'[w] = "stored"
          /\ receipt' = [state |-> "written", version |-> version[w]]
      BY <2>1 DEF WriteReceipt, Move, Typing
    <3>2. version[w] \in DOMAIN parameter /\ parameter[version[w]] = UrlOf[w]
      BY <3>1 DEF VersionsNameUrls, Holding
    <3> QED BY <1>b, <3>1, <3>2 DEF ReceiptNamesItsPut
  <2>2. CASE OpenReceipt(w)
    BY <2>2 DEF OpenReceipt, ReceiptNamesItsPut
  <2>3. CASE PutFails(w) \/ WriterDies(w)
    <3>1. receipt' = receipt
      BY <2>3 DEF PutFails, WriterDies
    <3> QED BY <1>b, <1>c, <3>1 DEF ReceiptNamesItsPut
  <2> QED BY <2>1, <2>2, <2>3
<1>4. CurrentAccepted'
  BY <1>b, <1>c DEF CurrentAccepted
<1>5. RememberedWasStored'
  BY <1>b DEF RememberedWasStored
<1>6. RefusedIsRevoked'
  BY <1>b DEF RefusedIsRevoked
<1> QED BY <1>1, <1>2, <1>3, <1>4, <1>5, <1>6

(* A request remembers what the parameter says, or nothing new             *)
(* (aws_config.py:10-38).                                                  *)
LEMMA RequestStep ==
  ASSUME IInv, NEW e \in Environment, EnvironmentStep(e)
  PROVE  IInv'
<1> USE DEF IInv
<1>b. UNCHANGED <<parameter, issued, writer, version, receipt>>
  BY DEF EnvironmentStep, Resolve, ResolveFails, Connect, Recycle
<1>1. Typing'
  BY <1>b DEF Typing, EnvironmentStep, Resolve, ResolveFails, Connect, Recycle
<1>2. VersionsNameUrls'
  BY <1>b DEF VersionsNameUrls
<1>3. ReceiptNamesItsPut'
  BY <1>b DEF ReceiptNamesItsPut
<1>4. CurrentAccepted'
  BY <1>b DEF CurrentAccepted
<1>c. \A d \in Environment : d # e => cached'[d] = cached[d] /\ request'[d] = request[d]
  BY DEF Typing, EnvironmentStep, Resolve, ResolveFails, Connect, Recycle
<1>5. RememberedWasStored'
  <2>1. CASE Resolve(e)
    <3>1. parameter # <<>> => Len(parameter) \in DOMAIN parameter
      BY DEF Typing
    <3> QED BY <1>b, <1>c, <2>1, <3>1 DEF RememberedWasStored, Resolve, Typing, Connected
  <2>2. CASE ResolveFails(e)
    BY <1>b, <1>c, <2>2 DEF RememberedWasStored, ResolveFails, Typing, Connected
  <2>3. CASE Connect(e)
    BY <1>b, <1>c, <2>3 DEF RememberedWasStored, Connect, Typing, Connected
  <2>4. CASE Recycle(e)
    BY <1>b, <1>c, <2>4 DEF RememberedWasStored, Recycle, Typing, Connected
  <2> QED BY <2>1, <2>2, <2>3, <2>4 DEF EnvironmentStep
<1>6. RefusedIsRevoked'
  BY <1>b, <1>c DEF RefusedIsRevoked, Typing, EnvironmentStep, Resolve, ResolveFails, Connect, Recycle
<1> QED BY <1>1, <1>2, <1>3, <1>4, <1>5, <1>6

(* A URL is revoked only once nobody needs it for the parameter.           *)
LEMMA RevokeStep ==
  ASSUME IInv, NEW u \in Url, Revoke(u)
  PROVE  IInv'
<1> USE DEF IInv, Revoke, UnchangedFunction
<1>1. Typing'
  BY DEF Typing
<1>2. VersionsNameUrls'
  BY DEF VersionsNameUrls
<1>3. ReceiptNamesItsPut'
  BY DEF ReceiptNamesItsPut
<1>4. CurrentAccepted'
  BY DEF CurrentAccepted
<1>5. RememberedWasStored'
  BY DEF RememberedWasStored
<1>6. RefusedIsRevoked'
  BY DEF RefusedIsRevoked
<1> QED BY <1>1, <1>2, <1>3, <1>4, <1>5, <1>6

(* A step that changes nothing.                                            *)
LEMMA Stutter ==
  ASSUME IInv, UNCHANGED vars
  PROVE  IInv'
BY DEF vars, IInv, Typing, VersionsNameUrls, ReceiptNamesItsPut, CurrentAccepted,
       RememberedWasStored, RefusedIsRevoked

(* Every step of the script, the function and the operator keeps IInv.     *)
LEMMA InvStep == IInv /\ [Next]_vars => IInv'
BY StoringStep, ReceiptStep, RequestStep, RevokeStep, Stutter DEF Next, WriterStep

(* IInv holds of every reachable state.                                    *)
LEMMA InvAlways == Spec => []IInv
<1> QED BY InvInit, InvStep, PTL DEF Spec

(* ReceiptNamesItsPut: a receipt is about the URL its writer stored,       *)
(* however many executions overlap (put_aws_database_parameter.py:32-59).  *)
THEOREM ReceiptsNameTheirPut == Spec => []ReceiptNamesItsPut
<1>1. IInv => ReceiptNamesItsPut
  BY DEF IInv
<1> QED BY <1>1, InvAlways, PTL

(* RefusedIsOvertaken: an environment is refused only for a URL that has   *)
(* been overtaken (aws_config.py:10-38, lambda_handler.py:29-31).          *)
THEOREM RefusedWasOvertaken == Spec => []RefusedIsOvertaken
<1>1. IInv => RefusedIsOvertaken
  <2> SUFFICES ASSUME IInv, NEW e \in Environment, request[e] = "refused"
               PROVE  \E v \in 1..(Len(parameter) - 1) :
                        cached[e] = parameter[v] /\ cached[e] # parameter[Len(parameter)]
    BY DEF RefusedIsOvertaken
  <2>1. PICK v \in DOMAIN parameter : cached[e] = parameter[v]
    BY DEF IInv, RememberedWasStored, Connected
  <2>2. parameter \in Seq(Url) /\ parameter # <<>> /\ v \in 1..Len(parameter)
    BY <2>1 DEF IInv, Typing
  <2>3. parameter[Len(parameter)] \in issued /\ cached[e] \notin issued
    BY <2>2 DEF IInv, CurrentAccepted, RefusedIsRevoked
  <2>4. v # Len(parameter) /\ cached[e] # parameter[Len(parameter)]
    BY <2>1, <2>3
  <2>5. v \in 1..(Len(parameter) - 1)
    BY <2>2, <2>4
  <2> QED BY <2>1, <2>4, <2>5
<1> QED BY <1>1, InvAlways, PTL
===============================================================================
