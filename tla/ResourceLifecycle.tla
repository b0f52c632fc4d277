------------------------- MODULE ResourceLifecycle -------------------------
(***************************************************************************)
(* The CRUD methods that the resources of internal/provider share: Create  *)
(* writes, reads back and sets the state; Read refreshes or removes;       *)
(* Update writes and reads back; Delete removes; ImportState adopts.  They *)
(* differ as ResourceFamilies says, and the lines named for an action here *)
(* are those of policy_resource.go.                                        *)
(*                                                                         *)
(* Each request reaches the service at some moment, or never, and its      *)
(* answer arrives, or not (CallContract): a write whose answer was given   *)
(* up may still act.  Other administrators change and remove objects.  A   *)
(* method may be cut off at any point by the end of the process.           *)
(*                                                                         *)
(* A 404 need not be about the object: one of the token endpoint passes    *)
(* through every call, and the methods take it for the object's absence.   *)
(* An answer may leave attributes out: always those the object has unset,  *)
(* and others if Omissions says so.                                        *)
(*                                                                         *)
(* Terraform runs one method at a time per resource, gives Update the      *)
(* state and the plan, keeps the old state when a method ends with a       *)
(* diagnostic and without setting it, and compares what a method set with  *)
(* the plan.  It stores no write-only value: only the version trigger.     *)
(***************************************************************************)
EXTENDS ResourceFamilies

CONSTANTS
  Resources,  \* resource instances of one family
  Keys,       \* names objects can have on the service
  Fields,     \* attributes of an object; "status" is one of them or not
  Values,     \* what an attribute can be set to
  Unset,      \* an optional attribute that is not set, a member of Values
  Versions,   \* version triggers of a write-only attribute, only compared
  Families,   \* the families to choose from
  Omissions,  \* {FALSE}, or BOOLEAN if answers may leave out what is set
  Absent, NoKey

ASSUME LifecycleAssumption ==
  /\ Families \subseteq Family
  /\ Keys # {}
  /\ Unset \in Values
  /\ 0 \notin Versions
  /\ Omissions \subseteq BOOLEAN
  /\ NoKey \notin Keys

\* Every object with a secret has a name that the service gave.
ASSUME SecretsAssumption ==
  \A f \in Families : f.secret # "no" => f.key = "assigned"

VARIABLES
  family,     \* the family of the instances
  server,     \* server[k]: the object of that name on the service
  used,       \* names that were ever given to an object
  late,       \* late[r]: a write of r's that was given up and may still act
  method,     \* method[r]: the CRUD method that runs for r
  call,       \* call[r]: the client call it is in
  reply,      \* reply[r]: how that call was answered, "none" if not yet
  target,     \* target[r]: the name of the object the method is about
  request,    \* request[r]: the write the method sends
  plan,       \* plan[r]: the planned attributes of Create and Update
  seen,       \* seen[r]: the object as the last get returned it
  stored,     \* stored[r]: the Terraform state of r
  \* history
  made,       \* objects there that this configuration created or imported
  reported,   \* names of those a method left behind with a diagnostic
  dropped,    \* those a resource left on a 404 that was not about them
  unsettled,  \* unsettled[k]: secrets of updates that ended with a diagnostic,
              \* and those the object had when a resource left it on such a 404
  calm        \* calm[r]: r was refreshed or is new, and nobody else acted since

serverVars  == <<family, server, used, late>>
callVars    == <<method, call, reply, target, request, plan, seen>>
historyVars == <<made, reported, dropped, unsettled, calm>>
vars        == <<serverVars, callVars, stored, historyVars>>

NoSecret == 0
Secrets  == Versions \union {NoSecret}

\* The secret of version v is v: whoever changes it changes the version.
Object == [fields: [Fields -> Values], secret: Secrets]
Plan   == [fields: [Fields -> Values], version: Secrets, secret: Secrets]
\* unread is history: the attributes the answer behind the state did not tell.
State  == [key: Keys, fields: [Fields -> Values], unread: SUBSET Fields,
           version: Secrets, extra: {"value", "null", "unknown"}]
\* An answer has the attributes in shown; omitted is about computed ones.
Seen   == [fields: [Fields -> Values], shown: SUBSET Fields, omitted: BOOLEAN]

SubFunctions == UNION {[F -> Values] : F \in SUBSET Fields}
Write == [op: {"create", "update", "delete"}, fields: SubFunctions,
          secret: Secrets, old: Secrets]
Late == [key: Keys \union {NoKey}, write: Write]

ASSUME AbsentAssumption ==
  Absent \notin Object \union Plan \union State \union Seen \union Write \union Late

TypeOK ==
  /\ family \in Families
  /\ server \in [Keys -> Object \union {Absent}]
  /\ used \subseteq Keys
  /\ late \in [Resources -> Late \union {Absent}]
  /\ method \in [Resources ->
                   {"none", "Create", "Read", "Update", "Delete", "Import"}]
  /\ call \in [Resources -> {"none", "write", "follow", "get", "details"}]
  /\ reply \in [Resources -> {"none", "ok", "missing", "notoken", "error"}]
  /\ target \in [Resources -> Keys \union {NoKey}]
  /\ request \in [Resources -> Write \union {Absent}]
  /\ plan \in [Resources -> Plan \union {Absent}]
  /\ seen \in [Resources -> Seen \union {Absent}]
  /\ stored \in [Resources -> State \union {Absent}]
  /\ made \subseteq Keys
  /\ reported \subseteq Keys
  /\ dropped \subseteq Keys
  /\ unsettled \in [Keys -> SUBSET Secrets]
  /\ calm \in [Resources -> BOOLEAN]

Init ==
  /\ family \in Families
  /\ server = [k \in Keys |-> Absent]
  /\ used \in IF family.key = "singleton" THEN {{k} : k \in Keys} ELSE {{}}
  /\ late = [r \in Resources |-> Absent]
  /\ method = [r \in Resources |-> "none"]
  /\ call = [r \in Resources |-> "none"]
  /\ reply = [r \in Resources |-> "none"]
  /\ target = [r \in Resources |-> NoKey]
  /\ request = [r \in Resources |-> Absent]
  /\ plan = [r \in Resources |-> Absent]
  /\ seen = [r \in Resources |-> Absent]
  /\ stored = [r \in Resources |-> Absent]
  /\ made = {}
  /\ reported = {}
  /\ dropped = {}
  /\ unsettled = [k \in Keys |-> {}]
  /\ calm = [r \in Resources |-> FALSE]

-----------------------------------------------------------------------------
(* What the provider sends                                                 *)

Managed(r) == stored[r] # Absent

\* Create sends every attribute, but for the activity status.
CreateFields(p) ==
  IF family.update = "status"
  THEN [f \in Fields \ {"status"} |-> p.fields[f]] ELSE p.fields

\* Whatever secret is configured is sent.
CreateSecretOK(p) == family.secret \in {"required", "rotated"} => p.secret # NoSecret

\* (bug) An attribute that is unset counts as unchanged.
DifferingIfSet(p, s) ==
  {f \in Fields : p.fields[f] \notin {s.fields[f], Unset}}

\* changedDirectoryString and its like
Differing(p, s) == {f \in Fields : p.fields[f] # s.fields[f]}

UpdateFields(p, s) ==
  CASE family.update = "replace" -> p.fields
    [] family.update = "patch" ->
         [f \in {g \in Fields : p.fields[g] # Unset} |-> p.fields[f]]
    [] family.update = "diff" -> [f \in Differing(p, s) |-> p.fields[f]]
    [] family.update = "status" -> [f \in Fields \cap {"status"} |-> p.fields[f]]

\* (bug) A trigger that appears counts as unchanged.
VersionChangedLate(p, s) ==
  p.version # 0 /\ s.version # 0 /\ p.version # s.version

\* writeOnlyVersionChanged, directoryVersionChanged
VersionChanged(p, s) == p.version # 0 /\ p.version # s.version

\* An update may enable what the secret authenticates, or switch to it.
Enables == IF family.secret = "enabled" THEN BOOLEAN ELSE {FALSE}

SendsSecret(p, s, enables) ==
  family.secret = "rotated" \/ enables \/ VersionChanged(p, s)

\* The secret a rotation replaces, as configured, or the new one again.
Olds(p) == IF family.secret = "rotated" THEN Versions ELSE {NoSecret}

-----------------------------------------------------------------------------
(* A method and its calls                                                  *)

\* The method goes on to another call.
Ask(r, c) ==
  /\ call' = [call EXCEPT ![r] = c]
  /\ reply' = [reply EXCEPT ![r] = "none"]

Begin(r, m, c, k, p, w) ==
  /\ method[r] = "none"
  /\ method' = [method EXCEPT ![r] = m]
  /\ Ask(r, c)
  /\ target' = [target EXCEPT ![r] = k]
  /\ plan' = [plan EXCEPT ![r] = p]
  /\ request' = [request EXCEPT ![r] = w]
  /\ UNCHANGED <<serverVars, seen, stored, made, reported, dropped, unsettled>>

End(r) ==
  /\ method' = [method EXCEPT ![r] = "none"]
  /\ call' = [call EXCEPT ![r] = "none"]
  /\ reply' = [reply EXCEPT ![r] = "none"]
  /\ target' = [target EXCEPT ![r] = NoKey]
  /\ plan' = [plan EXCEPT ![r] = Absent]
  /\ request' = [request EXCEPT ![r] = Absent]
  /\ seen' = [seen EXCEPT ![r] = Absent]

Answered(r, c, replies) == call[r] = c /\ reply[r] \in replies

\* IsNotFound: any 404, that of the token endpoint too.
NotFound == {"missing", "notoken"}

Writing(r) == method[r] \in {"Create", "Update"}

\* A diagnostic, and the state stays as it was.
Report(r) ==
  /\ reported' = IF method[r] = "Create"
                 THEN reported \union ({target[r]} \ {NoKey}) ELSE reported
  /\ unsettled' = IF method[r] = "Update" /\ request[r].secret # NoSecret
                  THEN [unsettled EXCEPT ![target[r]] = @ \union {request[r].secret}]
                  ELSE unsettled
  /\ calm' = [calm EXCEPT ![r] = FALSE]
  /\ UNCHANGED <<stored, made, dropped>>

\* The answer, or the details that are missing, leaves an attribute out.
Omitted(r) ==
  IF call[r] = "details" THEN reply[r] # "ok"
  ELSE seen[r].omitted

\* What fromAPI leaves of a computed attribute in a state where it was before.
Extra(r, before) ==
  IF ~Omitted(r) THEN "value" ELSE IF family.settles THEN "null" ELSE before

\* The model fromAPI fills in: the plan's, the state's, or an empty one.
Before(r) ==
  IF Writing(r) THEN plan[r].fields
  ELSE IF Managed(r) THEN stored[r].fields ELSE [f \in Fields |-> Unset]

\* (bug) What an answer leaves out is taken for unset.
ModelNulled(r) ==
  [f \in Fields |-> IF f \in seen[r].shown THEN seen[r].fields[f] ELSE Unset]

\* What fromAPI makes of the attributes.
Model(r) ==
  [f \in Fields |->
     IF f \in seen[r].shown THEN seen[r].fields[f]
     ELSE IF family.keeps THEN Before(r)[f] ELSE Unset]

\* The answer leaves it open what the object has there: what was planned or
\* stored stays, or what is set becomes null.
Unread(r) ==
  {f \in Fields \ seen[r].shown : family.keeps \/ seen[r].fields[f] # Unset}

\* The state has the object k: nobody has lost sight of it.
Finds(k) ==
  /\ reported' = reported \ {k}
  /\ dropped' = dropped \ {k}

\* (bug) The state keeps the name of the plan, where a new object has none.
SetStateUnnamed(r, version, before) ==
  /\ stored' = [stored EXCEPT ![r] =
       [key |-> IF Managed(r) THEN stored[r].key ELSE NoKey,
        fields |-> Model(r), unread |-> Unread(r), version |-> version,
        extra |-> Extra(r, before)]]
  /\ Finds(target[r])

SetState(r, version, before) ==
  /\ stored' = [stored EXCEPT ![r] =
       [key |-> target[r], fields |-> Model(r), unread |-> Unread(r),
        version |-> version, extra |-> Extra(r, before)]]
  /\ Finds(target[r])

\* (bug) The state is what was planned.
SetPlannedState(r) ==
  /\ stored' = [stored EXCEPT ![r] =
       [key |-> target[r], fields |-> plan[r].fields, unread |-> Unread(r),
        version |-> plan[r].version, extra |-> "value"]]
  /\ Finds(target[r])

\* Plans have computed attributes unknown (not all keep those of the state).
SetWrittenState(r) == SetState(r, plan[r].version, "unknown")

\* What a Read or an import sets: the version trigger stays, or is not known.
\* Terraform turns what is unknown after an apply into null.
SetReadState(r) ==
  IF Managed(r)
  THEN SetState(r, stored[r].version,
                IF stored[r].extra = "value" THEN "value" ELSE "null")
  ELSE SetState(r, 0, "null")

\* resp.State.RemoveResource, or a Delete without a diagnostic
Forget(r) ==
  /\ stored' = [stored EXCEPT ![r] = Absent]
  /\ dropped' = IF reply[r] = "notoken"
                THEN dropped \union ({stored[r].key} \intersect made)
                ELSE dropped
  /\ unsettled' =
       IF /\ reply[r] = "notoken" /\ family.secret # "no"
          /\ server[stored[r].key] # Absent
       THEN [unsettled EXCEPT ![stored[r].key] =
               @ \union {server[stored[r].key].secret}]
       ELSE unsettled

-----------------------------------------------------------------------------
(* Create                                                                  *)

\* The names Create can ask for.  That of a singleton is given from the start.
CreateKeys ==
  CASE family.key = "assigned"  -> {NoKey}
    [] family.key = "natural"   -> Keys
    [] family.key = "singleton" -> used

PlanOK(p) ==
  /\ family.secret = "no" => p.version = 0 /\ p.secret = NoSecret
  /\ p.version # 0 => p.secret \in {NoSecret, p.version}

CreateStart(r) ==
  /\ ~Managed(r)
  /\ \E p \in Plan, k \in CreateKeys :
        /\ PlanOK(p) /\ CreateSecretOK(p)
        /\ Begin(r, "Create", "write", k, p,
                 [op |-> "create", fields |-> CreateFields(p),
                  secret |-> p.secret, old |-> NoSecret])
  /\ calm' = [calm EXCEPT ![r] = TRUE]

\* Create and Update: an answered write is read back.
ReadsBack(r) ==
  /\ Writing(r)
  /\ Answered(r, "write", {"ok"}) \/ Answered(r, "follow", {"ok"})
  /\ Ask(r, "get")
  /\ UNCHANGED <<serverVars, method, target, request, plan, seen, stored,
                 historyVars>>

\* The created domain does not have the activity status that is configured.
NeedsFollowUp(r) ==
  /\ family.update = "status" /\ request[r].op = "create"
  /\ \E f \in Fields \cap {"status"} :
        /\ plan[r].fields[f] # Unset
        /\ f \in seen[r].shown => plan[r].fields[f] # seen[r].fields[f]

FollowsUp(r) ==
  /\ method[r] = "Create" /\ Answered(r, "get", {"ok"}) /\ NeedsFollowUp(r)
  /\ request' = [request EXCEPT ![r] =
       [op |-> "update", fields |-> [f \in {"status"} |-> plan[r].fields[f]],
        secret |-> NoSecret, old |-> NoSecret]]
  /\ Ask(r, "follow")
  /\ UNCHANGED <<serverVars, method, target, plan, seen, stored, historyVars>>

\* The object was read back: what is left is to ask for details, or to end.
HasReadBack(r) ==
  /\ Writing(r) /\ Answered(r, "get", {"ok"}) /\ ~NeedsFollowUp(r)

AsksDetails(r) ==
  /\ \/ HasReadBack(r)
     \/ method[r] \in {"Read", "Import"} /\ Answered(r, "get", {"ok"})
  /\ family.details # "none"
  /\ Ask(r, "details")
  /\ UNCHANGED <<serverVars, method, target, request, plan, seen, stored,
                 historyVars>>

\* Details that are missing are left out of the state.
WriteEnds(r) ==
  /\ Writing(r)
  /\ \/ HasReadBack(r) /\ family.details = "none"
     \/ Answered(r, "details", {"ok", "missing"})
     \/ Answered(r, "details", {"error"}) /\ family.details = "lax"
  /\ SetWrittenState(r)
  /\ End(r)
  /\ UNCHANGED <<serverVars, made, unsettled, calm>>

WriteFails(r) ==
  /\ Writing(r)
  /\ \/ \E c \in {"write", "follow", "get"} : Answered(r, c, NotFound \union {"error"})
     \/ Answered(r, "details", {"error"}) /\ family.details = "strict"
  /\ Report(r)
  /\ End(r)
  /\ UNCHANGED serverVars

-----------------------------------------------------------------------------
(* Read, ImportState, Update and Delete                                    *)

ReadStart(r) ==
  /\ Managed(r)
  /\ Begin(r, "Read", "get", stored[r].key, Absent, Absent)
  /\ UNCHANGED calm

ImportStart(r) ==
  /\ ~Managed(r)
  /\ \E k \in (IF family.key = "singleton" THEN CreateKeys ELSE Keys) :
        Begin(r, "Import", "get", k, Absent, Absent)
  /\ UNCHANGED calm

Reading(r) == method[r] \in {"Read", "Import"}

ReadEnds(r) ==
  /\ Reading(r)
  /\ \/ Answered(r, "get", {"ok"}) /\ family.details = "none"
     \/ Answered(r, "details", {"ok", "missing"})
  /\ SetReadState(r)
  /\ made' = IF server[target[r]] # Absent THEN made \union {target[r]} ELSE made
  /\ End(r)
  /\ UNCHANGED <<serverVars, unsettled, calm>>

\* (bug) Any failure counts as absence.
ReadRemovesOnError(r) ==
  /\ method[r] = "Read" /\ family.vanish
  /\ Answered(r, "get", NotFound \union {"error"})
  /\ Forget(r)
  /\ End(r)
  /\ UNCHANGED <<serverVars, made, reported, calm>>

ReadRemoves(r) ==
  /\ method[r] = "Read" /\ family.vanish
  /\ Answered(r, "get", NotFound)
  /\ Forget(r)
  /\ End(r)
  /\ UNCHANGED <<serverVars, made, reported, calm>>

ReadFails(r) ==
  /\ Reading(r)
  /\ \/ Answered(r, "get", {"error"}) \/ Answered(r, "details", {"error"})
     \/ /\ Answered(r, "get", NotFound)
        /\ method[r] = "Import" \/ ~family.vanish
  /\ calm' = [calm EXCEPT ![r] = FALSE]
  /\ End(r)
  /\ UNCHANGED <<serverVars, stored, made, reported, dropped, unsettled>>

\* Terraform calls Update when the plan differs and need not replace.
UpdateStart(r) ==
  /\ Managed(r) /\ family.update # "none"
  /\ \E p \in Plan, old \in Secrets, enables \in Enables :
        LET s == stored[r]  sends == SendsSecret(p, s, enables) IN
        /\ PlanOK(p) /\ (sends => p.secret # NoSecret)
        /\ p.fields # s.fields \/ p.version # s.version \/ enables
        /\ family.update = "status" =>
             \A f \in Differing(p, s) : f = "status" /\ p.fields[f] # Unset
        /\ family.secret = "rotated" => p.fields = s.fields
        /\ old \in Olds(p)
        /\ Begin(r, "Update", "write", s.key, p,
                 [op |-> "update", fields |-> UpdateFields(p, s),
                  secret |-> IF sends THEN p.secret ELSE NoSecret,
                  old |-> old])
  /\ UNCHANGED calm

DeleteStart(r) ==
  /\ Managed(r)
  /\ Begin(r, "Delete", "write", stored[r].key, Absent,
           [op |-> "delete", fields |-> <<>>, secret |-> NoSecret,
            old |-> NoSecret])
  /\ UNCHANGED calm

\* (bug) Delete forgets the object although it failed.
DeleteForgetsAnyway(r) ==
  /\ method[r] = "Delete" /\ Answered(r, "write", {"ok", "error"} \union NotFound)
  /\ Forget(r)
  /\ End(r)
  /\ UNCHANGED <<serverVars, made, reported, calm>>

DeleteEnds(r) ==
  /\ method[r] = "Delete"
  /\ \/ Answered(r, "write", {"ok"})
     \/ Answered(r, "write", NotFound) /\ family.gone
  /\ Forget(r)
  /\ End(r)
  /\ UNCHANGED <<serverVars, made, reported, calm>>

DeleteFails(r) ==
  /\ method[r] = "Delete"
  /\ \/ Answered(r, "write", {"error"})
     \/ Answered(r, "write", NotFound) /\ ~family.gone
  /\ calm' = [calm EXCEPT ![r] = FALSE]
  /\ End(r)
  /\ UNCHANGED <<serverVars, stored, made, reported, dropped, unsettled>>

-----------------------------------------------------------------------------
(* The service and the world                                               *)

\* Everybody else's picture of the service is out of date from here on.
OthersSee(r) == calm' = [q \in Resources |-> q = r /\ calm[q]]

Overlay(new, old) ==
  [f \in Fields |-> IF f \in DOMAIN new THEN new[f] ELSE old[f]]

\* The service does what a write for the name k says.  An attribute that a
\* created object was not given is the service's to choose.
Acts(k, w) ==
  \/ /\ w.op = "create"
     /\ \E given \in [Fields -> Values] :
           server' = [server EXCEPT ![k] =
                        [fields |-> Overlay(w.fields, given), secret |-> w.secret]]
     /\ used' = used \union {k}
     /\ made' = made \union {k}
     /\ dropped' = dropped \ {k}
  \/ /\ w.op = "update" /\ server[k] # Absent
     /\ family.secret = "rotated" => w.old = server[k].secret
     /\ server' = [server EXCEPT ![k] =
          [fields |-> Overlay(w.fields, @.fields),
           secret |-> IF w.secret = NoSecret THEN @.secret ELSE w.secret]]
     /\ UNCHANGED <<used, made, dropped>>
  \/ /\ w.op = "delete" /\ server[k] # Absent
     /\ server' = [server EXCEPT ![k] = Absent]
     /\ made' = made \ {k}
     /\ dropped' = dropped \ {k}
     /\ UNCHANGED used

\* The names a write can be about: a created object gets a new one.
KeysOf(k, w) ==
  IF w.op = "create" /\ family.key = "assigned" THEN Keys \ used ELSE {k}

ServiceWrites(r) ==
  /\ call[r] \in {"write", "follow"} /\ reply[r] = "none"
  /\ \E k \in KeysOf(target[r], request[r]) :
        /\ Acts(k, request[r])
        /\ target' = [target EXCEPT ![r] = k]
  /\ reply' = [reply EXCEPT ![r] = "ok"]
  /\ OthersSee(r)
  /\ UNCHANGED <<family, late, method, call, request, plan, seen, stored,
                 reported, unsettled>>

\* 404
ServiceMisses(r) ==
  /\ call[r] \in {"write", "follow", "get"} /\ reply[r] = "none"
  /\ call[r] \in {"write", "follow"} => request[r].op # "create"
  /\ server[target[r]] = Absent
  /\ reply' = [reply EXCEPT ![r] = "missing"]
  /\ UNCHANGED <<serverVars, method, call, target, request, plan, seen, stored,
                 historyVars>>

\* A refusal, or an answer that never comes: a write may act later.
GiveUp(r) ==
  late' = IF call[r] \in {"write", "follow"} /\ reply[r] = "none"
          THEN [late EXCEPT ![r] = [key |-> target[r], write |-> request[r]]]
          ELSE late

\* 404 of the token endpoint, before the request was sent, or before it was sent
\* again.  (Create, Update and ImportState take it for any other failure.)
TokenMisses(r) ==
  /\ method[r] \in {"Read", "Delete"}
  /\ call[r] \in {"write", "get"} /\ reply[r] = "none"
  /\ GiveUp(r)
  /\ reply' = [reply EXCEPT ![r] = "notoken"]
  /\ UNCHANGED <<family, server, used, method, call, target, request, plan,
                 seen, stored, historyVars>>

SetFields(k) == {f \in Fields : server[k].fields[f] # Unset}

\* An answer leaves out what is unset, and may leave out more.
ServiceReads(r) ==
  /\ call[r] = "get" /\ reply[r] = "none"
  /\ server[target[r]] # Absent
  /\ \E o \in Omissions, S \in SUBSET SetFields(target[r]) :
        /\ o \/ S = SetFields(target[r])
        /\ seen' = [seen EXCEPT ![r] =
             [fields |-> server[target[r]].fields, shown |-> S, omitted |-> o]]
  /\ reply' = [reply EXCEPT ![r] = "ok"]
  /\ calm' = [calm EXCEPT ![r] = @ \/ Reading(r)]
  /\ UNCHANGED <<serverVars, method, call, target, request, plan, stored,
                 made, reported, dropped, unsettled>>

ServiceDetails(r) ==
  /\ call[r] = "details" /\ reply[r] = "none"
  /\ \E answer \in {"ok", "missing"} : reply' = [reply EXCEPT ![r] = answer]
  /\ UNCHANGED <<serverVars, method, call, target, request, plan, seen, stored,
                 historyVars>>

AnswerLost(r) ==
  /\ method[r] # "none" /\ reply[r] # "error"
  /\ GiveUp(r)
  /\ reply' = [reply EXCEPT ![r] = "error"]
  /\ UNCHANGED <<family, server, used, method, call, target, request, plan,
                 seen, stored, historyVars>>

\* The process ends, and Terraform reports the method that was cut off.
CutOff(r) ==
  /\ method[r] # "none"
  /\ GiveUp(r)
  /\ Report(r)
  /\ End(r)
  /\ UNCHANGED <<family, server, used>>

LateActs(r) ==
  /\ late[r] # Absent
  /\ \E k \in KeysOf(late[r].key, late[r].write) :
        /\ Acts(k, late[r].write)
        /\ reported' = IF late[r].write.op = "create"
                       THEN reported \union {k} ELSE reported
  /\ late' = [late EXCEPT ![r] = Absent]
  /\ calm' = [q \in Resources |-> FALSE]
  /\ UNCHANGED <<family, callVars, stored, unsettled>>

\* Other administrators leave the secrets alone.
Elsewhere ==
  /\ \E k \in Keys :
        \/ /\ server[k] # Absent
           /\ \E given \in [Fields -> Values] :
                 server' = [server EXCEPT ![k].fields = given]
           /\ UNCHANGED <<used, made, dropped>>
        \/ /\ server[k] # Absent
           /\ server' = [server EXCEPT ![k] = Absent]
           /\ made' = made \ {k}
           /\ dropped' = dropped \ {k}
           /\ UNCHANGED used
        \/ /\ server[k] = Absent /\ (family.key = "assigned" => k \notin used)
           /\ family.key = "singleton" => k \in used
           /\ \E given \in [Fields -> Values] :
                 server' = [server EXCEPT ![k] =
                              [fields |-> given, secret |-> NoSecret]]
           /\ used' = used \union {k}
           /\ UNCHANGED <<made, dropped>>
  /\ calm' = [q \in Resources |-> FALSE]
  /\ UNCHANGED <<family, late, callVars, stored, reported, unsettled>>

Method(r) ==
  \/ CreateStart(r) \/ ReadStart(r) \/ ImportStart(r)
  \/ UpdateStart(r) \/ DeleteStart(r)
  \/ ReadsBack(r) \/ FollowsUp(r) \/ AsksDetails(r)
  \/ WriteEnds(r) \/ WriteFails(r)
  \/ ReadEnds(r) \/ ReadRemoves(r) \/ ReadFails(r)
  \/ DeleteEnds(r) \/ DeleteFails(r)

Service(r) ==
  \/ ServiceWrites(r) \/ ServiceMisses(r) \/ TokenMisses(r) \/ ServiceReads(r)
  \/ ServiceDetails(r) \/ AnswerLost(r) \/ CutOff(r) \/ LateActs(r)

Next == (\E r \in Resources : Method(r) \/ Service(r)) \/ Elsewhere

Spec == Init /\ [][Next]_vars

-----------------------------------------------------------------------------
(* Properties                                                              *)

\* No object is lost without a word, but for one case: what the configuration
\* created or imported, and is still there, is in the state of a resource, or
\* in the hands of a method, or a method that failed to put it into the state
\* (or was cut off) said so.  The case is a resource that left it on a 404 of
\* the token endpoint: its Read or Delete says nothing.
NoSilentOrphan ==
  \A k \in made :
     \/ k \in reported \/ k \in dropped
     \/ \E r \in Resources :
           \/ Managed(r) /\ stored[r].key = k
           \/ method[r] # "none" /\ target[r] = k

\* A resource leaves the state only when its object is gone, or on a 404 of
\* the token endpoint.  A name that can be taken again may have a new object
\* by then.
LeavesOnlyWhenGone ==
  [][family.key = "assigned" =>
       \A r \in Resources :
          Managed(r) /\ stored'[r] = Absent
          => server[stored[r].key] = Absent \/ reply[r] = "notoken"]_vars

\* Resources "remove state only for a confirmed not-found response"
\* (CONTRIBUTING.md:58).  Because of that 404 they do not: an object that the
\* configuration created or imported is there, and a resource has left it.
RemovesOnlyIfConfirmed == \A k \in made : k \notin dropped

\* The methods, towards Terraform, behave as StateContract says: a name the
\* service gives stands for one object, and a Create is about the object it
\* asked for or was given.
presentKeys == {k \in Keys : server[k] # Absent}
keptKey     == [r \in Resources |-> IF Managed(r) THEN stored[r].key ELSE NoKey]
pendingKey  == [r \in Resources |->
                  IF method[r] = "Create" THEN target[r] ELSE NoKey]

Contract ==
  INSTANCE StateContract WITH
    Instances <- Resources, Names <- Keys, None <- NoKey,
    renewable <- family.key # "assigned", present <- presentKeys,
    given <- used, kept <- keptKey, pending <- pendingKey,
    ours <- made, told <- reported, misled <- dropped

ImplementsStateContract == Contract!Spec

\* What an Update that compares with the state cannot tell to differ: the state
\* need not have what the object has.
Unsure(r) ==
  IF method[r] = "Update" /\ family.update \in {"diff", "status"}
  THEN stored[r].unread ELSE {}

\* What the plan demands of the object.  A PATCH cannot unset what it leaves
\* out, and an activity status that is not configured is the service's to choose.
Due(r) ==
  {f \in Fields \ Unsure(r) :
     \/ plan[r].fields[f] # Unset
     \/ family.update \notin {"patch", "status"}
     \/ family.update = "patch" /\ method[r] = "Create"}

\* One apply is enough: a Create, or an Update planned on a refreshed state,
\* that nobody else interferes with finds the object as planned when it reads
\* it back, although an Update sends only what changed against the state, a
\* Create cannot send everything, and earlier applies may have ended anywhere.
RefreshedApplyConverges ==
  \A r \in Resources :
     HasReadBack(r) /\ calm[r]
     => \A f \in Due(r) : seen[r].fields[f] = plan[r].fields[f]

\* As long as nobody else acts after a method ended without a diagnostic, the
\* state shows the object as it is, in every attribute the last answer told.
\* (Where it left one out, many families keep what was planned, although the
\* methods "read after create and update instead of copying planned values to
\* state", CONTRIBUTING.md:57.)
StateTrueWhenCalm ==
  \A r \in Resources :
     Managed(r) /\ method[r] = "none" /\ calm[r]
     => /\ server[stored[r].key] # Absent
        /\ \A f \in Fields \ stored[r].unread :
              stored[r].fields[f] = server[stored[r].key].fields[f]

\* Secrets in the hands of an Update for the object k.
InFlight(k) ==
  {request[r].secret : r \in {q \in Resources : method[q] = "Update" /\ target[q] = k}}

\* The only resource that has the object k in its state is r.
Alone(r, k) == \A q \in Resources \ {r} : Managed(q) => stored[q].key # k
SoleOwner(r, k) == Managed(r) /\ stored[r].key = k /\ Alone(r, k)

\* The version trigger in the state tells which secret the service holds: no
\* other one, unless an Update that sent it ended with a diagnostic, or another
\* resource left the object on a 404 of the token endpoint.  (Create accepts a
\* trigger without a secret where the secret is optional.)
SecretFollowsVersion ==
  \A r \in Resources, k \in Keys :
     /\ SoleOwner(r, k) /\ stored[r].version # 0 /\ server[k] # Absent
     => \/ server[k].secret \in {stored[r].version} \union unsettled[k] \union InFlight(k)
        \/ server[k].secret = NoSecret /\ family.secret \in {"optional", "enabled"}

\* "password_wo must be configured when password_wo_version changes."
\* (definition_resources.go:158): a trigger in the state stands for a secret
\* on the service.
NoTriggerWithoutSecret ==
  \A r \in Resources, k \in Keys :
     SoleOwner(r, k) /\ stored[r].version # 0 /\ server[k] # Absent
     => server[k].secret # NoSecret

\* Create and Update leave no attribute unknown: Terraform reports one that is
\* as an invalid result.
AllKnownAfterApply ==
  \A r \in Resources : Managed(r) => stored[r].extra # "unknown"

-----------------------------------------------------------------------------
(* The inductive invariant behind the properties                           *)

\* Where a method is, and what it knows there.
PlaceOf(r) ==
  /\ method[r] = "none" => call[r] = "none"
  /\ Reading(r) => call[r] \in {"get", "details"}
  /\ method[r] = "Delete" => call[r] = "write"
  /\ Writing(r) => call[r] \in {"write", "follow", "get", "details"}
  /\ call[r] = "follow" => method[r] = "Create"
  /\ method[r] \in {"Read", "Update", "Delete"} =>
       Managed(r) /\ target[r] = stored[r].key
  /\ method[r] \in {"Create", "Import"} => ~Managed(r)
  /\ method[r] # "none" /\ (method[r] = "Create" /\ call[r] = "write" => reply[r] = "ok")
     => target[r] # NoKey

\* Only a name the service gives is not known from the start.
NamedOf(r) ==
  /\ method[r] # "none" /\ family.key # "assigned" => target[r] # NoKey
  /\ /\ method[r] = "Create" /\ family.key = "assigned"
     /\ call[r] = "write" /\ reply[r] = "none"
     => target[r] = NoKey
  /\ late[r] # Absent /\ (late[r].write.op # "create" \/ family.key # "assigned") =>
       late[r].key # NoKey

\* The write a method sends, and the plan it comes from.
RequestOf(r) ==
  /\ Writing(r) => plan[r] # Absent
  /\ Writing(r) \/ method[r] = "Delete" => request[r] # Absent
  /\ call[r] = "write" =>
       \/ method[r] = "Create" /\ request[r].op = "create"
       \/ method[r] = "Update" /\ request[r].op = "update"
       \/ method[r] = "Delete" /\ request[r].op = "delete"
  /\ method[r] = "Update" => request[r].op = "update"
  /\ method[r] = "Create" /\ call[r] = "write" =>
       request[r].fields = CreateFields(plan[r])
  /\ method[r] = "Update" => request[r].fields = UpdateFields(plan[r], stored[r])
  /\ method[r] = "Update" => family.update # "none"
  /\ method[r] = "Update" /\ family.update = "status" =>
       \A f \in Differing(plan[r], stored[r]) : f = "status"
  /\ call[r] = "follow" =>
       /\ request[r].op = "update" /\ family.update = "status" /\ "status" \in Fields
       /\ request[r].fields = [f \in {"status"} |-> plan[r].fields[f]]

HasSeen(r) == call[r] = "details" \/ (call[r] = "get" /\ reply[r] = "ok")

\* Names that are in a state or were read have been given.
UsedInv ==
  /\ \A k \in Keys : server[k] # Absent => k \in used
  /\ \A r \in Resources :
       /\ HasSeen(r) => seen[r] # Absent /\ target[r] \in used
       /\ Managed(r) => stored[r].key \in used

\* The method is about to take the object out of the state.
Losing(r) ==
  \/ method[r] = "Read" /\ call[r] = "get" /\ reply[r] = "missing"
  \/ method[r] = "Delete" /\ reply[r] \in {"ok", "missing"}

\* Somebody who holds the object, and is not about to let go of it.
Holds(r, k) ==
  \/ Managed(r) /\ stored[r].key = k /\ ~Losing(r)
  \/ Writing(r) /\ target[r] = k

HeldInv ==
  \A k \in made :
     /\ server[k] # Absent
     /\ k \in reported \/ k \in dropped \/ \E r \in Resources : Holds(r, k)

GoneOf(r) ==
  family.key = "assigned" /\ Losing(r) => server[target[r]] = Absent

\* As long as r is calm it has seen the object as it is.
CalmOf(r) ==
  calm[r] =>
    /\ Managed(r) /\ method[r] = "none" =>
         /\ server[stored[r].key] # Absent
         /\ \A f \in Fields \ stored[r].unread :
               stored[r].fields[f] = server[stored[r].key].fields[f]
    /\ HasSeen(r) =>
         /\ server[target[r]] # Absent
         /\ seen[r].fields = server[target[r]].fields
    /\ method[r] = "Update" /\ call[r] = "write" /\ reply[r] = "none" =>
         /\ server[target[r]] # Absent
         /\ \A f \in Fields \ stored[r].unread :
               stored[r].fields[f] = server[target[r]].fields[f]

\* The activity status still needs its own request.
Pending(r) ==
  /\ family.update = "status"
  /\ request[r].op = "create" \/ (call[r] = "follow" /\ reply[r] # "ok")

\* As long as r is calm, what it has written is on the service.
WrittenOf(r) ==
  /\ calm[r] /\ Writing(r)
  /\ call[r] \in {"follow", "get"} \/ (call[r] = "write" /\ reply[r] = "ok")
  => /\ server[target[r]] # Absent
     /\ \A f \in Due(r) : (f = "status" => ~Pending(r)) =>
          server[target[r]].fields[f] = plan[r].fields[f]

LifecycleInv ==
  /\ TypeOK /\ UsedInv /\ HeldInv
  /\ \A r \in Resources :
       /\ PlaceOf(r) /\ NamedOf(r) /\ RequestOf(r)
       /\ GoneOf(r) /\ CalmOf(r) /\ WrittenOf(r)

-----------------------------------------------------------------------------
(* The inductive invariant behind SecretFollowsVersion.                    *)

\* What a method that is about secrets plans, keeps and sends.
SecretPlanOf(r) ==
  /\ family.secret = "no" /\ Managed(r) => stored[r].version = 0
  /\ Writing(r) => PlanOK(plan[r])
  /\ method[r] = "Create" => CreateSecretOK(plan[r])
  /\ method[r] = "Create" /\ call[r] = "write" => request[r].secret = plan[r].secret
  /\ call[r] = "follow" => request[r].secret = NoSecret
  /\ method[r] = "Update" =>
       plan[r].version \in
         {0, IF request[r].secret = NoSecret THEN stored[r].version ELSE request[r].secret}

CreatedOf(r) == method[r] = "Create" /\ target[r] # NoKey => target[r] \in used

\* A write that may still act is about a name that was given, and its secret
\* is reported or about to be.
LateOf(r) ==
  late[r] # Absent /\ late[r].write.op = "update" =>
    /\ late[r].key \in used
    /\ \/ late[r].write.secret \in unsettled[late[r].key] \union {NoSecret}
       \/ /\ method[r] = "Update" /\ call[r] = "write" /\ reply[r] = "error"
          /\ late[r].key = target[r] /\ late[r].write.secret = request[r].secret

\* An object has no secret, where it is optional.
NoneGiven == IF family.secret \in {"optional", "enabled"} THEN {NoSecret} ELSE {}

Sending(r) == IF method[r] = "Update" THEN {request[r].secret} \ {NoSecret} ELSE {}

\* The secret of the object k is one that r knows, or will know.
SecretOn(r, k) ==
  /\ Managed(r) /\ stored[r].key = k /\ stored[r].version # 0 =>
       server[k].secret \in
         {stored[r].version} \union unsettled[k] \union NoneGiven \union Sending(r)
  /\ /\ Managed(r) /\ stored[r].key = k
     /\ method[r] = "Update" /\ request[r].secret # NoSecret
     /\ call[r] # "write" \/ reply[r] = "ok"
     => server[k].secret \in {request[r].secret} \union unsettled[k]
  /\ method[r] = "Create" /\ target[r] = k =>
       server[k].secret \in {plan[r].secret} \union unsettled[k]

\* No name is given twice, so nobody else has changed it and then left k.
SecretOf(r) ==
  \A k \in Keys : server[k] # Absent /\ Alone(r, k) => SecretOn(r, k)

SecretInv ==
  \A r \in Resources :
    /\ SecretPlanOf(r)
    /\ family.secret # "no" => CreatedOf(r) /\ LateOf(r) /\ SecretOf(r)
=============================================================================
