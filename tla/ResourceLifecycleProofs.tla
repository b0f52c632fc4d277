----------------------- MODULE ResourceLifecycleProofs -----------------------
(***************************************************************************)
(* Theorems about ResourceLifecycle, for every combination of features in  *)
(* Family and any number of resources, names, attributes and values:       *)
(* LifecycleInv is inductive, so nothing is orphaned in silence, states    *)
(* are true when nobody interferes, and one apply is enough.  SecretInv is *)
(* too, so the version trigger in a state tells the secret of the object.  *)
(***************************************************************************)
EXTENDS ResourceLifecycle, TLAPS

\* What a method and its calls do to one resource leaves the others alone.
LEMMA OthersStay ==
  ASSUME TypeOK, NEW r \in Resources, NEW q \in Resources,
         Method(r) \/ Service(r)
  PROVE  q # r => /\ UNCHANGED <<method[q], call[q], reply[q], target[q], request[q],
                               plan[q], seen[q], stored[q], late[q], family>>
                  /\ calm'[q] => calm[q] /\ server' = server
  <1> USE LifecycleAssumption, AbsentAssumption DEF TypeOK, serverVars, callVars, historyVars
  <1>1. CASE CreateStart(r)
    BY <1>1 DEF CreateStart, Managed, Begin, Ask
  <1>2. CASE ReadStart(r)
    BY <1>2 DEF ReadStart, Managed, Begin, Ask
  <1>3. CASE ImportStart(r)
    BY <1>3 DEF ImportStart, Managed, Begin, Ask
  <1>4. CASE UpdateStart(r)
    BY <1>4 DEF UpdateStart, Managed, Begin, Ask
  <1>5. CASE DeleteStart(r)
    BY <1>5 DEF DeleteStart, Managed, Begin, Ask
  <1>6. CASE ReadsBack(r)
    BY <1>6 DEF ReadsBack, Writing, Answered, Ask
  <1>7. CASE FollowsUp(r)
    BY <1>7 DEF FollowsUp, Answered, Ask, NeedsFollowUp
  <1>8. CASE AsksDetails(r)
    BY <1>8 DEF AsksDetails, HasReadBack, Writing, Answered, Ask
  <1>9. CASE WriteEnds(r)
    BY <1>9 DEF WriteEnds, Writing, HasReadBack, Answered, SetWrittenState, SetState, End
  <1>10. CASE WriteFails(r)
    BY <1>10 DEF WriteFails, Writing, Answered, Report, End
  <1>11. CASE ReadEnds(r)
    BY <1>11 DEF ReadEnds, Reading, Answered, SetReadState, SetState, Managed, End
  <1>12. CASE ReadRemoves(r)
    BY <1>12 DEF ReadRemoves, Answered, NotFound, Forget, End
  <1>13. CASE ReadFails(r)
    BY <1>13 DEF ReadFails, Reading, Answered, End
  <1>14. CASE DeleteEnds(r)
    BY <1>14 DEF DeleteEnds, Answered, NotFound, Forget, End
  <1>15. CASE DeleteFails(r)
    BY <1>15 DEF DeleteFails, Answered, End
  <1>16. CASE ServiceWrites(r)
    BY <1>16 DEF ServiceWrites, OthersSee
  <1>17. CASE ServiceMisses(r)
    BY <1>17 DEF ServiceMisses
  <1>18. CASE ServiceReads(r)
    BY <1>18 DEF ServiceReads
  <1>19. CASE ServiceDetails(r)
    BY <1>19 DEF ServiceDetails
  <1>20. CASE AnswerLost(r)
    BY <1>20 DEF AnswerLost, GiveUp
  <1>21. CASE CutOff(r)
    BY <1>21 DEF CutOff, GiveUp, Report, End
  <1>22. CASE LateActs(r)
    BY <1>22 DEF LateActs
  <1>23. CASE TokenMisses(r)
    BY <1>23 DEF TokenMisses, GiveUp
  <1> QED
    BY <1>1, <1>2, <1>3, <1>4, <1>5, <1>6, <1>7, <1>8, <1>9, <1>10, <1>11,
       <1>12, <1>13, <1>14, <1>15, <1>16, <1>17, <1>18, <1>19, <1>20,
       <1>21, <1>22, <1>23 DEF Method, Service

\* Create asks for no name where the service gives one, and for a name elsewhere.
LEMMA CreateKeysNamed ==
  ASSUME TypeOK
  PROVE  /\ CreateKeys \subseteq Keys \union {NoKey}
         /\ family.key # "assigned" => NoKey \notin CreateKeys
         /\ family.key = "assigned" => CreateKeys = {NoKey}
  <1> USE LifecycleAssumption
  <1>1. family.key \in {"assigned", "natural", "singleton"}
    BY DEF TypeOK, Family
  <1>2. used \subseteq Keys
    BY DEF TypeOK
  <1> QED
    BY <1>1, <1>2 DEF CreateKeys

\* A request that reaches the service is about a name.
LEMMA KeysOfWrite ==
  ASSUME TypeOK, NEW r \in Resources, PlaceOf(r), NamedOf(r), RequestOf(r),
         call[r] \in {"write", "follow"}, NEW k \in KeysOf(target[r], request[r])
  PROVE  /\ k \in Keys
         /\ (request[r].op = "create" /\ family.key = "assigned") \/ k = target[r]
         /\ family.key = "assigned" /\ request[r].op = "create" => k \notin used
         /\ request[r] \in Write
  BY LifecycleAssumption DEF TypeOK, PlaceOf, NamedOf, RequestOf, Reading, Writing, KeysOf

\* A method is where its calls have brought it.
LEMMA PlaceSelf ==
  ASSUME TypeOK, NEW r \in Resources, UsedInv, PlaceOf(r), NamedOf(r), RequestOf(r),
         Method(r) \/ Service(r)
  PROVE  PlaceOf(r)'
  <1> USE LifecycleAssumption, AbsentAssumption DEF TypeOK, serverVars, callVars, historyVars, State, UsedInv, PlaceOf, HasSeen, Reading, Writing, Managed
  <1>1. CASE CreateStart(r)
    BY <1>1 DEF CreateStart, Managed, Begin, Ask
  <1>2. CASE ReadStart(r)
    BY <1>2 DEF ReadStart, Managed, Begin, Ask
  <1>3. CASE ImportStart(r)
    BY <1>3, CreateKeysNamed DEF ImportStart, Begin, Ask
  <1>4. CASE UpdateStart(r)
    BY <1>4 DEF UpdateStart, Managed, Begin, Ask
  <1>5. CASE DeleteStart(r)
    BY <1>5 DEF DeleteStart, Managed, Begin, Ask
  <1>6. CASE ReadsBack(r)
    BY <1>6 DEF ReadsBack, Writing, Answered, Ask
  <1>7. CASE FollowsUp(r)
    BY <1>7 DEF FollowsUp, Answered, Ask, NeedsFollowUp
  <1>8. CASE AsksDetails(r)
    BY <1>8 DEF AsksDetails, HasReadBack, Writing, Answered, Ask
  <1>9. CASE WriteEnds(r)
    BY <1>9 DEF WriteEnds, Writing, HasReadBack, Answered, SetWrittenState, SetState, End
  <1>10. CASE WriteFails(r)
    BY <1>10 DEF WriteFails, Writing, Answered, Report, End
  <1>11. CASE ReadEnds(r)
    BY <1>11 DEF ReadEnds, Reading, Answered, SetReadState, SetState, Managed, End
  <1>12. CASE ReadRemoves(r)
    BY <1>12 DEF ReadRemoves, Answered, NotFound, Forget, End
  <1>13. CASE ReadFails(r)
    BY <1>13 DEF ReadFails, Reading, Answered, End
  <1>14. CASE DeleteEnds(r)
    BY <1>14 DEF DeleteEnds, Answered, NotFound, Forget, End
  <1>15. CASE DeleteFails(r)
    BY <1>15 DEF DeleteFails, Answered, End
  <1>16. CASE ServiceWrites(r)
    BY <1>16, KeysOfWrite DEF ServiceWrites, RequestOf
  <1>17. CASE ServiceMisses(r)
    BY <1>17 DEF ServiceMisses
  <1>18. CASE ServiceReads(r)
    BY <1>18 DEF ServiceReads
  <1>19. CASE ServiceDetails(r)
    BY <1>19 DEF ServiceDetails
  <1>20. CASE AnswerLost(r)
    BY <1>20 DEF AnswerLost, GiveUp
  <1>21. CASE CutOff(r)
    BY <1>21 DEF CutOff, GiveUp, Report, End
  <1>22. CASE LateActs(r)
    BY <1>22 DEF LateActs
  <1>23. CASE TokenMisses(r)
    BY <1>23 DEF TokenMisses, GiveUp
  <1> QED
    BY <1>1, <1>2, <1>3, <1>4, <1>5, <1>6, <1>7, <1>8, <1>9, <1>10, <1>11,
       <1>12, <1>13, <1>14, <1>15, <1>16, <1>17, <1>18, <1>19, <1>20,
       <1>21, <1>22, <1>23 DEF Method, Service

\* A write that is given up is about the name the method is about.
LEMMA NamedSelf ==
  ASSUME TypeOK, NEW r \in Resources, PlaceOf(r), RequestOf(r), NamedOf(r),
         Method(r) \/ Service(r)
  PROVE  NamedOf(r)'
  <1> USE LifecycleAssumption, AbsentAssumption DEF TypeOK, serverVars, callVars, historyVars, State, PlaceOf, RequestOf, NamedOf, Reading, Writing, Managed
  <1>1. CASE CreateStart(r)
    <2>1. PICK k \in CreateKeys : target' = [target EXCEPT ![r] = k]
      BY <1>1, Zenon DEF CreateStart, Begin
    <2>2. method' = [method EXCEPT ![r] = "Create"] /\ UNCHANGED <<family, late>>
      BY <1>1 DEF CreateStart, Begin
    <2> QED
      BY <2>1, <2>2, CreateKeysNamed
  <1>2. CASE ReadStart(r)
    <2>1. /\ target' = [target EXCEPT ![r] = stored[r].key]
          /\ method' = [method EXCEPT ![r] = "Read"]
          /\ UNCHANGED <<family, late>> /\ stored[r].key \in Keys
      BY <1>2 DEF ReadStart, Begin, Ask
    <2> QED
      BY <2>1
  <1>3. CASE ImportStart(r)
    <2>1. PICK k \in (IF family.key = "singleton" THEN CreateKeys ELSE Keys) :
             target' = [target EXCEPT ![r] = k]
      BY <1>3 DEF ImportStart, Begin
    <2>2. method' = [method EXCEPT ![r] = "Import"] /\ UNCHANGED <<family, late>>
      BY <1>3 DEF ImportStart, Begin
    <2> QED
      BY <2>1, <2>2, CreateKeysNamed
  <1>4. CASE UpdateStart(r)
    <2>1. /\ target' = [target EXCEPT ![r] = stored[r].key]
          /\ method' = [method EXCEPT ![r] = "Update"]
          /\ UNCHANGED <<family, late>> /\ stored[r].key \in Keys
      BY <1>4 DEF UpdateStart, Begin, Ask
    <2> QED
      BY <2>1
  <1>5. CASE DeleteStart(r)
    <2>1. /\ target' = [target EXCEPT ![r] = stored[r].key]
          /\ method' = [method EXCEPT ![r] = "Delete"]
          /\ UNCHANGED <<family, late>> /\ stored[r].key \in Keys
      BY <1>5 DEF DeleteStart, Begin, Ask
    <2> QED
      BY <2>1
  <1>6. CASE ReadsBack(r)
    BY <1>6 DEF ReadsBack, Writing, Answered, Ask
  <1>7. CASE FollowsUp(r)
    BY <1>7 DEF FollowsUp, Answered, Ask, NeedsFollowUp
  <1>8. CASE AsksDetails(r)
    BY <1>8 DEF AsksDetails, HasReadBack, Writing, Answered, Ask
  <1>9. CASE WriteEnds(r)
    BY <1>9 DEF WriteEnds, Writing, HasReadBack, Answered, SetWrittenState, SetState, End
  <1>10. CASE WriteFails(r)
    BY <1>10 DEF WriteFails, Writing, Answered, Report, End
  <1>11. CASE ReadEnds(r)
    BY <1>11 DEF ReadEnds, Reading, Answered, SetReadState, SetState, Managed, End
  <1>12. CASE ReadRemoves(r)
    BY <1>12 DEF ReadRemoves, Answered, NotFound, Forget, End
  <1>13. CASE ReadFails(r)
    BY <1>13 DEF ReadFails, Reading, Answered, End
  <1>14. CASE DeleteEnds(r)
    BY <1>14 DEF DeleteEnds, Answered, NotFound, Forget, End
  <1>15. CASE DeleteFails(r)
    BY <1>15 DEF DeleteFails, Answered, End
  <1>16. CASE ServiceWrites(r)
    BY <1>16, KeysOfWrite DEF ServiceWrites
  <1>17. CASE ServiceMisses(r)
    BY <1>17 DEF ServiceMisses
  <1>18. CASE ServiceReads(r)
    BY <1>18 DEF ServiceReads
  <1>19. CASE ServiceDetails(r)
    BY <1>19 DEF ServiceDetails
  <1>20. CASE AnswerLost(r)
    BY <1>20 DEF AnswerLost, GiveUp
  <1>21. CASE CutOff(r)
    BY <1>21 DEF CutOff, GiveUp, Report, End
  <1>22. CASE LateActs(r)
    BY <1>22 DEF LateActs
  <1>23. CASE TokenMisses(r)
    BY <1>23 DEF TokenMisses, GiveUp
  <1> QED
    BY <1>1, <1>2, <1>3, <1>4, <1>5, <1>6, <1>7, <1>8, <1>9, <1>10, <1>11,
       <1>12, <1>13, <1>14, <1>15, <1>16, <1>17, <1>18, <1>19, <1>20,
       <1>21, <1>22, <1>23 DEF Method, Service

\* Functions on some of the attributes are what a request is made of.
LEMMA InSubFunctions ==
  ASSUME NEW F \in SUBSET Fields, NEW g \in [F -> Values]
  PROVE  g \in SubFunctions
  BY DEF SubFunctions

LEMMA SubFunctionDomain ==
  ASSUME NEW g \in SubFunctions
  PROVE  /\ DOMAIN g \subseteq Fields
         /\ \A f \in DOMAIN g : g[f] \in Values
  BY DEF SubFunctions

\* What Create and Update send is a write.
LEMMA CreateSends ==
  ASSUME NEW p \in Plan
  PROVE  CreateFields(p) \in SubFunctions
  <1>1. p.fields \in [Fields -> Values]
    BY DEF Plan
  <1>2. p.fields \in SubFunctions
    BY <1>1, InSubFunctions
  <1>3. [f \in Fields \ {"status"} |-> p.fields[f]] \in [Fields \ {"status"} -> Values]
    BY <1>1
  <1>4. [f \in Fields \ {"status"} |-> p.fields[f]] \in SubFunctions
    BY <1>3, InSubFunctions
  <1> QED
    BY <1>2, <1>4 DEF CreateFields

LEMMA UpdateSends ==
  ASSUME TypeOK, NEW p \in Plan, NEW s \in State, family.update # "none"
  PROVE  UpdateFields(p, s) \in SubFunctions
  <1>1. p.fields \in [Fields -> Values]
    BY DEF Plan
  <1>2. ASSUME NEW F \in SUBSET Fields
        PROVE  [f \in F |-> p.fields[f]] \in SubFunctions
    <2>1. [f \in F |-> p.fields[f]] \in [F -> Values]
      BY <1>1
    <2> QED
      BY <2>1, InSubFunctions
  <1>3. p.fields \in SubFunctions
    BY <1>1, InSubFunctions
  <1>4. [f \in {g \in Fields : p.fields[g] # Unset} |-> p.fields[f]] \in SubFunctions
    BY <1>2
  <1>5. [f \in Differing(p, s) |-> p.fields[f]] \in SubFunctions
    BY <1>2 DEF Differing
  <1>6. [f \in Fields \cap {"status"} |-> p.fields[f]] \in SubFunctions
    BY <1>2
  <1>7. family.update \in {"patch", "replace", "diff", "status"}
    BY LifecycleAssumption DEF TypeOK, Family
  <1> QED
    BY <1>3, <1>4, <1>5, <1>6, <1>7 DEF UpdateFields

LEMMA DeleteSends ==
  [op |-> "delete", fields |-> <<>>, secret |-> NoSecret, old |-> NoSecret] \in Write
  <1>1. <<>> \in [{} -> Values]
    OBVIOUS
  <1>2. <<>> \in SubFunctions
    BY <1>1, InSubFunctions
  <1> QED
    BY <1>2 DEF Write, Secrets

\* What the service does with a write: the object k is o afterwards.
Effect(k, w, o) ==
  /\ server' = [server EXCEPT ![k] = o]
  /\ w.op = "create" =>
       /\ o \in Object /\ used' = used \union {k} /\ made' = made \union {k}
       /\ dropped' = dropped \ {k}
       /\ o.secret = w.secret
       /\ \A f \in DOMAIN w.fields : o.fields[f] = w.fields[f]
  /\ w.op = "update" =>
       /\ o \in Object /\ server[k] # Absent /\ UNCHANGED <<used, made, dropped>>
       /\ o.secret = IF w.secret = NoSecret THEN server[k].secret ELSE w.secret
       /\ \A f \in DOMAIN w.fields : o.fields[f] = w.fields[f]
       /\ \A f \in Fields \ DOMAIN w.fields : o.fields[f] = server[k].fields[f]
  /\ w.op = "delete" =>
       /\ o = Absent /\ used' = used /\ made' = made \ {k}
       /\ dropped' = dropped \ {k}

LEMMA ActsOnObject ==
  ASSUME TypeOK, NEW k \in Keys, NEW w \in Write, Acts(k, w)
  PROVE  \E o \in Object \union {Absent} : Effect(k, w, o)
  <1> DEFINE F == DOMAIN w.fields
  <1>1. F \subseteq Fields /\ \A f \in F : w.fields[f] \in Values
    BY SubFunctionDomain DEF Write
  <1>2. ASSUME NEW g \in [Fields -> Values]
        PROVE  /\ Overlay(w.fields, g) \in [Fields -> Values]
               /\ \A f \in F : Overlay(w.fields, g)[f] = w.fields[f]
               /\ \A f \in Fields \ F : Overlay(w.fields, g)[f] = g[f]
    BY <1>1 DEF Overlay
  <1>3. w.op \in {"create", "update", "delete"} /\ w.secret \in Secrets
    BY DEF Write
  <1> HIDE DEF F
  <1>4. CASE w.op = "create"
    <2>1. PICK g \in [Fields -> Values] :
             server' = [server EXCEPT ![k] =
                          [fields |-> Overlay(w.fields, g), secret |-> w.secret]]
      BY <1>4 DEF Acts
    <2> DEFINE o == [fields |-> Overlay(w.fields, g), secret |-> w.secret]
    <2>2. o \in Object
      BY <1>2, <1>3 DEF Object
    <2>3. used' = used \union {k} /\ made' = made \union {k} /\ dropped' = dropped \ {k}
      BY <1>4 DEF Acts
    <2>4. o.secret = w.secret /\ \A f \in F : o.fields[f] = w.fields[f]
      BY <1>2
    <2> HIDE DEF o
    <2>5. server' = [server EXCEPT ![k] = o]
      BY <2>1 DEF o
    <2> QED
      BY <1>4, <2>2, <2>3, <2>4, <2>5 DEF F, Effect
  <1>5. CASE w.op = "update"
    <2>1. server[k] # Absent /\ server[k] \in Object /\ UNCHANGED <<used, made, dropped>>
      BY <1>5 DEF Acts, TypeOK
    <2> DEFINE o == [fields |-> Overlay(w.fields, server[k].fields),
                     secret |-> IF w.secret = NoSecret THEN server[k].secret ELSE w.secret]
    <2>2. server' = [server EXCEPT ![k] = o]
      BY <1>5 DEF Acts, TypeOK
    <2>3. server[k].fields \in [Fields -> Values] /\ server[k].secret \in Secrets
      BY <2>1 DEF Object
    <2>4. o \in Object
      BY <1>2, <1>3, <2>3 DEF Object
    <2>5. /\ o.secret = IF w.secret = NoSecret THEN server[k].secret ELSE w.secret
          /\ \A f \in F : o.fields[f] = w.fields[f]
          /\ \A f \in Fields \ F : o.fields[f] = server[k].fields[f]
      BY <1>2, <2>3
    <2> HIDE DEF o
    <2> QED
      BY <1>5, <2>1, <2>2, <2>4, <2>5 DEF F, Effect
  <1>6. CASE w.op = "delete"
    BY <1>6 DEF Acts, Effect
  <1> QED
    BY <1>3, <1>4, <1>5, <1>6

\* The request of a method stays the one its plan says.
LEMMA RequestKept ==
  ASSUME NEW r \in Resources, RequestOf(r),
         UNCHANGED <<family, plan[r], stored[r], request[r], method[r]>>,
         call'[r] \in {call[r], "get", "details"}
  PROVE  RequestOf(r)'
  <1>1. CreateFields(plan[r])' = CreateFields(plan[r])
    BY DEF CreateFields
  <1>2. Differing(plan[r], stored[r])' = Differing(plan[r], stored[r])
    BY DEF Differing
  <1>3. UpdateFields(plan[r], stored[r])' = UpdateFields(plan[r], stored[r])
    BY <1>2 DEF UpdateFields
  <1> QED
    BY <1>1, <1>2, <1>3 DEF RequestOf, Writing

\* A method sends what its plan says, against the state it was given.
LEMMA RequestSelf ==
  ASSUME TypeOK, NEW r \in Resources, PlaceOf(r), RequestOf(r),
         Method(r) \/ Service(r)
  PROVE  RequestOf(r)'
  <1> USE LifecycleAssumption, AbsentAssumption DEF TypeOK, serverVars, callVars, historyVars, PlaceOf, RequestOf, Reading, Writing
  <1>1. CASE CreateStart(r)
    <2>1. PICK p \in Plan, k \in CreateKeys :
             Begin(r, "Create", "write", k, p,
                   [op |-> "create", fields |-> CreateFields(p),
                    secret |-> p.secret, old |-> NoSecret])
      BY <1>1 DEF CreateStart
    <2> DEFINE w == [op |-> "create", fields |-> CreateFields(p),
                     secret |-> p.secret, old |-> NoSecret]
    <2>2. w \in Write
      BY CreateSends DEF Write, Plan, Secrets
    <2>3. /\ plan' = [plan EXCEPT ![r] = p] /\ request' = [request EXCEPT ![r] = w]
          /\ method' = [method EXCEPT ![r] = "Create"] /\ call' = [call EXCEPT ![r] = "write"]
          /\ UNCHANGED family
      BY <2>1 DEF Begin, Ask
    <2>4. w.op = "create" /\ w.fields = CreateFields(p)
      OBVIOUS
    <2> HIDE DEF w
    <2>5. CreateFields(plan[r])' = CreateFields(p)
      BY <2>3 DEF CreateFields
    <2>6. /\ plan'[r] # Absent /\ request'[r] # Absent /\ request'[r] = w
          /\ method'[r] = "Create" /\ call'[r] = "write"
      BY <2>2, <2>3
    <2> HIDE DEF TypeOK
    <2> QED
      BY <2>4, <2>5, <2>6
  <1>2. CASE ReadStart(r)
    BY <1>2 DEF ReadStart, Managed, Begin, Ask
  <1>3. CASE ImportStart(r)
    BY <1>3 DEF ImportStart, Managed, Begin, Ask
  <1>4. CASE UpdateStart(r)
    <2>1. PICK p \in Plan, old \in Secrets, enables \in Enables :
             LET s == stored[r]  sends == SendsSecret(p, s, enables)
                 w == [op |-> "update", fields |-> UpdateFields(p, s),
                       secret |-> IF sends THEN p.secret ELSE NoSecret, old |-> old] IN
             /\ family.update = "status" =>
                  \A f \in Differing(p, s) : f = "status" /\ p.fields[f] # Unset
             /\ Begin(r, "Update", "write", s.key, p, w)
      BY <1>4 DEF UpdateStart
    <2> DEFINE w == [op |-> "update", fields |-> UpdateFields(p, stored[r]),
                     secret |-> IF SendsSecret(p, stored[r], enables) THEN p.secret ELSE NoSecret,
                     old |-> old]
    <2>2. stored[r] \in State /\ family.update # "none"
      BY <1>4 DEF UpdateStart, Managed
    <2>3. w \in Write
      <3>1. UpdateFields(p, stored[r]) \in SubFunctions
        BY <2>2, UpdateSends
      <3> QED
        BY <3>1 DEF Write, Plan, Secrets
    <2>4. /\ plan' = [plan EXCEPT ![r] = p] /\ request' = [request EXCEPT ![r] = w]
          /\ method' = [method EXCEPT ![r] = "Update"] /\ call' = [call EXCEPT ![r] = "write"]
          /\ UNCHANGED <<family, stored>>
      BY <2>1 DEF Begin, Ask
    <2>5. w.op = "update" /\ w.fields = UpdateFields(p, stored[r])
      OBVIOUS
    <2> HIDE DEF w
    <2>6. /\ plan'[r] # Absent /\ plan'[r] = p /\ request'[r] # Absent /\ request'[r] = w
          /\ method'[r] = "Update" /\ call'[r] = "write"
      BY <2>3, <2>4
    <2>10. family' = family /\ plan'[r] = p /\ stored'[r] = stored[r]
      BY <2>4, <2>6
    <2> HIDE DEF TypeOK
    <2>7. Differing(plan[r], stored[r])' = Differing(p, stored[r])
      BY <2>10 DEF Differing
    <2>8. UpdateFields(plan[r], stored[r])' = UpdateFields(p, stored[r])
      BY <2>7, <2>10, Zenon DEF UpdateFields
    <2>9. family.update = "status" => \A f \in Differing(p, stored[r]) : f = "status"
      BY <2>1
    <2> QED
      BY <2>2, <2>4, <2>5, <2>6, <2>7, <2>8, <2>9
  <1>5. CASE DeleteStart(r)
    <2>1. /\ method'[r] = "Delete" /\ call'[r] = "write"
          /\ request'[r] = [op |-> "delete", fields |-> <<>>, secret |-> NoSecret, old |-> NoSecret]
      BY <1>5 DEF DeleteStart, Begin, Ask
    <2> HIDE DEF TypeOK
    <2> QED
      BY <2>1, DeleteSends
  <1>6. CASE ReadsBack(r)
    <2>1. UNCHANGED <<family, plan[r], stored[r], request[r], method[r]>>
      BY <1>6 DEF ReadsBack, Ask
    <2>2. call'[r] \in {call[r], "get", "details"}
      BY <1>6 DEF ReadsBack, Ask
    <2> QED
      BY <2>1, <2>2, RequestKept
  <1>7. CASE FollowsUp(r)
    <2>1. /\ method'[r] = "Create" /\ call'[r] = "follow" /\ UNCHANGED <<plan, family>>
          /\ request'[r] = [op |-> "update", fields |-> [f \in {"status"} |-> plan[r].fields[f]],
                             secret |-> NoSecret, old |-> NoSecret]
          /\ family.update = "status" /\ "status" \in Fields /\ plan[r] \in Plan
      BY <1>7 DEF FollowsUp, Answered, Ask, NeedsFollowUp
    <2>2. plan[r].fields \in [Fields -> Values]
      BY <2>1 DEF Plan
    <2>3. [f \in {"status"} |-> plan[r].fields[f]] \in [{"status"} -> Values]
      BY <2>1, <2>2
    <2>4. [f \in {"status"} |-> plan[r].fields[f]] \in SubFunctions
      BY <2>1, <2>3, InSubFunctions
    <2>5. request'[r] \in Write
      BY <2>1, <2>4 DEF Write, Secrets
    <2> HIDE DEF TypeOK
    <2> QED
      BY <2>1, <2>5
  <1>8. CASE AsksDetails(r)
    <2>1. UNCHANGED <<family, plan[r], stored[r], request[r], method[r]>>
      BY <1>8 DEF AsksDetails, Ask
    <2>2. call'[r] \in {call[r], "get", "details"}
      BY <1>8 DEF AsksDetails, Ask
    <2> QED
      BY <2>1, <2>2, RequestKept
  <1>9. CASE WriteEnds(r)
    BY <1>9 DEF WriteEnds, Writing, HasReadBack, Answered, SetWrittenState, SetState, End
  <1>10. CASE WriteFails(r)
    BY <1>10 DEF WriteFails, Writing, Answered, Report, End
  <1>11. CASE ReadEnds(r)
    BY <1>11 DEF ReadEnds, Reading, Answered, SetReadState, SetState, Managed, End
  <1>12. CASE ReadRemoves(r)
    BY <1>12 DEF ReadRemoves, Answered, NotFound, Forget, End
  <1>13. CASE ReadFails(r)
    BY <1>13 DEF ReadFails, Reading, Answered, End
  <1>14. CASE DeleteEnds(r)
    BY <1>14 DEF DeleteEnds, Answered, NotFound, Forget, End
  <1>15. CASE DeleteFails(r)
    BY <1>15 DEF DeleteFails, Answered, End
  <1>16. CASE ServiceWrites(r)
    <2>1. UNCHANGED <<family, plan[r], stored[r], request[r], method[r]>>
      BY <1>16 DEF ServiceWrites
    <2>2. call'[r] \in {call[r], "get", "details"}
      BY <1>16 DEF ServiceWrites
    <2> QED
      BY <2>1, <2>2, RequestKept
  <1>17. CASE ServiceMisses(r)
    <2>1. UNCHANGED <<family, plan[r], stored[r], request[r], method[r]>>
      BY <1>17 DEF ServiceMisses
    <2>2. call'[r] \in {call[r], "get", "details"}
      BY <1>17 DEF ServiceMisses
    <2> QED
      BY <2>1, <2>2, RequestKept
  <1>18. CASE ServiceReads(r)
    <2>1. UNCHANGED <<family, plan[r], stored[r], request[r], method[r]>>
      BY <1>18 DEF ServiceReads
    <2>2. call'[r] \in {call[r], "get", "details"}
      BY <1>18 DEF ServiceReads
    <2> QED
      BY <2>1, <2>2, RequestKept
  <1>19. CASE ServiceDetails(r)
    <2>1. UNCHANGED <<family, plan[r], stored[r], request[r], method[r]>>
      BY <1>19 DEF ServiceDetails
    <2>2. call'[r] \in {call[r], "get", "details"}
      BY <1>19 DEF ServiceDetails
    <2> QED
      BY <2>1, <2>2, RequestKept
  <1>20. CASE AnswerLost(r)
    <2>1. UNCHANGED <<family, plan[r], stored[r], request[r], method[r]>>
      BY <1>20 DEF AnswerLost
    <2>2. call'[r] \in {call[r], "get", "details"}
      BY <1>20 DEF AnswerLost
    <2> QED
      BY <2>1, <2>2, RequestKept
  <1>21. CASE CutOff(r)
    BY <1>21 DEF CutOff, GiveUp, Report, End
  <1>22. CASE LateActs(r)
    <2>1. UNCHANGED <<family, plan[r], stored[r], request[r], method[r]>>
      BY <1>22 DEF LateActs
    <2>2. call'[r] \in {call[r], "get", "details"}
      BY <1>22 DEF LateActs
    <2> QED
      BY <2>1, <2>2, RequestKept
  <1>23. CASE TokenMisses(r)
    <2>1. UNCHANGED <<family, plan[r], stored[r], request[r], method[r]>>
      BY <1>23 DEF TokenMisses
    <2>2. call'[r] \in {call[r], "get", "details"}
      BY <1>23 DEF TokenMisses
    <2> QED
      BY <2>1, <2>2, RequestKept
  <1> QED
    BY <1>1, <1>2, <1>3, <1>4, <1>5, <1>6, <1>7, <1>8, <1>9, <1>10, <1>11,
       <1>12, <1>13, <1>14, <1>15, <1>16, <1>17, <1>18, <1>19, <1>20,
       <1>21, <1>22, <1>23 DEF Method, Service

LEMMA WriteEffect ==
  ASSUME TypeOK, NEW r \in Resources, PlaceOf(r), NamedOf(r), RequestOf(r), ServiceWrites(r)
  PROVE  \E k \in Keys, o \in Object \union {Absent} :
           /\ Effect(k, request[r], o)
           /\ target' = [target EXCEPT ![r] = k]
           /\ (request[r].op = "create" /\ family.key = "assigned") \/ k = target[r]
           /\ family.key = "assigned" /\ request[r].op = "create" => k \notin used
  <1>1. PICK k \in KeysOf(target[r], request[r]) :
           Acts(k, request[r]) /\ target' = [target EXCEPT ![r] = k]
    BY DEF ServiceWrites
  <1>2. /\ k \in Keys
        /\ (request[r].op = "create" /\ family.key = "assigned") \/ k = target[r]
        /\ family.key = "assigned" /\ request[r].op = "create" => k \notin used
        /\ request[r] \in Write
    BY KeysOfWrite DEF ServiceWrites
  <1> QED
    BY <1>1, <1>2, ActsOnObject

LEMMA LateEffect ==
  ASSUME TypeOK, NEW r \in Resources, NamedOf(r), LateActs(r)
  PROVE  \E k \in Keys, o \in Object \union {Absent} :
           /\ late[r].write \in Write
           /\ Effect(k, late[r].write, o)
           /\ family.key = "assigned" /\ late[r].write.op = "create" => k \notin used
           /\ late[r].write.op # "create" => k = late[r].key
           /\ reported' = IF late[r].write.op = "create"
                          THEN reported \union {k} ELSE reported
  <1>1. PICK k \in KeysOf(late[r].key, late[r].write) :
           /\ Acts(k, late[r].write)
           /\ reported' = IF late[r].write.op = "create"
                          THEN reported \union {k} ELSE reported
    BY DEF LateActs
  <1>2. late[r] # Absent /\ late[r] \in Late
    BY DEF LateActs, TypeOK
  <1>3. late[r].write \in Write /\ late[r].key \in Keys \union {NoKey}
    BY <1>2 DEF Late
  <1>4. /\ k \in Keys /\ (family.key = "assigned" /\ late[r].write.op = "create" => k \notin used)
        /\ late[r].write.op # "create" => k = late[r].key
    BY <1>2, <1>3 DEF KeysOf, NamedOf
  <1> QED
    BY <1>1, <1>3, <1>4, ActsOnObject

\* SetState stores a state, under the name the method is about.
LEMMA SetsState ==
  ASSUME TypeOK, NEW r \in Resources, RequestOf(r), seen[r] # Absent, target[r] \in Keys,
         NEW version \in Secrets, NEW before \in {"value", "null", "unknown"},
         SetState(r, version, before)
  PROVE  \E s \in State :
           /\ s.key = target[r] /\ s.version = version
           /\ \A f \in Fields \ s.unread : s.fields[f] = seen[r].fields[f]
           /\ stored' = [stored EXCEPT ![r] = s]
           /\ reported' = reported \ {target[r]}
           /\ dropped' = dropped \ {target[r]}
  <1>1. seen[r].fields \in [Fields -> Values] /\ seen[r].shown \subseteq Fields
    BY DEF TypeOK, Seen
  <1>2. Extra(r, before) \in {"value", "null", "unknown"}
    BY DEF Extra
  <1>3. Before(r) \in [Fields -> Values]
    <2>1. Writing(r) => plan[r].fields \in [Fields -> Values]
      BY DEF TypeOK, RequestOf, Plan
    <2>2. Managed(r) => stored[r].fields \in [Fields -> Values]
      BY DEF TypeOK, Managed, State
    <2> QED
      BY <2>1, <2>2, LifecycleAssumption DEF Before
  <1>4. Model(r) \in [Fields -> Values]
    BY <1>1, <1>3, LifecycleAssumption DEF Model
  <1>5. Unread(r) \subseteq Fields
    BY DEF Unread
  <1>6. \A f \in Fields \ Unread(r) : Model(r)[f] = seen[r].fields[f]
    BY <1>1 DEF Model, Unread
  <1> DEFINE s == [key |-> target[r], fields |-> Model(r), unread |-> Unread(r),
                   version |-> version, extra |-> Extra(r, before)]
  <1>7. s \in State
    BY <1>2, <1>4, <1>5 DEF State
  <1>8. s.key = target[r] /\ s.version = version
    OBVIOUS
  <1>9. \A f \in Fields \ s.unread : s.fields[f] = seen[r].fields[f]
    BY <1>6
  <1>10. /\ stored' = [stored EXCEPT ![r] = s]
         /\ reported' = reported \ {target[r]}
         /\ dropped' = dropped \ {target[r]}
    BY DEF SetState, Finds
  <1> HIDE DEF s
  <1> QED
    BY <1>7, <1>8, <1>9, <1>10

\* A method that reads or writes and ends well stores what it has seen.
LEMMA StoresSeen ==
  ASSUME TypeOK, NEW r \in Resources, PlaceOf(r), RequestOf(r), UsedInv,
         WriteEnds(r) \/ ReadEnds(r)
  PROVE  \E s \in State :
           /\ s.key = target[r]
           /\ \A f \in Fields \ s.unread : s.fields[f] = seen[r].fields[f]
           /\ WriteEnds(r) => s.version = plan[r].version
           /\ ReadEnds(r) => s.version = IF Managed(r) THEN stored[r].version ELSE 0
           /\ stored' = [stored EXCEPT ![r] = s]
           /\ reported' = reported \ {target[r]}
           /\ dropped' = dropped \ {target[r]}
  <1>1. HasSeen(r)
    BY DEF WriteEnds, ReadEnds, HasReadBack, HasSeen, Answered
  <1>2. seen[r] # Absent /\ target[r] \in used /\ target[r] \in Keys
    BY <1>1 DEF UsedInv, TypeOK
  <1>6. ~(WriteEnds(r) /\ ReadEnds(r))
    BY DEF WriteEnds, ReadEnds, Writing, Reading
  <1>3. CASE WriteEnds(r)
    <2>1. plan[r].version \in Secrets
      BY <1>3 DEF WriteEnds, RequestOf, TypeOK, Plan
    <2> QED
      BY <1>2, <1>3, <1>6, <2>1, SetsState DEF WriteEnds, SetWrittenState
  <1>4. CASE ReadEnds(r) /\ Managed(r)
    <2>1. stored[r].version \in Secrets
      BY <1>4 DEF Managed, TypeOK, State
    <2>2. SetState(r, stored[r].version, IF stored[r].extra = "value" THEN "value" ELSE "null")
      BY <1>4 DEF ReadEnds, SetReadState
    <2>3. (IF stored[r].extra = "value" THEN "value" ELSE "null") \in {"value", "null", "unknown"}
      OBVIOUS
    <2> QED
      BY <1>2, <1>4, <1>6, <2>1, <2>2, <2>3, SetsState
  <1>5. CASE ReadEnds(r) /\ ~Managed(r)
    <2>1. SetState(r, 0, "null") /\ 0 \in Secrets
      BY <1>5 DEF ReadEnds, SetReadState, Secrets, NoSecret
    <2> QED
      BY <1>2, <1>5, <1>6, <2>1, SetsState
  <1> QED
    BY <1>3, <1>4, <1>5

\* Names in states and in answers have been given.
LEMMA UsedSelf ==
  ASSUME TypeOK, NEW r \in Resources, PlaceOf(r), NamedOf(r), RequestOf(r), UsedInv,
         Method(r) \/ Service(r)
  PROVE  /\ \A k \in Keys : server'[k] # Absent => k \in used'
         /\ HasSeen(r)' => seen'[r] # Absent /\ target'[r] \in used'
         /\ Managed(r)' => stored'[r].key \in used'
         /\ used \subseteq used'
  <1> USE LifecycleAssumption, AbsentAssumption DEF TypeOK, serverVars, callVars, historyVars, State, UsedInv, PlaceOf, HasSeen, Reading, Writing, Managed, Acts
  <1>1. CASE CreateStart(r)
    BY <1>1 DEF CreateStart, Managed, Begin, Ask
  <1>2. CASE ReadStart(r)
    BY <1>2 DEF ReadStart, Managed, Begin, Ask
  <1>3. CASE ImportStart(r)
    BY <1>3 DEF ImportStart, Managed, Begin, Ask
  <1>4. CASE UpdateStart(r)
    BY <1>4 DEF UpdateStart, Managed, Begin, Ask
  <1>5. CASE DeleteStart(r)
    BY <1>5 DEF DeleteStart, Managed, Begin, Ask
  <1>6. CASE ReadsBack(r)
    BY <1>6 DEF ReadsBack, Writing, Answered, Ask
  <1>7. CASE FollowsUp(r)
    BY <1>7 DEF FollowsUp, Answered, Ask, NeedsFollowUp
  <1>8. CASE AsksDetails(r)
    BY <1>8 DEF AsksDetails, HasReadBack, Writing, Answered, Ask
  <1>9. CASE WriteEnds(r)
    BY <1>9 DEF WriteEnds, Writing, HasReadBack, Answered, SetWrittenState, SetState, End
  <1>10. CASE WriteFails(r)
    BY <1>10 DEF WriteFails, Writing, Answered, Report, End
  <1>11. CASE ReadEnds(r)
    BY <1>11 DEF ReadEnds, Reading, Answered, SetReadState, SetState, Managed, End
  <1>12. CASE ReadRemoves(r)
    BY <1>12 DEF ReadRemoves, Answered, NotFound, Forget, End
  <1>13. CASE ReadFails(r)
    BY <1>13 DEF ReadFails, Reading, Answered, End
  <1>14. CASE DeleteEnds(r)
    BY <1>14 DEF DeleteEnds, Answered, NotFound, Forget, End
  <1>15. CASE DeleteFails(r)
    BY <1>15 DEF DeleteFails, Answered, End
  <1>16. CASE ServiceWrites(r)
    BY <1>16 DEF ServiceWrites, OthersSee
  <1>17. CASE ServiceMisses(r)
    BY <1>17 DEF ServiceMisses
  <1>18. CASE ServiceReads(r)
    <2>1. target[r] \in Keys /\ server[target[r]] # Absent
      BY <1>18 DEF ServiceReads
    <2>2. server[target[r]].fields \in [Fields -> Values]
      BY <2>1 DEF Object
    <2>3. PICK o \in Omissions, S \in SUBSET SetFields(target[r]) :
            seen' = [seen EXCEPT ![r] =
              [fields |-> server[target[r]].fields, shown |-> S, omitted |-> o]]
      BY <1>18 DEF ServiceReads
    <2>4. [fields |-> server[target[r]].fields, shown |-> S, omitted |-> o] \in Seen
      BY <2>2 DEF Seen, SetFields
    <2>5. seen'[r] # Absent
      BY <2>3, <2>4
    <2> QED
      BY <1>18, <2>1, <2>5 DEF ServiceReads
  <1>19. CASE ServiceDetails(r)
    BY <1>19 DEF ServiceDetails
  <1>20. CASE AnswerLost(r)
    BY <1>20 DEF AnswerLost, GiveUp
  <1>21. CASE CutOff(r)
    BY <1>21 DEF CutOff, GiveUp, Report, End
  <1>22. CASE LateActs(r)
    BY <1>22 DEF LateActs
  <1>23. CASE TokenMisses(r)
    BY <1>23 DEF TokenMisses, GiveUp
  <1> QED
    BY <1>1, <1>2, <1>3, <1>4, <1>5, <1>6, <1>7, <1>8, <1>9, <1>10, <1>11,
       <1>12, <1>13, <1>14, <1>15, <1>16, <1>17, <1>18, <1>19, <1>20,
       <1>21, <1>22, <1>23 DEF Method, Service

\* What the configuration made has somebody who will not let go of it.
LEMMA HeldSelf ==
  ASSUME TypeOK, NEW r \in Resources, PlaceOf(r), NamedOf(r), RequestOf(r), UsedInv, HeldInv,
         Method(r) \/ Service(r)
  PROVE  HeldInv'
  <1> USE LifecycleAssumption, AbsentAssumption DEF TypeOK, serverVars, callVars, historyVars, State, PlaceOf, HeldInv, Holds, Losing, Reading, Writing, Managed
  <1>1. CASE CreateStart(r)
    BY <1>1 DEF CreateStart, Managed, Begin, Ask
  <1>2. CASE ReadStart(r)
    BY <1>2 DEF ReadStart, Managed, Begin, Ask
  <1>3. CASE ImportStart(r)
    BY <1>3 DEF ImportStart, Managed, Begin, Ask
  <1>4. CASE UpdateStart(r)
    BY <1>4 DEF UpdateStart, Managed, Begin, Ask
  <1>5. CASE DeleteStart(r)
    BY <1>5 DEF DeleteStart, Managed, Begin, Ask
  <1>6. CASE ReadsBack(r)
    BY <1>6 DEF ReadsBack, Writing, Answered, Ask
  <1>7. CASE FollowsUp(r)
    BY <1>7 DEF FollowsUp, Answered, Ask, NeedsFollowUp
  <1>8. CASE AsksDetails(r)
    BY <1>8 DEF AsksDetails, HasReadBack, Writing, Answered, Ask
  <1>9. CASE WriteEnds(r)
    <2>1. PICK s \in State :
             /\ s.key = target[r] /\ stored' = [stored EXCEPT ![r] = s]
             /\ reported' = reported \ {target[r]}
             /\ dropped' = dropped \ {target[r]}
      BY <1>9, StoresSeen
    <2>2. stored'[r] # Absent /\ stored'[r].key = target[r]
      BY <2>1
    <2>3. method'[r] = "none" /\ server' = server
      BY <1>9 DEF WriteEnds, End
    <2>4. \A k \in Keys : k = target[r] => Holds(r, k)'
      BY <2>2, <2>3
    <2>5. \A k \in made' : server'[k] # Absent /\ (k \in made \/ k = target[r])
      BY <1>9, <2>3 DEF WriteEnds
    <2>6. \A k \in Keys : Holds(r, k) => k = target[r]
      BY <1>9 DEF WriteEnds, Reading, Writing
    <2>7. \A q \in Resources \ {r} : UNCHANGED <<method[q], call[q], reply[q], target[q], stored[q]>>
      BY <1>9, OthersStay
    <2>8. ASSUME NEW k \in made', k # target[r]
          PROVE  k \in reported' \/ k \in dropped' \/ \E q \in Resources : Holds(q, k)'
      <3>1. k \in made /\ k \in Keys
        BY <2>5, <2>8
      <3>2. CASE k \in reported \/ k \in dropped
        BY <2>1, <2>8, <3>2
      <3>3. ASSUME NEW q \in Resources, Holds(q, k)
            PROVE  Holds(q, k)'
        <4>1. q # r
          BY <2>6, <2>8, <3>1, <3>3
        <4> QED
          BY <2>7, <3>3, <4>1
      <3> QED
        BY <3>1, <3>2, <3>3
    <2> HIDE DEF Holds
    <2>9. made' \subseteq Keys
      BY <1>9 DEF WriteEnds
    <2> QED
      BY <2>4, <2>5, <2>8, <2>9
  <1>10. CASE WriteFails(r)
    BY <1>10 DEF WriteFails, Writing, Answered, Report, End
  <1>11. CASE ReadEnds(r)
    <2>1. PICK s \in State :
             /\ s.key = target[r] /\ stored' = [stored EXCEPT ![r] = s]
             /\ reported' = reported \ {target[r]}
             /\ dropped' = dropped \ {target[r]}
      BY <1>11, StoresSeen
    <2>2. stored'[r] # Absent /\ stored'[r].key = target[r]
      BY <2>1
    <2>3. method'[r] = "none" /\ server' = server
      BY <1>11 DEF ReadEnds, End
    <2>4. \A k \in Keys : k = target[r] => Holds(r, k)'
      BY <2>2, <2>3
    <2>5. \A k \in made' : server'[k] # Absent /\ (k \in made \/ k = target[r])
      BY <1>11, <2>3 DEF ReadEnds
    <2>6. \A k \in Keys : Holds(r, k) => k = target[r]
      BY <1>11 DEF ReadEnds, Reading, Writing
    <2>7. \A q \in Resources \ {r} : UNCHANGED <<method[q], call[q], reply[q], target[q], stored[q]>>
      BY <1>11, OthersStay
    <2>8. ASSUME NEW k \in made', k # target[r]
          PROVE  k \in reported' \/ k \in dropped' \/ \E q \in Resources : Holds(q, k)'
      <3>1. k \in made /\ k \in Keys
        BY <2>5, <2>8
      <3>2. CASE k \in reported \/ k \in dropped
        BY <2>1, <2>8, <3>2
      <3>3. ASSUME NEW q \in Resources, Holds(q, k)
            PROVE  Holds(q, k)'
        <4>1. q # r
          BY <2>6, <2>8, <3>1, <3>3
        <4> QED
          BY <2>7, <3>3, <4>1
      <3> QED
        BY <3>1, <3>2, <3>3
    <2> HIDE DEF Holds
    <2>9. made' \subseteq Keys
      BY <1>11 DEF ReadEnds
    <2> QED
      BY <2>4, <2>5, <2>8, <2>9
  <1>12. CASE ReadRemoves(r)
    BY <1>12 DEF ReadRemoves, Answered, NotFound, Forget, End
  <1>13. CASE ReadFails(r)
    BY <1>13 DEF ReadFails, Reading, Answered, End
  <1>14. CASE DeleteEnds(r)
    BY <1>14 DEF DeleteEnds, Answered, NotFound, Forget, End
  <1>15. CASE DeleteFails(r)
    BY <1>15 DEF DeleteFails, Answered, End
  <1>16. CASE ServiceWrites(r)
    <2>1. PICK k \in Keys, o \in Object \union {Absent} :
             /\ Effect(k, request[r], o)
             /\ target' = [target EXCEPT ![r] = k]
             /\ (request[r].op = "create" /\ family.key = "assigned") \/ k = target[r]
      BY <1>16, WriteEffect
    <2>2. UNCHANGED <<method, call, stored, reported>> /\ call[r] \in {"write", "follow"} /\ reply[r] = "none"
      BY <1>16 DEF ServiceWrites
    <2>3. \A q \in Resources \ {r} : UNCHANGED <<target[q], reply[q]>>
      BY <1>16, OthersStay
    <2>4. request[r].op \in {"create", "update", "delete"}
      BY <1>16 DEF ServiceWrites, RequestOf
    <2>5. \A i \in made' : i \in made \/ (request[r].op = "create" /\ i = k)
      BY <2>1, <2>4 DEF Effect
    <2>6. \A i \in made' : server'[i] # Absent
      BY <2>1, <2>4 DEF Effect
    <2>7. request[r].op = "create" => Writing(r) /\ Holds(r, k)'
      BY <1>16, <2>1, <2>2 DEF RequestOf
    <2>8. ASSUME NEW i \in made', i \in made
          PROVE  i \in reported' \/ i \in dropped' \/ \E q \in Resources : Holds(q, i)'
      <3>1. CASE i \in reported
        BY <2>2, <3>1
      <3>4. CASE i \in dropped
        <4>1. CASE request[r].op = "create" /\ i = k
          BY <2>7, <4>1
        <4>2. CASE ~(request[r].op = "create" /\ i = k)
          <5>1. i \in dropped'
            BY <2>1, <2>4, <2>8, <3>4, <4>2 DEF Effect
          <5> QED
            BY <5>1
        <4> QED
          BY <4>1, <4>2
      <3>2. ASSUME NEW q \in Resources, Holds(q, i), q # r
            PROVE  Holds(q, i)'
        BY <2>2, <2>3, <3>2
      <3>3. CASE Holds(r, i)
        <4>1. CASE request[r].op = "create"
          <5>1. method[r] = "Create" /\ call[r] = "write" /\ target[r] = i
            BY <2>2, <3>3, <4>1 DEF RequestOf
          <5>2. family.key # "assigned"
            BY <2>2, <2>8, <5>1 DEF NamedOf
          <5> QED
            BY <2>1, <2>7, <4>1, <5>1, <5>2
        <4>2. CASE request[r].op = "update"
          BY <2>1, <2>2, <3>3, <4>2 DEF RequestOf
        <4>3. CASE request[r].op = "delete"
          BY <2>1, <2>2, <2>8, <3>3, <4>3 DEF RequestOf, Effect
        <4> QED
          BY <2>4, <4>1, <4>2, <4>3
      <3> QED
        BY <2>8, <3>1, <3>2, <3>3, <3>4
    <2> HIDE DEF Holds
    <2> QED
      BY <2>5, <2>6, <2>7, <2>8
  <1>17. CASE ServiceMisses(r)
    BY <1>17 DEF ServiceMisses
  <1>18. CASE ServiceReads(r)
    BY <1>18 DEF ServiceReads
  <1>19. CASE ServiceDetails(r)
    BY <1>19 DEF ServiceDetails
  <1>20. CASE AnswerLost(r)
    BY <1>20 DEF AnswerLost, GiveUp
  <1>21. CASE CutOff(r)
    BY <1>21 DEF CutOff, GiveUp, Report, End
  <1>22. CASE LateActs(r)
    <2>1. PICK k \in Keys, o \in Object \union {Absent} :
             /\ late[r].write \in Write
             /\ Effect(k, late[r].write, o)
             /\ reported' = IF late[r].write.op = "create"
                            THEN reported \union {k} ELSE reported
      BY <1>22, LateEffect
    <2>2. UNCHANGED <<method, call, reply, target, stored>>
      BY <1>22 DEF LateActs
    <2>3. late[r].write.op \in {"create", "update", "delete"}
      BY <2>1 DEF Write
    <2>4. \A i \in made' : server'[i] # Absent
      BY <2>1, <2>3 DEF Effect
    <2>10. \A i \in made' : i \in made \/ (late[r].write.op = "create" /\ i = k)
      BY <2>1, <2>3 DEF Effect
    <2>5. \A q \in Resources, i \in Keys : Holds(q, i) => Holds(q, i)'
      BY <2>2
    <2>6. reported \subseteq reported' /\ (late[r].write.op = "create" => k \in reported')
      BY <2>1
    <2>7. made \subseteq Keys
      OBVIOUS
    <2>8. ASSUME NEW i \in made'
          PROVE  i \in reported' \/ i \in dropped' \/ \E q \in Resources : Holds(q, i)'
      <3>1. CASE late[r].write.op = "create" /\ i = k
        BY <2>6, <3>1
      <3>2. CASE i \in made /\ i \in reported
        BY <2>6, <3>2
      <3>4. CASE i \in made /\ i \in dropped /\ ~(late[r].write.op = "create" /\ i = k)
        BY <2>1, <2>3, <2>8, <3>4 DEF Effect
      <3>3. CASE i \in made /\ \E q \in Resources : Holds(q, i)
        <4> HIDE DEF Holds
        <4> QED
          BY <2>5, <2>7, <3>3
      <3> HIDE DEF Holds
      <3> QED
        BY <2>8, <2>10, <3>1, <3>2, <3>3, <3>4
    <2> HIDE DEF Holds, TypeOK, UsedInv
    <2> QED
      BY <2>4, <2>8, Zenon DEF HeldInv
  <1>23. CASE TokenMisses(r)
    BY <1>23 DEF TokenMisses, GiveUp
  <1> QED
    BY <1>1, <1>2, <1>3, <1>4, <1>5, <1>6, <1>7, <1>8, <1>9, <1>10, <1>11,
       <1>12, <1>13, <1>14, <1>15, <1>16, <1>17, <1>18, <1>19, <1>20,
       <1>21, <1>22, <1>23 DEF Method, Service

\* A name the service gives is given once: what is gone stays gone.
LEMMA GoneStays ==
  ASSUME TypeOK, NEW r \in Resources, PlaceOf(r), NamedOf(r), RequestOf(r),
         Method(r) \/ Service(r)
  PROVE  family.key = "assigned" =>
           \A k \in used : server[k] = Absent => server'[k] = Absent
  <1> USE LifecycleAssumption, AbsentAssumption DEF TypeOK, serverVars, callVars, historyVars
  <1>1. CASE CreateStart(r)
    BY <1>1 DEF CreateStart, Managed, Begin, Ask
  <1>2. CASE ReadStart(r)
    BY <1>2 DEF ReadStart, Managed, Begin, Ask
  <1>3. CASE ImportStart(r)
    BY <1>3 DEF ImportStart, Managed, Begin, Ask
  <1>4. CASE UpdateStart(r)
    BY <1>4 DEF UpdateStart, Managed, Begin, Ask
  <1>5. CASE DeleteStart(r)
    BY <1>5 DEF DeleteStart, Managed, Begin, Ask
  <1>6. CASE ReadsBack(r)
    BY <1>6 DEF ReadsBack, Writing, Answered, Ask
  <1>7. CASE FollowsUp(r)
    BY <1>7 DEF FollowsUp, Answered, Ask, NeedsFollowUp
  <1>8. CASE AsksDetails(r)
    BY <1>8 DEF AsksDetails, HasReadBack, Writing, Answered, Ask
  <1>9. CASE WriteEnds(r)
    BY <1>9 DEF WriteEnds, Writing, HasReadBack, Answered, SetWrittenState, SetState, End
  <1>10. CASE WriteFails(r)
    BY <1>10 DEF WriteFails, Writing, Answered, Report, End
  <1>11. CASE ReadEnds(r)
    BY <1>11 DEF ReadEnds, Reading, Answered, SetReadState, SetState, Managed, End
  <1>12. CASE ReadRemoves(r)
    BY <1>12 DEF ReadRemoves, Answered, NotFound, Forget, End
  <1>13. CASE ReadFails(r)
    BY <1>13 DEF ReadFails, Reading, Answered, End
  <1>14. CASE DeleteEnds(r)
    BY <1>14 DEF DeleteEnds, Answered, NotFound, Forget, End
  <1>15. CASE DeleteFails(r)
    BY <1>15 DEF DeleteFails, Answered, End
  <1>16. CASE ServiceWrites(r)
    <2>1. PICK k \in Keys, o \in Object \union {Absent} :
             /\ Effect(k, request[r], o)
             /\ family.key = "assigned" /\ request[r].op = "create" => k \notin used
      BY <1>16, WriteEffect
    <2>2. request[r].op \in {"create", "update", "delete"}
      BY <1>16 DEF ServiceWrites, RequestOf
    <2> QED
      BY <2>1, <2>2 DEF Effect
  <1>17. CASE ServiceMisses(r)
    BY <1>17 DEF ServiceMisses
  <1>18. CASE ServiceReads(r)
    BY <1>18 DEF ServiceReads
  <1>19. CASE ServiceDetails(r)
    BY <1>19 DEF ServiceDetails
  <1>20. CASE AnswerLost(r)
    BY <1>20 DEF AnswerLost, GiveUp
  <1>21. CASE CutOff(r)
    BY <1>21 DEF CutOff, GiveUp, Report, End
  <1>22. CASE LateActs(r)
    <2>1. PICK k \in Keys, o \in Object \union {Absent} :
             /\ late[r].write \in Write
             /\ Effect(k, late[r].write, o)
             /\ family.key = "assigned" /\ late[r].write.op = "create" => k \notin used
      BY <1>22, LateEffect
    <2>2. late[r].write.op \in {"create", "update", "delete"}
      BY <2>1 DEF Write
    <2> QED
      BY <2>1, <2>2 DEF Effect
  <1>23. CASE TokenMisses(r)
    BY <1>23 DEF TokenMisses, GiveUp
  <1> QED
    BY <1>1, <1>2, <1>3, <1>4, <1>5, <1>6, <1>7, <1>8, <1>9, <1>10, <1>11,
       <1>12, <1>13, <1>14, <1>15, <1>16, <1>17, <1>18, <1>19, <1>20,
       <1>21, <1>22, <1>23 DEF Method, Service

\* A method takes an object out of the state after it has gone.
LEMMA GoneSelf ==
  ASSUME TypeOK, NEW r \in Resources, PlaceOf(r), NamedOf(r), RequestOf(r), UsedInv, GoneOf(r),
         Method(r) \/ Service(r)
  PROVE  GoneOf(r)'
  <1> USE LifecycleAssumption, AbsentAssumption DEF TypeOK, serverVars, callVars, historyVars, State, PlaceOf, GoneOf, Losing, Reading, Writing, Managed
  <1>1. CASE CreateStart(r)
    BY <1>1 DEF CreateStart, Managed, Begin, Ask
  <1>2. CASE ReadStart(r)
    BY <1>2 DEF ReadStart, Managed, Begin, Ask
  <1>3. CASE ImportStart(r)
    BY <1>3 DEF ImportStart, Managed, Begin, Ask
  <1>4. CASE UpdateStart(r)
    BY <1>4 DEF UpdateStart, Managed, Begin, Ask
  <1>5. CASE DeleteStart(r)
    BY <1>5 DEF DeleteStart, Managed, Begin, Ask
  <1>6. CASE ReadsBack(r)
    BY <1>6 DEF ReadsBack, Writing, Answered, Ask
  <1>7. CASE FollowsUp(r)
    BY <1>7 DEF FollowsUp, Answered, Ask, NeedsFollowUp
  <1>8. CASE AsksDetails(r)
    BY <1>8 DEF AsksDetails, HasReadBack, Writing, Answered, Ask
  <1>9. CASE WriteEnds(r)
    BY <1>9 DEF WriteEnds, Writing, HasReadBack, Answered, SetWrittenState, SetState, End
  <1>10. CASE WriteFails(r)
    BY <1>10 DEF WriteFails, Writing, Answered, Report, End
  <1>11. CASE ReadEnds(r)
    BY <1>11 DEF ReadEnds, Reading, Answered, SetReadState, SetState, Managed, End
  <1>12. CASE ReadRemoves(r)
    BY <1>12 DEF ReadRemoves, Answered, NotFound, Forget, End
  <1>13. CASE ReadFails(r)
    BY <1>13 DEF ReadFails, Reading, Answered, End
  <1>14. CASE DeleteEnds(r)
    BY <1>14 DEF DeleteEnds, Answered, NotFound, Forget, End
  <1>15. CASE DeleteFails(r)
    BY <1>15 DEF DeleteFails, Answered, End
  <1>16. CASE ServiceWrites(r)
    <2>1. PICK k \in Keys, o \in Object \union {Absent} :
             Effect(k, request[r], o) /\ target' = [target EXCEPT ![r] = k]
      BY <1>16, WriteEffect
    <2>2. UNCHANGED <<family, method, call>> /\ call[r] \in {"write", "follow"} /\ reply'[r] = "ok"
      BY <1>16 DEF ServiceWrites
    <2>3. Losing(r)' => request[r].op = "delete"
      BY <2>2 DEF RequestOf
    <2> QED
      BY <2>1, <2>2, <2>3 DEF Effect
  <1>17. CASE ServiceMisses(r)
    BY <1>17 DEF ServiceMisses
  <1>18. CASE ServiceReads(r)
    BY <1>18 DEF ServiceReads
  <1>19. CASE ServiceDetails(r)
    BY <1>19 DEF ServiceDetails
  <1>20. CASE AnswerLost(r)
    BY <1>20 DEF AnswerLost, GiveUp
  <1>21. CASE CutOff(r)
    BY <1>21 DEF CutOff, GiveUp, Report, End
  <1>22. CASE LateActs(r)
    <2>1. UNCHANGED <<family, method, call, reply, target, stored>>
      BY <1>22 DEF LateActs
    <2>2. Losing(r) => Managed(r) /\ target[r] = stored[r].key
      OBVIOUS
    <2>3. Losing(r) => target[r] \in used
      BY <2>2 DEF UsedInv
    <2> QED
      BY <2>1, <2>3, GoneStays
  <1>23. CASE TokenMisses(r)
    BY <1>23 DEF TokenMisses, GiveUp
  <1> QED
    BY <1>1, <1>2, <1>3, <1>4, <1>5, <1>6, <1>7, <1>8, <1>9, <1>10, <1>11,
       <1>12, <1>13, <1>14, <1>15, <1>16, <1>17, <1>18, <1>19, <1>20,
       <1>21, <1>22, <1>23 DEF Method, Service

\* A calm resource has seen the object as it is.
LEMMA CalmSelf ==
  ASSUME TypeOK, NEW r \in Resources, PlaceOf(r), NamedOf(r), RequestOf(r), UsedInv, CalmOf(r),
         Method(r) \/ Service(r)
  PROVE  CalmOf(r)'
  <1> USE LifecycleAssumption, AbsentAssumption DEF TypeOK, serverVars, callVars, historyVars, State, PlaceOf, CalmOf, HasSeen, Reading, Writing, Managed
  <1>1. CASE CreateStart(r)
    BY <1>1 DEF CreateStart, Managed, Begin, Ask
  <1>2. CASE ReadStart(r)
    BY <1>2 DEF ReadStart, Managed, Begin, Ask
  <1>3. CASE ImportStart(r)
    BY <1>3 DEF ImportStart, Managed, Begin, Ask
  <1>4. CASE UpdateStart(r)
    BY <1>4 DEF UpdateStart, Managed, Begin, Ask
  <1>5. CASE DeleteStart(r)
    BY <1>5 DEF DeleteStart, Managed, Begin, Ask
  <1>6. CASE ReadsBack(r)
    BY <1>6 DEF ReadsBack, Writing, Answered, Ask
  <1>7. CASE FollowsUp(r)
    BY <1>7 DEF FollowsUp, Answered, Ask, NeedsFollowUp
  <1>8. CASE AsksDetails(r)
    BY <1>8 DEF AsksDetails, HasReadBack, Writing, Answered, Ask
  <1>9. CASE WriteEnds(r)
    <2>1. PICK s \in State :
             /\ s.key = target[r] /\ stored' = [stored EXCEPT ![r] = s]
             /\ \A f \in Fields \ s.unread : s.fields[f] = seen[r].fields[f]
      BY <1>9, StoresSeen
    <2>2. HasSeen(r)
      BY <1>9 DEF WriteEnds, HasReadBack, Answered
    <2>3. method'[r] = "none" /\ call'[r] = "none" /\ UNCHANGED <<server, calm>>
      BY <1>9 DEF WriteEnds, End
    <2>4. stored'[r] = s
      BY <2>1
    <2> QED
      BY <2>1, <2>2, <2>3, <2>4
  <1>10. CASE WriteFails(r)
    BY <1>10 DEF WriteFails, Writing, Answered, Report, End
  <1>11. CASE ReadEnds(r)
    <2>1. PICK s \in State :
             /\ s.key = target[r] /\ stored' = [stored EXCEPT ![r] = s]
             /\ \A f \in Fields \ s.unread : s.fields[f] = seen[r].fields[f]
      BY <1>11, StoresSeen
    <2>2. HasSeen(r)
      BY <1>11 DEF ReadEnds, HasReadBack, Answered
    <2>3. method'[r] = "none" /\ call'[r] = "none" /\ UNCHANGED <<server, calm>>
      BY <1>11 DEF ReadEnds, End
    <2>4. stored'[r] = s
      BY <2>1
    <2> QED
      BY <2>1, <2>2, <2>3, <2>4
  <1>12. CASE ReadRemoves(r)
    BY <1>12 DEF ReadRemoves, Answered, NotFound, Forget, End
  <1>13. CASE ReadFails(r)
    BY <1>13 DEF ReadFails, Reading, Answered, End
  <1>14. CASE DeleteEnds(r)
    BY <1>14 DEF DeleteEnds, Answered, NotFound, Forget, End
  <1>15. CASE DeleteFails(r)
    BY <1>15 DEF DeleteFails, Answered, End
  <1>16. CASE ServiceWrites(r)
    BY <1>16 DEF ServiceWrites, OthersSee
  <1>17. CASE ServiceMisses(r)
    BY <1>17 DEF ServiceMisses
  <1>18. CASE ServiceReads(r)
    BY <1>18 DEF ServiceReads
  <1>19. CASE ServiceDetails(r)
    BY <1>19 DEF ServiceDetails
  <1>20. CASE AnswerLost(r)
    BY <1>20 DEF AnswerLost, GiveUp
  <1>21. CASE CutOff(r)
    BY <1>21 DEF CutOff, GiveUp, Report, End
  <1>22. CASE LateActs(r)
    BY <1>22 DEF LateActs
  <1>23. CASE TokenMisses(r)
    BY <1>23 DEF TokenMisses, GiveUp
  <1> QED
    BY <1>1, <1>2, <1>3, <1>4, <1>5, <1>6, <1>7, <1>8, <1>9, <1>10, <1>11,
       <1>12, <1>13, <1>14, <1>15, <1>16, <1>17, <1>18, <1>19, <1>20,
       <1>21, <1>22, <1>23 DEF Method, Service

LEMMA WrittenKept ==
  ASSUME NEW r \in Resources, WrittenOf(r),
         UNCHANGED <<family, server, plan[r], stored[r], method[r], target[r]>>,
         Writing(r) /\ calm'[r] => calm[r],
         Writing(r) /\ (call'[r] \in {"follow", "get"} \/ (call'[r] = "write" /\ reply'[r] = "ok"))
         => call[r] \in {"follow", "get"} \/ (call[r] = "write" /\ reply[r] = "ok"),
         Pending(r) => Pending(r)'
  PROVE  WrittenOf(r)'
  <1>1. Due(r)' = Due(r)
    BY DEF Due, Unsure
  <1> QED
    BY <1>1, Zenon DEF WrittenOf, Writing

\* What a calm resource has written is on the service.
LEMMA WrittenSelf ==
  ASSUME TypeOK, NEW r \in Resources, PlaceOf(r), NamedOf(r), RequestOf(r), UsedInv, CalmOf(r), WrittenOf(r),
         Method(r) \/ Service(r)
  PROVE  WrittenOf(r)'
  <1> USE LifecycleAssumption, AbsentAssumption DEF TypeOK, serverVars, callVars, historyVars, PlaceOf, WrittenOf, Reading, Writing
  <1>1. CASE CreateStart(r)
    BY <1>1 DEF CreateStart, Managed, Begin, Ask
  <1>2. CASE ReadStart(r)
    BY <1>2 DEF ReadStart, Managed, Begin, Ask
  <1>3. CASE ImportStart(r)
    BY <1>3 DEF ImportStart, Managed, Begin, Ask
  <1>4. CASE UpdateStart(r)
    BY <1>4 DEF UpdateStart, Managed, Begin, Ask
  <1>5. CASE DeleteStart(r)
    BY <1>5 DEF DeleteStart, Managed, Begin, Ask
  <1>6. CASE ReadsBack(r)
    <2>1. UNCHANGED <<family, server, plan, stored, method, target>> /\ (Writing(r) /\ calm'[r] => calm[r])
      BY <1>6 DEF ReadsBack, Answered, Ask
    <2>2. Writing(r) /\ (call'[r] \in {"follow", "get"} \/ (call'[r] = "write" /\ reply'[r] = "ok"))
          => call[r] \in {"follow", "get"} \/ (call[r] = "write" /\ reply[r] = "ok")
      BY <1>6 DEF ReadsBack, Answered, Ask
    <2>3. Pending(r) => Pending(r)'
      BY <1>6 DEF ReadsBack, Answered, Ask, Pending
    <2> QED
      BY <2>1, <2>2, <2>3, WrittenKept
  <1>7. CASE FollowsUp(r)
    <2>1. UNCHANGED <<family, server, plan, stored, method, target>> /\ (Writing(r) /\ calm'[r] => calm[r])
      BY <1>7 DEF FollowsUp, Answered, Ask, NeedsFollowUp
    <2>2. Writing(r) /\ (call'[r] \in {"follow", "get"} \/ (call'[r] = "write" /\ reply'[r] = "ok"))
          => call[r] \in {"follow", "get"} \/ (call[r] = "write" /\ reply[r] = "ok")
      BY <1>7 DEF FollowsUp, Answered, Ask, NeedsFollowUp
    <2>3. Pending(r) => Pending(r)'
      BY <1>7 DEF FollowsUp, Answered, Ask, NeedsFollowUp, Pending
    <2> QED
      BY <2>1, <2>2, <2>3, WrittenKept
  <1>8. CASE AsksDetails(r)
    <2>1. UNCHANGED <<family, server, plan, stored, method, target>> /\ (Writing(r) /\ calm'[r] => calm[r])
      BY <1>8 DEF AsksDetails, HasReadBack, Answered, Ask
    <2>2. Writing(r) /\ (call'[r] \in {"follow", "get"} \/ (call'[r] = "write" /\ reply'[r] = "ok"))
          => call[r] \in {"follow", "get"} \/ (call[r] = "write" /\ reply[r] = "ok")
      BY <1>8 DEF AsksDetails, HasReadBack, Answered, Ask
    <2>3. Pending(r) => Pending(r)'
      BY <1>8 DEF AsksDetails, HasReadBack, Answered, Ask, Pending
    <2> QED
      BY <2>1, <2>2, <2>3, WrittenKept
  <1>9. CASE WriteEnds(r)
    BY <1>9 DEF WriteEnds, Writing, HasReadBack, Answered, SetWrittenState, SetState, End
  <1>10. CASE WriteFails(r)
    BY <1>10 DEF WriteFails, Writing, Answered, Report, End
  <1>11. CASE ReadEnds(r)
    BY <1>11 DEF ReadEnds, Reading, Answered, SetReadState, SetState, Managed, End
  <1>12. CASE ReadRemoves(r)
    BY <1>12 DEF ReadRemoves, Answered, NotFound, Forget, End
  <1>13. CASE ReadFails(r)
    BY <1>13 DEF ReadFails, Reading, Answered, End
  <1>14. CASE DeleteEnds(r)
    BY <1>14 DEF DeleteEnds, Answered, NotFound, Forget, End
  <1>15. CASE DeleteFails(r)
    BY <1>15 DEF DeleteFails, Answered, End
  <1>16. CASE ServiceWrites(r)
    <2> DEFINE w == request[r]
    <2>1. PICK k \in Keys, o \in Object \union {Absent} :
             /\ Effect(k, w, o)
             /\ target' = [target EXCEPT ![r] = k]
             /\ (w.op = "create" /\ family.key = "assigned") \/ k = target[r]
      BY <1>16, WriteEffect
    <2>2. /\ UNCHANGED <<family, method, call, request, plan, stored>> /\ reply[r] = "none"
          /\ call[r] \in {"write", "follow"} /\ (calm'[r] => calm[r])
      BY <1>16 DEF ServiceWrites, OthersSee
    <2> SUFFICES ASSUME calm[r], Writing(r)
                 PROVE  /\ server'[k] # Absent
                        /\ \A f \in Due(r) : (f = "status" => ~Pending(r)') =>
                             server'[k].fields[f] = plan[r].fields[f]
      <3>1. Due(r)' = Due(r)
        BY <2>2 DEF Due, Unsure
      <3>2. target'[r] = k
        BY <2>1
      <3> HIDE DEF TypeOK
      <3> QED
        BY <2>2, <3>1, <3>2, Zenon DEF WrittenOf, Writing
    <2>3. /\ o \in Object /\ o # Absent /\ server'[k] = o /\ w.op \in {"create", "update"}
          /\ \A f \in DOMAIN w.fields : o.fields[f] = w.fields[f]
          /\ w.op = "update" => k = target[r] /\ server[k] # Absent
          /\ w.op = "update" =>
               \A f \in Fields \ DOMAIN w.fields : o.fields[f] = server[k].fields[f]
      BY <2>1, <2>2 DEF Effect, RequestOf
    <2>4. plan[r] \in Plan /\ plan[r].fields \in [Fields -> Values]
      BY DEF RequestOf, Plan
    <2>5. Due(r) \subseteq Fields
      BY DEF Due
    <2>6. ASSUME NEW f \in Due(r), f = "status" => ~Pending(r)'
          PROVE  o.fields[f] = plan[r].fields[f]
      <3>1. CASE call[r] = "write" /\ method[r] = "Create"
        <4>1. w.op = "create" /\ w.fields = CreateFields(plan[r])
          BY <3>1 DEF RequestOf
        <4>2. ~(family.update = "status" /\ f = "status")
          BY <2>2, <2>6, <4>1 DEF Pending
        <4>3. f \in DOMAIN w.fields /\ w.fields[f] = plan[r].fields[f]
          BY <2>4, <2>5, <4>1, <4>2 DEF CreateFields
        <4> QED
          BY <2>3, <4>3
      <3>2. CASE call[r] = "write" /\ method[r] = "Update"
        <4>1. /\ w.op = "update" /\ w.fields = UpdateFields(plan[r], stored[r])
              /\ family.update \in {"patch", "replace", "diff", "status"}
          BY <3>2, LifecycleAssumption DEF RequestOf, Family
        <4>2. \A x \in Fields \ stored[r].unread : stored[r].fields[x] = server[k].fields[x]
          BY <2>2, <2>3, <3>2, <4>1 DEF CalmOf
        <4>3. family.update \in {"diff", "status"} /\ f \notin Differing(plan[r], stored[r]) =>
                plan[r].fields[f] = server[k].fields[f]
          <5>1. family.update \in {"diff", "status"} => f \in Fields \ stored[r].unread
            BY <2>6, <3>2 DEF Due, Unsure
          <5> QED
            BY <4>2, <5>1 DEF Differing
        <4>4. CASE family.update = "replace"
          BY <2>3, <2>4, <2>5, <4>1, <4>4 DEF UpdateFields
        <4>5. CASE family.update = "patch"
          <5>1. plan[r].fields[f] # Unset
            BY <3>2, <4>5 DEF Due
          <5>2. w.fields = [x \in {g \in Fields : plan[r].fields[g] # Unset} |-> plan[r].fields[x]]
            BY <4>1, <4>5 DEF UpdateFields
          <5> DEFINE S == {g \in Fields : plan[r].fields[g] # Unset}
          <5>3. f \in S
            BY <2>5, <5>1
          <5> HIDE DEF S, TypeOK
          <5>4. w.fields = [x \in S |-> plan[r].fields[x]]
            BY <5>2 DEF S
          <5>5. f \in DOMAIN w.fields /\ w.fields[f] = plan[r].fields[f]
            BY <5>3, <5>4
          <5> QED
            BY <2>3, <5>5
        <4>6. CASE family.update = "diff"
          <5> DEFINE D == Differing(plan[r], stored[r])
          <5> HIDE DEF D, TypeOK
          <5>1. w.fields = [x \in D |-> plan[r].fields[x]]
            BY <4>1, <4>6 DEF UpdateFields, D
          <5>2. CASE f \in D
            <6>1. f \in DOMAIN w.fields /\ w.fields[f] = plan[r].fields[f]
              BY <5>1, <5>2
            <6> QED
              BY <2>3, <6>1
          <5>3. CASE f \notin D
            <6>1. f \in Fields \ DOMAIN w.fields
              BY <2>5, <5>1, <5>3
            <6>2. plan[r].fields[f] = server[k].fields[f]
              BY <4>3, <4>6, <5>3 DEF D
            <6> QED
              BY <2>3, <4>1, <6>1, <6>2
          <5> QED
            BY <5>2, <5>3
        <4>7. CASE family.update = "status"
          <5>1. w.fields = [x \in Fields \cap {"status"} |-> plan[r].fields[x]]
            BY <4>1, <4>7 DEF UpdateFields
          <5>2. \A x \in Differing(plan[r], stored[r]) : x = "status"
            BY <3>2, <4>7 DEF RequestOf
          <5> HIDE DEF TypeOK
          <5>3. CASE f = "status"
            <6>1. f \in DOMAIN w.fields /\ w.fields[f] = plan[r].fields[f]
              BY <2>5, <5>1, <5>3
            <6> QED
              BY <2>3, <6>1
          <5>4. CASE f # "status"
            <6>1. f \in Fields \ DOMAIN w.fields
              BY <2>5, <5>1, <5>4
            <6>2. plan[r].fields[f] = server[k].fields[f]
              BY <4>3, <4>7, <5>2, <5>4
            <6> QED
              BY <2>3, <4>1, <6>1, <6>2
          <5> QED
            BY <5>3, <5>4
        <4> QED
          BY <4>1, <4>4, <4>5, <4>6, <4>7
      <3>3. CASE call[r] = "follow"
        <4>1. /\ w.op = "update" /\ w.fields = [x \in {"status"} |-> plan[r].fields[x]]
          BY <3>3 DEF RequestOf
        <4>2. CASE f = "status"
          BY <2>3, <4>1, <4>2
        <4>3. CASE f # "status"
          <5>1. server[k].fields[f] = plan[r].fields[f]
            BY <2>3, <3>3, <4>1, <4>3 DEF WrittenOf
          <5> QED
            BY <2>3, <2>5, <4>1, <4>3, <5>1
        <4> QED
          BY <4>2, <4>3
      <3> QED
        BY <2>2, <3>1, <3>2, <3>3 DEF Writing
    <2> QED
      BY <2>3, <2>6
  <1>17. CASE ServiceMisses(r)
    <2>1. UNCHANGED <<family, server, plan, stored, method, target>> /\ (Writing(r) /\ calm'[r] => calm[r])
      BY <1>17 DEF ServiceMisses
    <2>2. Writing(r) /\ (call'[r] \in {"follow", "get"} \/ (call'[r] = "write" /\ reply'[r] = "ok"))
          => call[r] \in {"follow", "get"} \/ (call[r] = "write" /\ reply[r] = "ok")
      BY <1>17 DEF ServiceMisses
    <2>3. Pending(r) => Pending(r)'
      BY <1>17 DEF ServiceMisses, Pending
    <2> QED
      BY <2>1, <2>2, <2>3, WrittenKept
  <1>18. CASE ServiceReads(r)
    <2>1. UNCHANGED <<family, server, plan, stored, method, target>> /\ (Writing(r) /\ calm'[r] => calm[r])
      BY <1>18 DEF ServiceReads
    <2>2. Writing(r) /\ (call'[r] \in {"follow", "get"} \/ (call'[r] = "write" /\ reply'[r] = "ok"))
          => call[r] \in {"follow", "get"} \/ (call[r] = "write" /\ reply[r] = "ok")
      BY <1>18 DEF ServiceReads
    <2>3. Pending(r) => Pending(r)'
      BY <1>18 DEF ServiceReads, Pending
    <2> QED
      BY <2>1, <2>2, <2>3, WrittenKept
  <1>19. CASE ServiceDetails(r)
    <2>1. UNCHANGED <<family, server, plan, stored, method, target>> /\ (Writing(r) /\ calm'[r] => calm[r])
      BY <1>19 DEF ServiceDetails
    <2>2. Writing(r) /\ (call'[r] \in {"follow", "get"} \/ (call'[r] = "write" /\ reply'[r] = "ok"))
          => call[r] \in {"follow", "get"} \/ (call[r] = "write" /\ reply[r] = "ok")
      BY <1>19 DEF ServiceDetails
    <2>3. Pending(r) => Pending(r)'
      BY <1>19 DEF ServiceDetails, Pending
    <2> QED
      BY <2>1, <2>2, <2>3, WrittenKept
  <1>20. CASE AnswerLost(r)
    <2>1. UNCHANGED <<family, server, plan, stored, method, target>> /\ (Writing(r) /\ calm'[r] => calm[r])
      BY <1>20 DEF AnswerLost, GiveUp
    <2>2. Writing(r) /\ (call'[r] \in {"follow", "get"} \/ (call'[r] = "write" /\ reply'[r] = "ok"))
          => call[r] \in {"follow", "get"} \/ (call[r] = "write" /\ reply[r] = "ok")
      BY <1>20 DEF AnswerLost, GiveUp
    <2>3. Pending(r) => Pending(r)'
      BY <1>20 DEF AnswerLost, GiveUp, Pending
    <2> QED
      BY <2>1, <2>2, <2>3, WrittenKept
  <1>21. CASE CutOff(r)
    BY <1>21 DEF CutOff, GiveUp, Report, End
  <1>22. CASE LateActs(r)
    BY <1>22 DEF LateActs
  <1>23. CASE TokenMisses(r)
    <2>1. UNCHANGED <<family, server, plan, stored, method, target>> /\ (Writing(r) /\ calm'[r] => calm[r])
      BY <1>23 DEF TokenMisses, GiveUp
    <2>2. Writing(r) /\ (call'[r] \in {"follow", "get"} \/ (call'[r] = "write" /\ reply'[r] = "ok"))
          => call[r] \in {"follow", "get"} \/ (call[r] = "write" /\ reply[r] = "ok")
      BY <1>23 DEF TokenMisses, GiveUp
    <2>3. Pending(r) => Pending(r)'
      BY <1>23 DEF TokenMisses, GiveUp, Pending
    <2> QED
      BY <2>1, <2>2, <2>3, WrittenKept
  <1> QED
    BY <1>1, <1>2, <1>3, <1>4, <1>5, <1>6, <1>7, <1>8, <1>9, <1>10, <1>11,
       <1>12, <1>13, <1>14, <1>15, <1>16, <1>17, <1>18, <1>19, <1>20,
       <1>21, <1>22, <1>23 DEF Method, Service

\* A diagnostic and a request that is given up keep the types.
LEMMA ReportTyped ==
  ASSUME TypeOK, NEW r \in Resources, PlaceOf(r), RequestOf(r), Report(r)
  PROVE  /\ reported' \subseteq Keys
         /\ unsettled' \in [Keys -> SUBSET Secrets]
         /\ calm' \in [Resources -> BOOLEAN]
         /\ UNCHANGED <<stored, made, dropped>>
  <1>1. reported' \subseteq Keys
    BY DEF Report, TypeOK
  <1>2. CASE method[r] = "Update" /\ request[r].secret # NoSecret
    <2>1. target[r] \in Keys
      BY <1>2 DEF PlaceOf, TypeOK, Managed, State
    <2>2. request[r].secret \in Secrets
      BY <1>2 DEF RequestOf, TypeOK, Writing, Write, Secrets
    <2>3. unsettled[target[r]] \union {request[r].secret} \in SUBSET Secrets
      BY <2>1, <2>2 DEF TypeOK
    <2> QED
      BY <1>1, <1>2, <2>1, <2>3 DEF Report, TypeOK
  <1>3. CASE ~(method[r] = "Update" /\ request[r].secret # NoSecret)
    BY <1>1, <1>3 DEF Report, TypeOK
  <1> QED
    BY <1>2, <1>3

\* So does a resource that leaves the state.
LEMMA ForgetTyped ==
  ASSUME TypeOK, NEW r \in Resources, Managed(r), Forget(r)
  PROVE  /\ stored' \in [Resources -> State \union {Absent}]
         /\ dropped' \subseteq Keys
         /\ unsettled' \in [Keys -> SUBSET Secrets]
  <1>1. stored[r].key \in Keys
    BY DEF Managed, TypeOK, State
  <1>2. stored' = [stored EXCEPT ![r] = Absent] /\ dropped' \subseteq dropped \union {stored[r].key}
    BY DEF Forget
  <1>3. unsettled' \in [Keys -> SUBSET Secrets]
    <2>1. CASE server[stored[r].key] # Absent
      <3>1. server[stored[r].key].secret \in Secrets
        BY <1>1, <2>1 DEF TypeOK, Object
      <3> QED
        BY <1>1, <3>1 DEF TypeOK, Forget
    <2>2. CASE server[stored[r].key] = Absent
      BY <2>2 DEF TypeOK, Forget
    <2> QED
      BY <2>1, <2>2
  <1> QED
    BY <1>1, <1>2, <1>3 DEF TypeOK

LEMMA GiveUpTyped ==
  ASSUME TypeOK, NEW r \in Resources, PlaceOf(r), RequestOf(r), GiveUp(r)
  PROVE  late' \in [Resources -> Late \union {Absent}]
  <1>1. CASE call[r] \in {"write", "follow"} /\ reply[r] = "none"
    <2>1. request[r] \in Write
      BY <1>1 DEF PlaceOf, RequestOf, TypeOK, Writing, Reading
    <2>2. [key |-> target[r], write |-> request[r]] \in Late
      BY <2>1 DEF Late, TypeOK
    <2> QED
      BY <1>1, <2>2 DEF GiveUp, TypeOK
  <1>2. CASE ~(call[r] \in {"write", "follow"} /\ reply[r] = "none")
    BY <1>2 DEF GiveUp, TypeOK
  <1> QED
    BY <1>1, <1>2

\* So do the changes of the variables that belong to a method.
LEMMA BeginTyped ==
  ASSUME TypeOK, NEW r \in Resources, NEW k \in Keys \union {NoKey},
         NEW m \in {"Create", "Read", "Update", "Delete", "Import"},
         NEW c \in {"write", "get"}, NEW p \in Plan \union {Absent},
         NEW w \in Write \union {Absent}, Begin(r, m, c, k, p, w),
         calm' \in [Resources -> BOOLEAN]
  PROVE  TypeOK'
  BY DEF Begin, Ask, TypeOK, serverVars

LEMMA EndTyped ==
  ASSUME TypeOK, NEW r \in Resources, End(r), UNCHANGED <<family, server, used>>,
         late' \in [Resources -> Late \union {Absent}],
         stored' \in [Resources -> State \union {Absent}], made' \subseteq Keys,
         reported' \subseteq Keys, unsettled' \in [Keys -> SUBSET Secrets],
         dropped' \subseteq Keys, calm' \in [Resources -> BOOLEAN]
  PROVE  TypeOK'
  BY DEF End, TypeOK

\* Every variable keeps its type.
LEMMA TypeSelf ==
  ASSUME TypeOK, NEW r \in Resources, UsedInv, PlaceOf(r), NamedOf(r), RequestOf(r),
         Method(r) \/ Service(r)
  PROVE  TypeOK'
  <1> USE LifecycleAssumption, AbsentAssumption DEF TypeOK, serverVars, callVars, historyVars, State, UsedInv, PlaceOf, HasSeen, Reading, Writing, Managed
  <1>1. CASE CreateStart(r)
    <2>1. PICK p \in Plan, k \in CreateKeys :
             Begin(r, "Create", "write", k, p,
                   [op |-> "create", fields |-> CreateFields(p),
                    secret |-> p.secret, old |-> NoSecret])
      BY <1>1 DEF CreateStart
    <2> HIDE DEF TypeOK
    <2>2. [op |-> "create", fields |-> CreateFields(p),
           secret |-> p.secret, old |-> NoSecret] \in Write
      BY CreateSends DEF Write, Plan, Secrets
    <2>3. calm' \in [Resources -> BOOLEAN]
      BY <1>1 DEF CreateStart, TypeOK
    <2> QED
      BY <2>1, <2>2, <2>3, BeginTyped, CreateKeysNamed
  <1>2. CASE ReadStart(r)
    <2>1. stored[r].key \in Keys /\ calm' \in [Resources -> BOOLEAN]
      BY <1>2 DEF ReadStart
    <2> HIDE DEF TypeOK
    <2> QED
      BY <1>2, <2>1, BeginTyped DEF ReadStart
  <1>3. CASE ImportStart(r)
    <2>1. calm' \in [Resources -> BOOLEAN]
      BY <1>3 DEF ImportStart
    <2>2. (IF family.key = "singleton" THEN CreateKeys ELSE Keys) \subseteq Keys \union {NoKey}
      BY CreateKeysNamed
    <2> HIDE DEF TypeOK
    <2> QED
      BY <1>3, <2>1, <2>2, BeginTyped DEF ImportStart
  <1>4. CASE UpdateStart(r)
    <2>1. PICK p \in Plan, old \in Secrets, enables \in Enables :
             Begin(r, "Update", "write", stored[r].key, p,
                   [op |-> "update", fields |-> UpdateFields(p, stored[r]),
                    secret |-> IF SendsSecret(p, stored[r], enables) THEN p.secret ELSE NoSecret,
                    old |-> old])
      BY <1>4 DEF UpdateStart
    <2>2. stored[r] \in State /\ family.update # "none" /\ calm' = calm
      BY <1>4 DEF UpdateStart, Managed
    <2>3. UpdateFields(p, stored[r]) \in SubFunctions
      BY <2>2, UpdateSends
    <2>4. calm' \in [Resources -> BOOLEAN] /\ stored[r].key \in Keys
      BY <2>2
    <2> HIDE DEF TypeOK
    <2>5. p.secret \in Secrets
      BY DEF Plan
    <2>6. (IF SendsSecret(p, stored[r], enables) THEN p.secret ELSE NoSecret) \in Secrets
      BY <2>5 DEF Secrets
    <2>7. [op |-> "update", fields |-> UpdateFields(p, stored[r]),
           secret |-> IF SendsSecret(p, stored[r], enables) THEN p.secret ELSE NoSecret,
           old |-> old] \in Write
      BY <2>3, <2>6 DEF Write
    <2> QED
      BY <2>1, <2>4, <2>7, BeginTyped
  <1>5. CASE DeleteStart(r)
    <2>1. stored[r].key \in Keys /\ calm' \in [Resources -> BOOLEAN]
      BY <1>5 DEF DeleteStart
    <2> HIDE DEF TypeOK
    <2> QED
      BY <1>5, <2>1, DeleteSends, BeginTyped DEF DeleteStart
  <1>6. CASE ReadsBack(r)
    BY <1>6 DEF ReadsBack, Writing, Answered, Ask
  <1>7. CASE FollowsUp(r)
    <2> DEFINE w == [op |-> "update", fields |-> [f \in {"status"} |-> plan[r].fields[f]],
                     secret |-> NoSecret, old |-> NoSecret]
    <2>1. /\ request' = [request EXCEPT ![r] = w] /\ "status" \in Fields /\ plan[r] \in Plan
      BY <1>7 DEF FollowsUp, NeedsFollowUp, RequestOf
    <2>2. plan[r].fields \in [Fields -> Values]
      BY <2>1 DEF Plan
    <2>3. [f \in {"status"} |-> plan[r].fields[f]] \in [{"status"} -> Values]
      BY <2>1, <2>2
    <2>4. [f \in {"status"} |-> plan[r].fields[f]] \in SubFunctions
      BY <2>1, <2>3, InSubFunctions
    <2>5. w \in Write
      BY <2>4 DEF Write, Secrets
    <2> HIDE DEF w
    <2>6. /\ call' = [call EXCEPT ![r] = "follow"] /\ reply' = [reply EXCEPT ![r] = "none"]
          /\ UNCHANGED <<serverVars, method, target, plan, seen, stored, historyVars>>
      BY <1>7 DEF FollowsUp, Ask
    <2> QED
      BY <2>1, <2>5, <2>6
  <1>8. CASE AsksDetails(r)
    BY <1>8 DEF AsksDetails, HasReadBack, Writing, Answered, Ask
  <1>9. CASE WriteEnds(r)
    <2>1. /\ End(r) /\ UNCHANGED <<family, server, used, late, unsettled, calm>>
          /\ made' \subseteq made \union {target[r]} /\ HasSeen(r)
      BY <1>9 DEF WriteEnds, HasReadBack, Answered
    <2>2. PICK s \in State :
             /\ stored' = [stored EXCEPT ![r] = s]
             /\ reported' = reported \ {target[r]}
             /\ dropped' = dropped \ {target[r]}
      BY <1>9, StoresSeen
    <2>3. target[r] \in Keys
      BY <2>1
    <2>4. /\ stored' \in [Resources -> State \union {Absent}] /\ made' \subseteq Keys
          /\ reported' \subseteq Keys /\ dropped' \subseteq Keys
          /\ unsettled' \in [Keys -> SUBSET Secrets]
          /\ calm' \in [Resources -> BOOLEAN] /\ late' \in [Resources -> Late \union {Absent}]
      BY <2>1, <2>2, <2>3
    <2> HIDE DEF TypeOK
    <2> QED
      BY <2>1, <2>4, EndTyped
  <1>10. CASE WriteFails(r)
    <2>1. /\ End(r) /\ Report(r) /\ UNCHANGED <<family, server, used, late>>
      BY <1>10 DEF WriteFails
    <2>2. late' \in [Resources -> Late \union {Absent}] /\ made \subseteq Keys
          /\ stored \in [Resources -> State \union {Absent}] /\ dropped \subseteq Keys
      BY <2>1
    <2> HIDE DEF TypeOK
    <2> QED
      BY <2>1, <2>2, ReportTyped, EndTyped
  <1>11. CASE ReadEnds(r)
    <2>1. /\ End(r) /\ UNCHANGED <<family, server, used, late, unsettled, calm>>
          /\ made' \subseteq made \union {target[r]} /\ HasSeen(r)
      BY <1>11 DEF ReadEnds, HasReadBack, Answered
    <2>2. PICK s \in State :
             /\ stored' = [stored EXCEPT ![r] = s]
             /\ reported' = reported \ {target[r]}
             /\ dropped' = dropped \ {target[r]}
      BY <1>11, StoresSeen
    <2>3. target[r] \in Keys
      BY <2>1
    <2>4. /\ stored' \in [Resources -> State \union {Absent}] /\ made' \subseteq Keys
          /\ reported' \subseteq Keys /\ dropped' \subseteq Keys
          /\ unsettled' \in [Keys -> SUBSET Secrets]
          /\ calm' \in [Resources -> BOOLEAN] /\ late' \in [Resources -> Late \union {Absent}]
      BY <2>1, <2>2, <2>3
    <2> HIDE DEF TypeOK
    <2> QED
      BY <2>1, <2>4, EndTyped
  <1>12. CASE ReadRemoves(r)
    <2>1. /\ End(r) /\ Forget(r) /\ Managed(r)
          /\ UNCHANGED <<family, server, used, late, made, reported, calm>>
      BY <1>12 DEF ReadRemoves
    <2>2. /\ late' \in [Resources -> Late \union {Absent}] /\ made' \subseteq Keys
          /\ reported' \subseteq Keys /\ calm' \in [Resources -> BOOLEAN]
      BY <2>1
    <2> HIDE DEF TypeOK, Managed
    <2> QED
      BY <2>1, <2>2, ForgetTyped, EndTyped
  <1>13. CASE ReadFails(r)
    BY <1>13 DEF ReadFails, Reading, Answered, End
  <1>14. CASE DeleteEnds(r)
    <2>1. /\ End(r) /\ Forget(r) /\ Managed(r)
          /\ UNCHANGED <<family, server, used, late, made, reported, calm>>
      BY <1>14 DEF DeleteEnds
    <2>2. /\ late' \in [Resources -> Late \union {Absent}] /\ made' \subseteq Keys
          /\ reported' \subseteq Keys /\ calm' \in [Resources -> BOOLEAN]
      BY <2>1
    <2> HIDE DEF TypeOK, Managed
    <2> QED
      BY <2>1, <2>2, ForgetTyped, EndTyped
  <1>15. CASE DeleteFails(r)
    BY <1>15 DEF DeleteFails, Answered, End
  <1>16. CASE ServiceWrites(r)
    <2>1. PICK k \in Keys, o \in Object \union {Absent} :
             Effect(k, request[r], o) /\ target' = [target EXCEPT ![r] = k]
      BY <1>16, WriteEffect
    <2>2. request[r].op \in {"create", "update", "delete"}
      BY <1>16 DEF ServiceWrites, RequestOf
    <2>3. /\ server' \in [Keys -> Object \union {Absent}]
          /\ used' \subseteq Keys /\ made' \subseteq Keys /\ dropped' \subseteq Keys
      BY <2>1, <2>2 DEF Effect
    <2>4. calm' \in [Resources -> BOOLEAN]
      BY <1>16, Zenon DEF ServiceWrites, OthersSee
    <2>5. /\ reply' = [reply EXCEPT ![r] = "ok"]
          /\ UNCHANGED <<family, late, method, call, request, plan, seen, stored,
                         reported, unsettled>>
      BY <1>16 DEF ServiceWrites
    <2> QED
      BY <2>1, <2>3, <2>4, <2>5
  <1>17. CASE ServiceMisses(r)
    BY <1>17 DEF ServiceMisses
  <1>18. CASE ServiceReads(r)
    <2>1. target[r] \in Keys /\ server[target[r]] # Absent
      BY <1>18 DEF ServiceReads
    <2>2. server[target[r]].fields \in [Fields -> Values]
      BY <2>1 DEF Object
    <2>3. PICK o \in Omissions, S \in SUBSET SetFields(target[r]) :
            seen' = [seen EXCEPT ![r] =
              [fields |-> server[target[r]].fields, shown |-> S, omitted |-> o]]
      BY <1>18 DEF ServiceReads
    <2>4. [fields |-> server[target[r]].fields, shown |-> S, omitted |-> o] \in Seen
      BY <2>2 DEF Seen, SetFields
    <2>5. seen' \in [Resources -> Seen \union {Absent}]
      BY <2>3, <2>4
    <2>6. calm' \in [Resources -> BOOLEAN]
      BY <1>18, Zenon DEF ServiceReads
    <2>7. /\ reply' = [reply EXCEPT ![r] = "ok"]
          /\ UNCHANGED <<serverVars, method, call, target, request, plan, stored,
                         made, reported, dropped, unsettled>>
      BY <1>18 DEF ServiceReads
    <2> QED
      BY <2>5, <2>6, <2>7
  <1>19. CASE ServiceDetails(r)
    BY <1>19 DEF ServiceDetails
  <1>20. CASE AnswerLost(r)
    <2>1. late' \in [Resources -> Late \union {Absent}]
      BY <1>20, GiveUpTyped DEF AnswerLost
    <2> QED
      BY <1>20, <2>1 DEF AnswerLost
  <1>21. CASE CutOff(r)
    <2>1. /\ End(r) /\ Report(r) /\ GiveUp(r) /\ UNCHANGED <<family, server, used>>
      BY <1>21 DEF CutOff
    <2>2. /\ made \subseteq Keys /\ stored \in [Resources -> State \union {Absent}]
          /\ dropped \subseteq Keys
      OBVIOUS
    <2> HIDE DEF TypeOK
    <2> QED
      BY <2>1, <2>2, ReportTyped, GiveUpTyped, EndTyped
  <1>22. CASE LateActs(r)
    <2>1. PICK k \in Keys, o \in Object \union {Absent} :
             /\ late[r].write \in Write
             /\ Effect(k, late[r].write, o)
             /\ reported' = IF late[r].write.op = "create"
                            THEN reported \union {k} ELSE reported
      BY <1>22, LateEffect
    <2>2. late[r].write.op \in {"create", "update", "delete"}
      BY <2>1 DEF Write
    <2>3. /\ server' \in [Keys -> Object \union {Absent}]
          /\ used' \subseteq Keys /\ made' \subseteq Keys /\ dropped' \subseteq Keys
      BY <2>1, <2>2 DEF Effect
    <2>4. calm' \in [Resources -> BOOLEAN] /\ reported' \subseteq Keys
      BY <1>22, <2>1 DEF LateActs
    <2>5. /\ late' = [late EXCEPT ![r] = Absent]
          /\ UNCHANGED <<family, callVars, stored, unsettled>>
      BY <1>22 DEF LateActs
    <2> QED
      BY <2>3, <2>4, <2>5
  <1>23. CASE TokenMisses(r)
    <2>1. late' \in [Resources -> Late \union {Absent}]
      BY <1>23, GiveUpTyped DEF TokenMisses
    <2> QED
      BY <1>23, <2>1 DEF TokenMisses
  <1> QED
    BY <1>1, <1>2, <1>3, <1>4, <1>5, <1>6, <1>7, <1>8, <1>9, <1>10, <1>11,
       <1>12, <1>13, <1>14, <1>15, <1>16, <1>17, <1>18, <1>19, <1>20,
       <1>21, <1>22, <1>23 DEF Method, Service

\* What other administrators do to the service.
LEMMA ElsewhereEffect ==
  ASSUME TypeOK, UsedInv, Elsewhere
  PROVE  \E k \in Keys, o \in Object \union {Absent} :
           /\ server' = [server EXCEPT ![k] = o]
           /\ used \subseteq used' /\ used' \subseteq used \union {k} /\ k \in used'
           /\ made' \subseteq made /\ (o = Absent => k \notin made')
           /\ dropped' \subseteq dropped /\ \A i \in made' : i \in dropped => i \in dropped'
           /\ family.key = "assigned" /\ server[k] = Absent => k \notin used
           /\ server[k] # Absent /\ o # Absent => o.secret = server[k].secret
  <1>1. PICK k \in Keys :
          \/ /\ server[k] # Absent
             /\ \E given \in [Fields -> Values] :
                   server' = [server EXCEPT ![k].fields = given]
             /\ UNCHANGED <<used, made, dropped>>
          \/ /\ server[k] # Absent
             /\ server' = [server EXCEPT ![k] = Absent]
             /\ made' = made \ {k}
             /\ dropped' = dropped \ {k}
             /\ UNCHANGED used
          \/ /\ server[k] = Absent /\ (family.key = "assigned" => k \notin used)
             /\ family.key = "singleton" => k \in used
             /\ \E given \in [Fields -> Values] :
                   server' = [server EXCEPT ![k] =
                                [fields |-> given, secret |-> NoSecret]]
             /\ used' = used \union {k}
             /\ UNCHANGED <<made, dropped>>
    BY DEF Elsewhere
  <1>2. CASE /\ server[k] # Absent
             /\ \E given \in [Fields -> Values] :
                   server' = [server EXCEPT ![k].fields = given]
             /\ UNCHANGED <<used, made, dropped>>
    <2>1. PICK given \in [Fields -> Values] : server' = [server EXCEPT ![k].fields = given]
      BY <1>2
    <2>2. server[k] \in Object /\ k \in used
      BY <1>2 DEF TypeOK, UsedInv
    <2> DEFINE o == [server[k] EXCEPT !.fields = given]
    <2>3. o \in Object /\ o.secret = server[k].secret /\ server' = [server EXCEPT ![k] = o]
      BY <2>1, <2>2 DEF Object
    <2> HIDE DEF o
    <2>4. o # Absent
      BY <2>3, AbsentAssumption
    <2> QED
      BY <1>2, <2>2, <2>3, <2>4
  <1>3. CASE /\ server[k] # Absent
             /\ server' = [server EXCEPT ![k] = Absent]
             /\ made' = made \ {k}
             /\ dropped' = dropped \ {k}
             /\ UNCHANGED used
    BY <1>3 DEF UsedInv
  <1>4. CASE /\ server[k] = Absent /\ (family.key = "assigned" => k \notin used)
             /\ family.key = "singleton" => k \in used
             /\ \E given \in [Fields -> Values] :
                   server' = [server EXCEPT ![k] =
                                [fields |-> given, secret |-> NoSecret]]
             /\ used' = used \union {k}
             /\ UNCHANGED <<made, dropped>>
    <2>1. PICK given \in [Fields -> Values] :
             server' = [server EXCEPT ![k] = [fields |-> given, secret |-> NoSecret]]
      BY <1>4
    <2> DEFINE o == [fields |-> given, secret |-> NoSecret]
    <2>2. o \in Object
      BY DEF Object, Secrets
    <2> HIDE DEF o
    <2>3. server' = [server EXCEPT ![k] = o] /\ o # Absent
      BY <2>1, <2>2, AbsentAssumption DEF o
    <2> QED
      BY <1>4, <2>2, <2>3
  <1> QED
    BY <1>1, <1>2, <1>3, <1>4

\* A resource that does nothing keeps what is true of it, whatever the others
\* do to the service.
LEMMA OthersKeep ==
  ASSUME TypeOK, UsedInv, NEW q \in Resources, PlaceOf(q), NamedOf(q), RequestOf(q),
         GoneOf(q), CalmOf(q), WrittenOf(q),
         UNCHANGED <<method[q], call[q], reply[q], target[q], request[q],
                     plan[q], seen[q], stored[q], late[q], family>>,
         calm'[q] => calm[q] /\ server' = server,
         family.key = "assigned" => \A k \in used : server[k] = Absent => server'[k] = Absent
  PROVE  /\ PlaceOf(q)' /\ NamedOf(q)' /\ RequestOf(q)'
         /\ GoneOf(q)' /\ CalmOf(q)' /\ WrittenOf(q)'
  <1>1. PlaceOf(q)' /\ NamedOf(q)'
    BY DEF PlaceOf, NamedOf, Reading, Writing, Managed
  <1>2. RequestOf(q)'
    BY RequestKept
  <1>3. GoneOf(q)'
    <2>1. Losing(q) => Managed(q) /\ target[q] = stored[q].key
      BY DEF PlaceOf, Losing
    <2>2. Losing(q) => target[q] \in used
      BY <2>1 DEF UsedInv
    <2> QED
      BY <2>2 DEF GoneOf, Losing
  <1>4. CalmOf(q)'
    BY DEF CalmOf, HasSeen, Managed
  <1>5. WrittenOf(q)'
    <2>1. CASE calm'[q]
      <3>1. Pending(q) => Pending(q)'
        BY DEF Pending
      <3> QED
        BY <2>1, <3>1, WrittenKept
    <2>2. CASE ~calm'[q]
      BY <2>2 DEF WrittenOf
    <2> QED
      BY <2>1, <2>2
  <1> QED
    BY <1>1, <1>2, <1>3, <1>4, <1>5

LEMMA LifecycleStep ==
  LifecycleInv /\ [Next]_vars => LifecycleInv'
  <1> SUFFICES ASSUME LifecycleInv, [Next]_vars
               PROVE  LifecycleInv'
    OBVIOUS
  <1>0. /\ TypeOK /\ UsedInv /\ HeldInv
        /\ \A q \in Resources : /\ PlaceOf(q) /\ NamedOf(q) /\ RequestOf(q)
                                /\ GoneOf(q) /\ CalmOf(q) /\ WrittenOf(q)
    BY DEF LifecycleInv
  <1>1. ASSUME NEW r \in Resources, Method(r) \/ Service(r)
        PROVE  LifecycleInv'
    <2>1. TypeOK' /\ HeldInv'
      BY <1>0, <1>1, TypeSelf, HeldSelf
    <2>2. /\ PlaceOf(r)' /\ NamedOf(r)' /\ RequestOf(r)'
          /\ GoneOf(r)' /\ CalmOf(r)' /\ WrittenOf(r)'
      BY <1>0, <1>1, PlaceSelf, NamedSelf, RequestSelf, GoneSelf, CalmSelf, WrittenSelf
    <2>3. \A q \in Resources \ {r} :
             /\ UNCHANGED <<method[q], call[q], reply[q], target[q], request[q],
                            plan[q], seen[q], stored[q], late[q], family>>
             /\ calm'[q] => calm[q] /\ server' = server
      BY <1>0, <1>1, OthersStay
    <2>4. family.key = "assigned" => \A k \in used : server[k] = Absent => server'[k] = Absent
      BY <1>0, <1>1, GoneStays
    <2>5. ASSUME NEW q \in Resources \ {r}
          PROVE  /\ PlaceOf(q)' /\ NamedOf(q)' /\ RequestOf(q)'
                 /\ GoneOf(q)' /\ CalmOf(q)' /\ WrittenOf(q)'
      BY <1>0, <2>3, <2>4, <2>5, OthersKeep
    <2>6. UsedInv'
      <3>1. /\ \A k \in Keys : server'[k] # Absent => k \in used'
            /\ HasSeen(r)' => seen'[r] # Absent /\ target'[r] \in used'
            /\ Managed(r)' => stored'[r].key \in used'
            /\ used \subseteq used'
        BY <1>0, <1>1, UsedSelf
      <3>2. ASSUME NEW q \in Resources \ {r}
            PROVE  /\ HasSeen(q)' => seen'[q] # Absent /\ target'[q] \in used'
                   /\ Managed(q)' => stored'[q].key \in used'
        BY <1>0, <2>3, <3>1, <3>2 DEF UsedInv, HasSeen, Managed
      <3> QED
        BY <3>1, <3>2 DEF UsedInv
    <2> QED
      BY <2>1, <2>2, <2>5, <2>6 DEF LifecycleInv
  <1>2. CASE Elsewhere
    <2>1. PICK k \in Keys, o \in Object \union {Absent} :
             /\ server' = [server EXCEPT ![k] = o]
             /\ used \subseteq used' /\ used' \subseteq used \union {k} /\ k \in used'
             /\ made' \subseteq made /\ (o = Absent => k \notin made')
             /\ dropped' \subseteq dropped /\ \A i \in made' : i \in dropped => i \in dropped'
             /\ family.key = "assigned" /\ server[k] = Absent => k \notin used
      BY <1>0, <1>2, ElsewhereEffect
    <2>2. /\ UNCHANGED <<family, late, callVars, stored, reported, unsettled>>
          /\ calm' = [q \in Resources |-> FALSE]
      BY <1>2 DEF Elsewhere
    <2>3. TypeOK'
      BY <1>0, <2>1, <2>2 DEF TypeOK, callVars
    <2>4. UsedInv'
      BY <1>0, <2>1, <2>2 DEF UsedInv, TypeOK, callVars, HasSeen, Managed
    <2>5. HeldInv'
      <3>1. \A i \in made' : server'[i] # Absent /\ i \in made
        BY <1>0, <2>1 DEF HeldInv, TypeOK
      <3>2. \A q \in Resources, i \in made : Holds(q, i) => Holds(q, i)'
        BY <2>2 DEF Holds, Losing, Managed, Writing, callVars
      <3> QED
        BY <1>0, <2>1, <2>2, <3>1, <3>2 DEF HeldInv
    <2>6. family.key = "assigned" => \A i \in used : server[i] = Absent => server'[i] = Absent
      BY <1>0, <2>1 DEF TypeOK
    <2>7. ASSUME NEW q \in Resources
          PROVE  /\ PlaceOf(q)' /\ NamedOf(q)' /\ RequestOf(q)'
                 /\ GoneOf(q)' /\ CalmOf(q)' /\ WrittenOf(q)'
      <3>1. /\ UNCHANGED <<method[q], call[q], reply[q], target[q], request[q],
                           plan[q], seen[q], stored[q], late[q], family>>
            /\ ~calm'[q]
        BY <2>2 DEF callVars
      <3> QED
        BY <1>0, <2>6, <3>1, OthersKeep
    <2> QED
      BY <2>3, <2>4, <2>5, <2>7 DEF LifecycleInv
  <1>3. CASE UNCHANGED vars
    <2>1. UNCHANGED <<family, server, used, late, method, call, reply, target, request,
                      plan, seen, stored, made, reported, dropped, unsettled, calm>>
      BY <1>3 DEF vars, serverVars, callVars, historyVars
    <2>2. TypeOK'
      BY <1>0, <2>1 DEF TypeOK
    <2>3. UsedInv'
      BY <1>0, <2>1 DEF UsedInv, HasSeen, Managed
    <2>4. HeldInv'
      BY <1>0, <2>1 DEF HeldInv, Holds, Losing, Managed, Writing
    <2>5. ASSUME NEW q \in Resources
          PROVE  /\ PlaceOf(q)' /\ NamedOf(q)' /\ RequestOf(q)'
                 /\ GoneOf(q)' /\ CalmOf(q)' /\ WrittenOf(q)'
      BY <1>0, <2>1, OthersKeep
    <2> QED
      BY <2>2, <2>3, <2>4, <2>5 DEF LifecycleInv
  <1> QED
    BY <1>1, <1>2, <1>3 DEF Next

LEMMA InitLifecycleInv ==
  Init => LifecycleInv
  <1> SUFFICES ASSUME Init
               PROVE  LifecycleInv
    OBVIOUS
  <1>1. TypeOK
    BY DEF Init, TypeOK
  <1>2. UsedInv /\ HeldInv
    BY DEF Init, UsedInv, HeldInv, HasSeen, Managed
  <1>3. ASSUME NEW r \in Resources
        PROVE  PlaceOf(r) /\ NamedOf(r) /\ RequestOf(r)
    BY DEF Init, PlaceOf, NamedOf, RequestOf, Reading, Writing
  <1>4. ASSUME NEW r \in Resources
        PROVE  GoneOf(r) /\ CalmOf(r) /\ WrittenOf(r)
    BY DEF Init, GoneOf, CalmOf, WrittenOf, Losing, Writing
  <1> QED
    BY <1>1, <1>2, <1>3, <1>4 DEF LifecycleInv

\* For every combination of features, and any number of resources, names,
\* attributes and values, the inductive invariant of the CRUD methods holds.
THEOREM LifecycleInvHolds == Spec => []LifecycleInv
  BY InitLifecycleInv, LifecycleStep, PTL DEF Spec

\* Every variable of the CRUD methods keeps its type.
THEOREM LifecycleTypeCorrect == Spec => []TypeOK
  <1>1. LifecycleInv => TypeOK
    BY DEF LifecycleInv
  <1> QED
    BY <1>1, LifecycleInvHolds, PTL

\* What the configuration created or imported and is still there is in the
\* state of a resource, in the hands of a method, was reported, or was left on
\* a 404 of the token endpoint, for the methods of every resource: Create, Read,
\* Update, Delete and ImportState.
THEOREM NothingIsLostSilently == Spec => []NoSilentOrphan
  <1>1. LifecycleInv => NoSilentOrphan
    <2> SUFFICES ASSUME LifecycleInv, NEW k \in made
                 PROVE  \/ k \in reported \/ k \in dropped
                        \/ \E r \in Resources :
                              \/ Managed(r) /\ stored[r].key = k
                              \/ method[r] # "none" /\ target[r] = k
      BY DEF NoSilentOrphan
    <2> QED
      BY DEF LifecycleInv, HeldInv, Holds, Writing
  <1> QED
    BY <1>1, LifecycleInvHolds, PTL

\* After a method ended without a diagnostic, and as long as nobody else acts,
\* the state shows the object as it is, in every attribute the last answer told.
THEOREM StatesAreTrue == Spec => []StateTrueWhenCalm
  <1>1. LifecycleInv => StateTrueWhenCalm
    BY DEF LifecycleInv, StateTrueWhenCalm, CalmOf
  <1> QED
    BY <1>1, LifecycleInvHolds, PTL

\* A Create, or an Update planned on a refreshed state, that nobody interferes
\* with reads back what was planned.
THEOREM OneApplyIsEnough == Spec => []RefreshedApplyConverges
  <1>1. LifecycleInv => RefreshedApplyConverges
    <2> SUFFICES ASSUME LifecycleInv, NEW r \in Resources, HasReadBack(r), calm[r],
                        NEW f \in Due(r)
                 PROVE  seen[r].fields[f] = plan[r].fields[f]
      BY DEF RefreshedApplyConverges
    <2>1. Writing(r) /\ call[r] = "get" /\ reply[r] = "ok" /\ ~NeedsFollowUp(r)
      BY DEF HasReadBack, Answered
    <2>2. CalmOf(r) /\ WrittenOf(r) /\ RequestOf(r) /\ TypeOK /\ UsedInv
      BY DEF LifecycleInv
    <2>3. seen[r].fields = server[target[r]].fields
      BY <2>1, <2>2 DEF CalmOf, HasSeen
    <2>4. CASE f = "status" => ~Pending(r)
      BY <2>1, <2>2, <2>3, <2>4 DEF WrittenOf
    <2>5. CASE f = "status" /\ Pending(r)
      <3>1. family.update = "status" /\ request[r].op = "create"
        BY <2>1, <2>5 DEF Pending
      <3>2. f \in Fields \cap {"status"} /\ plan[r].fields[f] # Unset
        BY <2>5, <3>1 DEF Due
      <3> QED
        BY <2>1, <3>1, <3>2 DEF NeedsFollowUp
    <2> QED
      BY <2>4, <2>5
  <1> QED
    BY <1>1, LifecycleInvHolds, PTL

\* An object whose name the service gave leaves the state after it has gone, or
\* on a 404 of the token endpoint: on no other answer, and on no lost one.
THEOREM StateLeftOnlyWhenGone == Spec => LeavesOnlyWhenGone
  <1> DEFINE Leaving == family.key = "assigned" =>
               \A r \in Resources :
                  Managed(r) /\ stored'[r] = Absent
                  => server[stored[r].key] = Absent \/ reply[r] = "notoken"
  <1>1. LifecycleInv /\ [Next]_vars => Leaving \/ UNCHANGED vars
    <2> SUFFICES ASSUME LifecycleInv, Next, family.key = "assigned", NEW q \in Resources,
                        Managed(q), stored'[q] = Absent
                 PROVE  server[stored[q].key] = Absent \/ reply[q] = "notoken"
      BY DEF Leaving
    <2>1. TypeOK /\ PlaceOf(q) /\ GoneOf(q)
      BY DEF LifecycleInv
    <2>2. ~Elsewhere
      BY DEF Elsewhere, Managed
    <2>3. PICK r \in Resources : Method(r) \/ Service(r)
      BY <2>2 DEF Next
    <2>4. q = r
      BY <2>1, <2>3, OthersStay DEF Managed
    <2>5. Losing(q) \/ reply[q] = "notoken"
      <3>1. stored' # stored
        BY DEF Managed
      <3>2. /\ ~Service(r) /\ ~ReadsBack(r) /\ ~FollowsUp(r) /\ ~AsksDetails(r)
            /\ ~WriteFails(r) /\ ~ReadFails(r) /\ ~DeleteFails(r)
        BY <3>1 DEF Service, ServiceWrites, ServiceMisses, TokenMisses, ServiceReads, ServiceDetails,
                    AnswerLost, CutOff, LateActs, ReadsBack, FollowsUp, AsksDetails,
                    WriteFails, ReadFails, DeleteFails, Report
      <3>3. /\ ~CreateStart(r) /\ ~ReadStart(r) /\ ~ImportStart(r)
            /\ ~UpdateStart(r) /\ ~DeleteStart(r)
        BY <3>1 DEF CreateStart, ReadStart, ImportStart, UpdateStart, DeleteStart, Begin
      <3>4. ~WriteEnds(r) /\ ~ReadEnds(r)
        <4> SUFFICES ASSUME WriteEnds(r) \/ ReadEnds(r)
                     PROVE  FALSE
          OBVIOUS
        <4>1. PICK s \in State : stored' = [stored EXCEPT ![r] = s]
          BY <2>1, StoresSeen DEF LifecycleInv
        <4> QED
          BY <2>1, <2>4, <4>1, AbsentAssumption DEF TypeOK
      <3>5. ReadRemoves(r) \/ DeleteEnds(r)
        BY <2>3, <3>2, <3>3, <3>4 DEF Method
      <3> QED
        BY <2>4, <3>5 DEF ReadRemoves, DeleteEnds, Answered, NotFound, Losing
    <2> QED
      BY <2>1, <2>5 DEF GoneOf, PlaceOf, Losing
  <1>2. LifecycleInv /\ [Next]_vars => [Leaving]_vars
    BY <1>1
  <1> QED
    BY <1>2, LifecycleInvHolds, PTL DEF Spec, LeavesOnlyWhenGone, Leaving

\* What is unsettled stays so.
LEMMA UnsettledGrows ==
  ASSUME TypeOK, NEW r \in Resources, PlaceOf(r),
         Method(r) \/ Service(r)
  PROVE  \A k \in Keys : unsettled[k] \subseteq unsettled'[k]
  <1> USE LifecycleAssumption, AbsentAssumption DEF TypeOK, serverVars, callVars, historyVars
  <1>1. CASE CreateStart(r)
    BY <1>1 DEF CreateStart, Managed, Begin, Ask
  <1>2. CASE ReadStart(r)
    BY <1>2 DEF ReadStart, Managed, Begin, Ask
  <1>3. CASE ImportStart(r)
    BY <1>3 DEF ImportStart, Managed, Begin, Ask
  <1>4. CASE UpdateStart(r)
    BY <1>4 DEF UpdateStart, Managed, Begin, Ask
  <1>5. CASE DeleteStart(r)
    BY <1>5 DEF DeleteStart, Managed, Begin, Ask
  <1>6. CASE ReadsBack(r)
    BY <1>6 DEF ReadsBack, Writing, Answered, Ask
  <1>7. CASE FollowsUp(r)
    BY <1>7 DEF FollowsUp, Answered, Ask, NeedsFollowUp
  <1>8. CASE AsksDetails(r)
    BY <1>8 DEF AsksDetails, HasReadBack, Writing, Answered, Ask
  <1>9. CASE WriteEnds(r)
    BY <1>9 DEF WriteEnds, Writing, HasReadBack, Answered, SetWrittenState, SetState, End
  <1>10. CASE WriteFails(r)
    BY <1>10 DEF WriteFails, Writing, Answered, Report, End
  <1>11. CASE ReadEnds(r)
    BY <1>11 DEF ReadEnds, Reading, Answered, SetReadState, SetState, Managed, End
  <1>12. CASE ReadRemoves(r)
    BY <1>12 DEF ReadRemoves, Answered, NotFound, Forget, End
  <1>13. CASE ReadFails(r)
    BY <1>13 DEF ReadFails, Reading, Answered, End
  <1>14. CASE DeleteEnds(r)
    BY <1>14 DEF DeleteEnds, Answered, NotFound, Forget, End
  <1>15. CASE DeleteFails(r)
    BY <1>15 DEF DeleteFails, Answered, End
  <1>16. CASE ServiceWrites(r)
    BY <1>16 DEF ServiceWrites, OthersSee
  <1>17. CASE ServiceMisses(r)
    BY <1>17 DEF ServiceMisses
  <1>18. CASE ServiceReads(r)
    BY <1>18 DEF ServiceReads
  <1>19. CASE ServiceDetails(r)
    BY <1>19 DEF ServiceDetails
  <1>20. CASE AnswerLost(r)
    BY <1>20 DEF AnswerLost, GiveUp
  <1>21. CASE CutOff(r)
    BY <1>21 DEF CutOff, GiveUp, Report, End
  <1>22. CASE LateActs(r)
    BY <1>22 DEF LateActs
  <1>23. CASE TokenMisses(r)
    BY <1>23 DEF TokenMisses, GiveUp
  <1> QED
    BY <1>1, <1>2, <1>3, <1>4, <1>5, <1>6, <1>7, <1>8, <1>9, <1>10, <1>11,
       <1>12, <1>13, <1>14, <1>15, <1>16, <1>17, <1>18, <1>19, <1>20,
       <1>21, <1>22, <1>23 DEF Method, Service

\* A state is about one object, and is kept as long as that is there, unless the
\* resource drops it: then the secret is unsettled.
LEMMA StateKept ==
  ASSUME TypeOK, NEW r \in Resources, PlaceOf(r), NamedOf(r), RequestOf(r), UsedInv, GoneOf(r),
         Method(r) \/ Service(r)
  PROVE  /\ Managed(r) /\ Managed(r)' => stored'[r].key = stored[r].key
         /\ /\ family.key = "assigned" /\ family.secret # "no"
            /\ Managed(r) /\ server'[stored[r].key] # Absent
            => Managed(r)' \/ server'[stored[r].key].secret \in unsettled'[stored[r].key]
  <1> USE LifecycleAssumption, AbsentAssumption DEF TypeOK, serverVars, callVars, historyVars, PlaceOf, GoneOf, Losing, Reading, Writing, Managed
  <1>1. CASE CreateStart(r)
    BY <1>1 DEF CreateStart, Managed, Begin, Ask
  <1>2. CASE ReadStart(r)
    BY <1>2 DEF ReadStart, Managed, Begin, Ask
  <1>3. CASE ImportStart(r)
    BY <1>3 DEF ImportStart, Managed, Begin, Ask
  <1>4. CASE UpdateStart(r)
    BY <1>4 DEF UpdateStart, Managed, Begin, Ask
  <1>5. CASE DeleteStart(r)
    BY <1>5 DEF DeleteStart, Managed, Begin, Ask
  <1>6. CASE ReadsBack(r)
    BY <1>6 DEF ReadsBack, Writing, Answered, Ask
  <1>7. CASE FollowsUp(r)
    BY <1>7 DEF FollowsUp, Answered, Ask, NeedsFollowUp
  <1>8. CASE AsksDetails(r)
    BY <1>8 DEF AsksDetails, HasReadBack, Writing, Answered, Ask
  <1>9. CASE WriteEnds(r)
    <2>1. PICK s \in State : s.key = target[r] /\ stored' = [stored EXCEPT ![r] = s]
      BY <1>9, StoresSeen
    <2>2. stored'[r] # Absent /\ stored'[r].key = target[r]
      BY <2>1
    <2>3. Managed(r) => target[r] = stored[r].key
      BY <1>9 DEF WriteEnds
    <2> QED
      BY <2>2, <2>3
  <1>10. CASE WriteFails(r)
    BY <1>10 DEF WriteFails, Writing, Answered, Report, End
  <1>11. CASE ReadEnds(r)
    <2>1. PICK s \in State : s.key = target[r] /\ stored' = [stored EXCEPT ![r] = s]
      BY <1>11, StoresSeen
    <2>2. stored'[r] # Absent /\ stored'[r].key = target[r]
      BY <2>1
    <2>3. Managed(r) => target[r] = stored[r].key
      BY <1>11 DEF ReadEnds
    <2> QED
      BY <2>2, <2>3
  <1>12. CASE ReadRemoves(r)
    <2>1. /\ server' = server /\ stored' = [stored EXCEPT ![r] = Absent]
          /\ Managed(r) /\ target[r] = stored[r].key /\ stored[r].key \in Keys
      BY <1>12 DEF ReadRemoves, Forget, State
    <2>2. CASE reply[r] = "notoken" /\ family.secret # "no" /\ server[stored[r].key] # Absent
      <3>1. unsettled' = [unsettled EXCEPT ![stored[r].key] =
                            @ \union {server[stored[r].key].secret}]
        BY <1>12, <2>2 DEF ReadRemoves, Forget
      <3>2. unsettled'[stored[r].key] =
               unsettled[stored[r].key] \union {server[stored[r].key].secret}
        BY <2>1, <3>1
      <3> QED
        BY <2>1, <3>2
    <2>3. CASE reply[r] # "notoken"
      <3>1. Losing(r)
        BY <1>12, <2>3 DEF ReadRemoves, Answered, NotFound
      <3> QED
        BY <2>1, <3>1
    <2> QED
      BY <2>1, <2>2, <2>3
  <1>13. CASE ReadFails(r)
    BY <1>13 DEF ReadFails, Reading, Answered, End
  <1>14. CASE DeleteEnds(r)
    <2>1. /\ server' = server /\ stored' = [stored EXCEPT ![r] = Absent]
          /\ Managed(r) /\ target[r] = stored[r].key /\ stored[r].key \in Keys
      BY <1>14 DEF DeleteEnds, Forget, State
    <2>2. CASE reply[r] = "notoken" /\ family.secret # "no" /\ server[stored[r].key] # Absent
      <3>1. unsettled' = [unsettled EXCEPT ![stored[r].key] =
                            @ \union {server[stored[r].key].secret}]
        BY <1>14, <2>2 DEF DeleteEnds, Forget
      <3>2. unsettled'[stored[r].key] =
               unsettled[stored[r].key] \union {server[stored[r].key].secret}
        BY <2>1, <3>1
      <3> QED
        BY <2>1, <3>2
    <2>3. CASE reply[r] # "notoken"
      <3>1. Losing(r)
        BY <1>14, <2>3 DEF DeleteEnds, Answered, NotFound
      <3> QED
        BY <2>1, <3>1
    <2> QED
      BY <2>1, <2>2, <2>3
  <1>15. CASE DeleteFails(r)
    BY <1>15 DEF DeleteFails, Answered, End
  <1>16. CASE ServiceWrites(r)
    BY <1>16 DEF ServiceWrites, OthersSee
  <1>17. CASE ServiceMisses(r)
    BY <1>17 DEF ServiceMisses
  <1>18. CASE ServiceReads(r)
    BY <1>18 DEF ServiceReads
  <1>19. CASE ServiceDetails(r)
    BY <1>19 DEF ServiceDetails
  <1>20. CASE AnswerLost(r)
    BY <1>20 DEF AnswerLost, GiveUp
  <1>21. CASE CutOff(r)
    BY <1>21 DEF CutOff, GiveUp, Report, End
  <1>22. CASE LateActs(r)
    BY <1>22 DEF LateActs
  <1>23. CASE TokenMisses(r)
    BY <1>23 DEF TokenMisses, GiveUp
  <1> QED
    BY <1>1, <1>2, <1>3, <1>4, <1>5, <1>6, <1>7, <1>8, <1>9, <1>10, <1>11,
       <1>12, <1>13, <1>14, <1>15, <1>16, <1>17, <1>18, <1>19, <1>20,
       <1>21, <1>22, <1>23 DEF Method, Service

\* The name of a created object has been given.
LEMMA CreatedSelf ==
  ASSUME TypeOK, NEW r \in Resources, UsedInv, PlaceOf(r), NamedOf(r), RequestOf(r), family.key = "assigned", CreatedOf(r),
         Method(r) \/ Service(r)
  PROVE  CreatedOf(r)'
  <1> USE LifecycleAssumption, AbsentAssumption DEF TypeOK, serverVars, callVars, historyVars, PlaceOf, CreatedOf, Reading, Writing
  <1>1. CASE CreateStart(r)
    <2>1. PICK k \in CreateKeys : target' = [target EXCEPT ![r] = k]
      BY <1>1, Zenon DEF CreateStart, Begin
    <2> QED
      BY <2>1, CreateKeysNamed
  <1>2. CASE ReadStart(r)
    BY <1>2 DEF ReadStart, Managed, Begin, Ask
  <1>3. CASE ImportStart(r)
    BY <1>3 DEF ImportStart, Managed, Begin, Ask
  <1>4. CASE UpdateStart(r)
    BY <1>4 DEF UpdateStart, Managed, Begin, Ask
  <1>5. CASE DeleteStart(r)
    BY <1>5 DEF DeleteStart, Managed, Begin, Ask
  <1>6. CASE ReadsBack(r)
    BY <1>6 DEF ReadsBack, Writing, Answered, Ask
  <1>7. CASE FollowsUp(r)
    BY <1>7 DEF FollowsUp, Answered, Ask, NeedsFollowUp
  <1>8. CASE AsksDetails(r)
    BY <1>8 DEF AsksDetails, HasReadBack, Writing, Answered, Ask
  <1>9. CASE WriteEnds(r)
    BY <1>9 DEF WriteEnds, Writing, HasReadBack, Answered, SetWrittenState, SetState, End
  <1>10. CASE WriteFails(r)
    BY <1>10 DEF WriteFails, Writing, Answered, Report, End
  <1>11. CASE ReadEnds(r)
    BY <1>11 DEF ReadEnds, Reading, Answered, SetReadState, SetState, Managed, End
  <1>12. CASE ReadRemoves(r)
    BY <1>12 DEF ReadRemoves, Answered, NotFound, Forget, End
  <1>13. CASE ReadFails(r)
    BY <1>13 DEF ReadFails, Reading, Answered, End
  <1>14. CASE DeleteEnds(r)
    BY <1>14 DEF DeleteEnds, Answered, NotFound, Forget, End
  <1>15. CASE DeleteFails(r)
    BY <1>15 DEF DeleteFails, Answered, End
  <1>16. CASE ServiceWrites(r)
    <2>1. PICK k \in Keys, o \in Object \union {Absent} :
             /\ Effect(k, request[r], o)
             /\ target' = [target EXCEPT ![r] = k]
             /\ (request[r].op = "create" /\ family.key = "assigned") \/ k = target[r]
      BY <1>16, WriteEffect
    <2>2. /\ method' = method /\ request[r].op \in {"create", "update", "delete"}
          /\ target' = [target EXCEPT ![r] = k]
      BY <1>16, <2>1 DEF ServiceWrites, RequestOf
    <2>3. used \subseteq used' /\ (request[r].op = "create" => k \in used')
      BY <2>1, <2>2 DEF Effect
    <2> QED
      BY <2>1, <2>2, <2>3
  <1>17. CASE ServiceMisses(r)
    BY <1>17 DEF ServiceMisses
  <1>18. CASE ServiceReads(r)
    BY <1>18 DEF ServiceReads
  <1>19. CASE ServiceDetails(r)
    BY <1>19 DEF ServiceDetails
  <1>20. CASE AnswerLost(r)
    BY <1>20 DEF AnswerLost, GiveUp
  <1>21. CASE CutOff(r)
    BY <1>21 DEF CutOff, GiveUp, Report, End
  <1>22. CASE LateActs(r)
    <2>1. used \subseteq used'
      <3>1. PICK k \in Keys, o \in Object \union {Absent} :
               late[r].write \in Write /\ Effect(k, late[r].write, o)
        BY <1>22, LateEffect
      <3>2. late[r].write.op \in {"create", "update", "delete"}
        BY <3>1 DEF Write
      <3> QED
        BY <3>1, <3>2 DEF Effect
    <2> QED
      BY <1>22, <2>1 DEF LateActs
  <1>23. CASE TokenMisses(r)
    BY <1>23 DEF TokenMisses, GiveUp
  <1> QED
    BY <1>1, <1>2, <1>3, <1>4, <1>5, <1>6, <1>7, <1>8, <1>9, <1>10, <1>11,
       <1>12, <1>13, <1>14, <1>15, <1>16, <1>17, <1>18, <1>19, <1>20,
       <1>21, <1>22, <1>23 DEF Method, Service

\* A method plans, keeps and sends secrets as the version triggers say.
LEMMA SecretPlanSelf ==
  ASSUME TypeOK, NEW r \in Resources, UsedInv, PlaceOf(r), RequestOf(r), SecretPlanOf(r),
         Method(r) \/ Service(r)
  PROVE  SecretPlanOf(r)'
  <1> USE LifecycleAssumption, AbsentAssumption DEF TypeOK, serverVars, callVars, historyVars, PlaceOf, SecretPlanOf, PlanOK, CreateSecretOK, Reading, Writing, Managed
  <1>1. CASE CreateStart(r)
    <2>1. PICK p \in Plan, k \in CreateKeys :
             /\ PlanOK(p) /\ CreateSecretOK(p)
             /\ Begin(r, "Create", "write", k, p,
                      [op |-> "create", fields |-> CreateFields(p),
                       secret |-> p.secret, old |-> NoSecret])
      BY <1>1 DEF CreateStart
    <2>2. /\ plan'[r] = p /\ request'[r].secret = p.secret
          /\ method'[r] = "Create" /\ call'[r] = "write"
          /\ family' = family /\ stored' = stored
      BY <2>1 DEF Begin, Ask
    <2> HIDE DEF TypeOK
    <2> QED
      BY <1>1, <2>1, <2>2 DEF PlanOK, CreateSecretOK, CreateStart
  <1>2. CASE ReadStart(r)
    BY <1>2 DEF ReadStart, Managed, Begin, Ask
  <1>3. CASE ImportStart(r)
    BY <1>3 DEF ImportStart, Managed, Begin, Ask
  <1>4. CASE UpdateStart(r)
    <2>1. PICK p \in Plan, old \in Secrets, enables \in Enables :
             LET s == stored[r]  sends == SendsSecret(p, s, enables)
                 w == [op |-> "update", fields |-> UpdateFields(p, s),
                       secret |-> IF sends THEN p.secret ELSE NoSecret, old |-> old] IN
             /\ PlanOK(p) /\ (sends => p.secret # NoSecret)
             /\ Begin(r, "Update", "write", s.key, p, w)
      BY <1>4 DEF UpdateStart
    <2> DEFINE w == [op |-> "update", fields |-> UpdateFields(p, stored[r]),
                     secret |-> IF SendsSecret(p, stored[r], enables) THEN p.secret ELSE NoSecret,
                     old |-> old]
    <2>2. w.secret = IF SendsSecret(p, stored[r], enables) THEN p.secret ELSE NoSecret
      OBVIOUS
    <2>3. /\ plan' = [plan EXCEPT ![r] = p] /\ request' = [request EXCEPT ![r] = w]
          /\ method' = [method EXCEPT ![r] = "Update"] /\ call' = [call EXCEPT ![r] = "write"]
          /\ UNCHANGED <<family, stored>>
      BY <2>1 DEF Begin, Ask
    <2> HIDE DEF w
    <2>4. p.version \in {0, IF w.secret = NoSecret THEN stored[r].version ELSE w.secret}
      BY <2>1, <2>2 DEF PlanOK, SendsSecret, VersionChanged, NoSecret
    <2>5. /\ plan'[r] = p /\ request'[r] = w /\ method'[r] = "Update" /\ call'[r] = "write"
          /\ family' = family /\ stored' = stored
      BY <2>3
    <2> HIDE DEF TypeOK
    <2> QED
      BY <2>1, <2>4, <2>5 DEF PlanOK
  <1>5. CASE DeleteStart(r)
    BY <1>5 DEF DeleteStart, Managed, Begin, Ask
  <1>6. CASE ReadsBack(r)
    BY <1>6 DEF ReadsBack, Writing, Answered, Ask
  <1>7. CASE FollowsUp(r)
    BY <1>7 DEF FollowsUp, Answered, Ask, NeedsFollowUp
  <1>8. CASE AsksDetails(r)
    BY <1>8 DEF AsksDetails, HasReadBack, Writing, Answered, Ask
  <1>9. CASE WriteEnds(r)
    <2>1. PICK s \in State :
             /\ WriteEnds(r) => s.version = plan[r].version
             /\ ReadEnds(r) => s.version = IF Managed(r) THEN stored[r].version ELSE 0
             /\ stored' = [stored EXCEPT ![r] = s]
      BY <1>9, StoresSeen
    <2>2. method'[r] = "none" /\ call'[r] = "none" /\ family' = family
          /\ stored'[r].version = s.version
      BY <1>9, <2>1 DEF WriteEnds, End
    <2> QED
      BY <1>9, <2>1, <2>2 DEF WriteEnds, PlanOK
  <1>10. CASE WriteFails(r)
    BY <1>10 DEF WriteFails, Writing, Answered, Report, End
  <1>11. CASE ReadEnds(r)
    <2>1. PICK s \in State :
             /\ WriteEnds(r) => s.version = plan[r].version
             /\ ReadEnds(r) => s.version = IF Managed(r) THEN stored[r].version ELSE 0
             /\ stored' = [stored EXCEPT ![r] = s]
      BY <1>11, StoresSeen
    <2>2. method'[r] = "none" /\ call'[r] = "none" /\ family' = family
          /\ stored'[r].version = s.version
      BY <1>11, <2>1 DEF ReadEnds, End
    <2> QED
      BY <1>11, <2>1, <2>2 DEF ReadEnds, PlanOK
  <1>12. CASE ReadRemoves(r)
    BY <1>12 DEF ReadRemoves, Answered, NotFound, Forget, End
  <1>13. CASE ReadFails(r)
    BY <1>13 DEF ReadFails, Reading, Answered, End
  <1>14. CASE DeleteEnds(r)
    BY <1>14 DEF DeleteEnds, Answered, NotFound, Forget, End
  <1>15. CASE DeleteFails(r)
    BY <1>15 DEF DeleteFails, Answered, End
  <1>16. CASE ServiceWrites(r)
    BY <1>16 DEF ServiceWrites, OthersSee
  <1>17. CASE ServiceMisses(r)
    BY <1>17 DEF ServiceMisses
  <1>18. CASE ServiceReads(r)
    BY <1>18 DEF ServiceReads
  <1>19. CASE ServiceDetails(r)
    BY <1>19 DEF ServiceDetails
  <1>20. CASE AnswerLost(r)
    BY <1>20 DEF AnswerLost, GiveUp
  <1>21. CASE CutOff(r)
    BY <1>21 DEF CutOff, GiveUp, Report, End
  <1>22. CASE LateActs(r)
    BY <1>22 DEF LateActs
  <1>23. CASE TokenMisses(r)
    BY <1>23 DEF TokenMisses, GiveUp
  <1> QED
    BY <1>1, <1>2, <1>3, <1>4, <1>5, <1>6, <1>7, <1>8, <1>9, <1>10, <1>11,
       <1>12, <1>13, <1>14, <1>15, <1>16, <1>17, <1>18, <1>19, <1>20,
       <1>21, <1>22, <1>23 DEF Method, Service

\* The secret of a write that was given up is reported, or about to be.
LEMMA LateSelf ==
  ASSUME TypeOK, NEW r \in Resources, UsedInv, PlaceOf(r), NamedOf(r), RequestOf(r), SecretPlanOf(r), family.key = "assigned", CreatedOf(r), LateOf(r),
         Method(r) \/ Service(r)
  PROVE  LateOf(r)'
  <1> USE LifecycleAssumption, AbsentAssumption DEF TypeOK, serverVars, callVars, historyVars, PlaceOf, RequestOf, LateOf, CreatedOf, Reading, Writing, Managed
  <1>1. CASE CreateStart(r)
    BY <1>1 DEF CreateStart, Managed, Begin, Ask
  <1>2. CASE ReadStart(r)
    BY <1>2 DEF ReadStart, Managed, Begin, Ask
  <1>3. CASE ImportStart(r)
    BY <1>3 DEF ImportStart, Managed, Begin, Ask
  <1>4. CASE UpdateStart(r)
    BY <1>4 DEF UpdateStart, Managed, Begin, Ask
  <1>5. CASE DeleteStart(r)
    BY <1>5 DEF DeleteStart, Managed, Begin, Ask
  <1>6. CASE ReadsBack(r)
    BY <1>6 DEF ReadsBack, Writing, Answered, Ask
  <1>7. CASE FollowsUp(r)
    BY <1>7 DEF FollowsUp, Answered, Ask, NeedsFollowUp
  <1>8. CASE AsksDetails(r)
    BY <1>8 DEF AsksDetails, HasReadBack, Writing, Answered, Ask
  <1>9. CASE WriteEnds(r)
    BY <1>9 DEF WriteEnds, Writing, HasReadBack, Answered, SetWrittenState, SetState, End
  <1>10. CASE WriteFails(r)
    BY <1>10 DEF WriteFails, Writing, Answered, Report, End
  <1>11. CASE ReadEnds(r)
    BY <1>11 DEF ReadEnds, Reading, Answered, SetReadState, SetState, Managed, End
  <1>12. CASE ReadRemoves(r)
    BY <1>12 DEF ReadRemoves, Answered, NotFound, Forget, End
  <1>13. CASE ReadFails(r)
    BY <1>13 DEF ReadFails, Reading, Answered, End
  <1>14. CASE DeleteEnds(r)
    BY <1>14 DEF DeleteEnds, Answered, NotFound, Forget, End
  <1>15. CASE DeleteFails(r)
    BY <1>15 DEF DeleteFails, Answered, End
  <1>16. CASE ServiceWrites(r)
    <2>1. used \subseteq used'
      <3>1. PICK k \in Keys, o \in Object \union {Absent} : Effect(k, request[r], o)
        BY <1>16, WriteEffect
      <3>2. request[r].op \in {"create", "update", "delete"}
        BY <1>16 DEF ServiceWrites
      <3> QED
        BY <3>1, <3>2 DEF Effect
    <2>2. UNCHANGED <<late, unsettled>> /\ reply[r] = "none"
      BY <1>16 DEF ServiceWrites
    <2> QED
      BY <2>1, <2>2
  <1>17. CASE ServiceMisses(r)
    BY <1>17 DEF ServiceMisses
  <1>18. CASE ServiceReads(r)
    BY <1>18 DEF ServiceReads
  <1>19. CASE ServiceDetails(r)
    BY <1>19 DEF ServiceDetails
  <1>20. CASE AnswerLost(r)
    <2>1. /\ UNCHANGED <<used, unsettled, method, call, target, request>>
          /\ reply[r] # "error" /\ reply' = [reply EXCEPT ![r] = "error"]
      BY <1>20 DEF AnswerLost
    <2>2. CASE call[r] \in {"write", "follow"} /\ reply[r] = "none" /\ request[r].op = "update"
      <3>1. late' = [late EXCEPT ![r] = [key |-> target[r], write |-> request[r]]]
        BY <1>20, <2>2 DEF AnswerLost, GiveUp
      <3>2. late'[r].key = target[r] /\ late'[r].write = request[r]
        BY <3>1
      <3>3. target[r] \in used
        BY <2>2 DEF UsedInv, NamedOf
      <3> QED
        BY <2>1, <2>2, <3>2, <3>3 DEF SecretPlanOf
    <2>3. CASE call[r] \in {"write", "follow"} /\ reply[r] = "none" /\ request[r].op # "update"
      <3>1. late' = [late EXCEPT ![r] = [key |-> target[r], write |-> request[r]]]
        BY <1>20, <2>3 DEF AnswerLost, GiveUp
      <3> QED
        BY <2>3, <3>1
    <2>4. CASE ~(call[r] \in {"write", "follow"} /\ reply[r] = "none")
      <3>1. late' = late
        BY <1>20, <2>4 DEF AnswerLost, GiveUp
      <3> QED
        BY <2>1, <2>4, <3>1
    <2> QED
      BY <2>2, <2>3, <2>4
  <1>21. CASE CutOff(r)
    <2>1. /\ used' = used
          /\ unsettled' = IF method[r] = "Update" /\ request[r].secret # NoSecret
                          THEN [unsettled EXCEPT ![target[r]] = @ \union {request[r].secret}]
                          ELSE unsettled
      BY <1>21 DEF CutOff, Report
    <2>2. method[r] = "Update" => request[r].secret \in unsettled'[target[r]] \union {NoSecret}
      BY <2>1
    <2>5. \A k \in Keys : unsettled[k] \subseteq unsettled'[k]
      BY <1>21, UnsettledGrows
    <2>3. CASE call[r] \in {"write", "follow"} /\ reply[r] = "none"
      <3>1. late' = [late EXCEPT ![r] = [key |-> target[r], write |-> request[r]]]
        BY <1>21, <2>3 DEF CutOff, GiveUp
      <3>2. late'[r].key = target[r] /\ late'[r].write = request[r]
        BY <3>1
      <3>3. request[r].op = "update" => target[r] \in used
        BY <2>3 DEF UsedInv, NamedOf
      <3>4. call[r] = "follow" => request[r].secret = NoSecret
        BY DEF SecretPlanOf
      <3>5. request[r].op = "update" => request[r].secret \in unsettled'[target[r]] \union {NoSecret}
        BY <2>2, <2>3, <3>4
      <3> QED
        BY <2>1, <3>2, <3>3, <3>5
    <2>4. CASE ~(call[r] \in {"write", "follow"} /\ reply[r] = "none")
      <3>1. late' = late
        BY <1>21, <2>4 DEF CutOff, GiveUp
      <3>2. late[r] # Absent /\ late[r].write.op = "update" =>
              /\ late[r].key \in used /\ late[r].key \in Keys
              /\ late[r].write.secret \in unsettled'[late[r].key] \union {NoSecret}
        BY <2>2, <2>5
      <3> QED
        BY <2>1, <3>1, <3>2
    <2> QED
      BY <2>3, <2>4
  <1>22. CASE LateActs(r)
    BY <1>22 DEF LateActs
  <1>23. CASE TokenMisses(r)
    <2>1. /\ UNCHANGED <<used, unsettled, method, call, target, request>>
          /\ method[r] \in {"Read", "Delete"} /\ GiveUp(r)
      BY <1>23 DEF TokenMisses
    <2>2. CASE call[r] \in {"write", "follow"} /\ reply[r] = "none"
      <3>1. request[r].op = "delete"
        BY <2>1, <2>2
      <3>2. late' = [late EXCEPT ![r] = [key |-> target[r], write |-> request[r]]]
        BY <2>1, <2>2 DEF GiveUp
      <3>3. late'[r].write = request[r]
        BY <3>2
      <3> QED
        BY <3>1, <3>3
    <2>3. CASE ~(call[r] \in {"write", "follow"} /\ reply[r] = "none")
      <3>1. late' = late
        BY <2>1, <2>3 DEF GiveUp
      <3> QED
        BY <2>1, <3>1
    <2> QED
      BY <2>2, <2>3
  <1> QED
    BY <1>1, <1>2, <1>3, <1>4, <1>5, <1>6, <1>7, <1>8, <1>9, <1>10, <1>11,
       <1>12, <1>13, <1>14, <1>15, <1>16, <1>17, <1>18, <1>19, <1>20,
       <1>21, <1>22, <1>23 DEF Method, Service

\* Only the writes of a resource change objects.
LEMMA ServerStays ==
  ASSUME NEW r \in Resources, Method(r) \/ Service(r), ~ServiceWrites(r), ~LateActs(r)
  PROVE  server' = server /\ used' = used /\ family' = family
  <1> USE DEF serverVars
  <1>1. CASE CreateStart(r) \/ ReadStart(r) \/ ImportStart(r) \/ UpdateStart(r) \/ DeleteStart(r)
    BY <1>1 DEF CreateStart, ReadStart, ImportStart, UpdateStart, DeleteStart, Begin
  <1>2. CASE ReadsBack(r) \/ FollowsUp(r) \/ AsksDetails(r) \/ WriteEnds(r) \/ WriteFails(r)
    BY <1>2 DEF ReadsBack, FollowsUp, AsksDetails, WriteEnds, WriteFails
  <1>3. CASE \/ ReadEnds(r) \/ ReadRemoves(r) \/ ReadFails(r)
             \/ DeleteEnds(r) \/ DeleteFails(r)
    BY <1>3 DEF ReadEnds, ReadRemoves, ReadFails, DeleteEnds, DeleteFails
  <1>4. CASE \/ ServiceMisses(r) \/ ServiceReads(r) \/ ServiceDetails(r)
             \/ TokenMisses(r) \/ AnswerLost(r) \/ CutOff(r)
    BY <1>4 DEF ServiceMisses, TokenMisses, ServiceReads, ServiceDetails, AnswerLost, CutOff
  <1> QED
    BY <1>1, <1>2, <1>3, <1>4 DEF Method, Service

LEMMA FamilyStays ==
  ASSUME NEW r \in Resources, Method(r) \/ Service(r)
  PROVE  family' = family
  <1>1. CASE ServiceWrites(r) \/ LateActs(r)
    BY <1>1 DEF ServiceWrites, LateActs
  <1> QED
    BY <1>1, ServerStays

\* How a resource changes the secret of an object: it makes a new one, an update
\* that was given up acts, or its Update does.
LEMMA SecretChange ==
  ASSUME TypeOK, NEW r \in Resources, UsedInv, PlaceOf(r), NamedOf(r), RequestOf(r),
         SecretPlanOf(r), family.key = "assigned", CreatedOf(r), LateOf(r),
         Method(r) \/ Service(r), NEW k \in Keys, server'[k] # Absent
  PROVE  \/ /\ server[k] # Absent /\ server'[k].secret = server[k].secret
            /\ ServiceWrites(r) =>
                 /\ target'[r] = k => target[r] = k
                 /\ ~(method[r] = "Update" /\ target[r] = k /\ request[r].secret # NoSecret)
         \/ /\ k \notin used
            /\ method[r] = "Create" => target[r] # k
            /\ method[r] = "Create" /\ target'[r] = k =>
                 ServiceWrites(r) /\ server'[k].secret = plan[r].secret
         \/ server[k] # Absent /\ server'[k].secret \in unsettled[k]
         \/ /\ server[k] # Absent /\ server'[k].secret = request[r].secret
            /\ method[r] = "Update" /\ target[r] = k /\ request[r].secret # NoSecret
  <1>1. CASE ServiceWrites(r)
    <2>1. PICK i \in Keys, o \in Object \union {Absent} :
             /\ Effect(i, request[r], o)
             /\ target' = [target EXCEPT ![r] = i]
             /\ request[r].op = "create" \/ i = target[r]
             /\ request[r].op = "create" => i \notin used
      BY <1>1, WriteEffect
    <2>2. server' = [server EXCEPT ![i] = o]
      BY <2>1 DEF Effect
    <2>3. CASE k # i
      <3>1. server'[k] = server[k] /\ target'[r] # k
        BY <2>1, <2>2, <2>3 DEF TypeOK
      <3>2. method[r] = "Update" => request[r].op = "update"
        BY DEF RequestOf
      <3> QED
        BY <2>1, <2>3, <3>1, <3>2
    <2>4. CASE k = i /\ request[r].op = "create"
      <3>1. k \notin used /\ target'[r] = k
        BY <2>1, <2>4 DEF TypeOK
      <3>2. server'[k].secret = request[r].secret
        BY <2>1, <2>2, <2>4 DEF Effect, TypeOK
      <3>3. method[r] = "Create" => request[r].secret = plan[r].secret
        BY <1>1, <2>4 DEF ServiceWrites, RequestOf, SecretPlanOf
      <3> QED
        BY <1>1, <3>1, <3>2, <3>3, LifecycleAssumption DEF CreatedOf
    <2>5. CASE k = i /\ request[r].op = "update"
      <3>1. /\ server[k] # Absent /\ target[r] = k
            /\ server'[k].secret = IF request[r].secret = NoSecret
                                   THEN server[k].secret ELSE request[r].secret
        BY <2>1, <2>2, <2>5 DEF Effect, TypeOK
      <3>2. request[r].secret # NoSecret => method[r] = "Update"
        BY <1>1, <2>5 DEF ServiceWrites, RequestOf, SecretPlanOf
      <3> QED
        BY <1>1, <3>1, <3>2
    <2>6. CASE k = i /\ request[r].op = "delete"
      BY <2>1, <2>2, <2>6 DEF Effect, TypeOK
    <2>7. request[r].op \in {"create", "update", "delete"}
      BY <1>1 DEF ServiceWrites, RequestOf
    <2> QED
      BY <2>3, <2>4, <2>5, <2>6, <2>7
  <1>2. CASE LateActs(r)
    <2>1. PICK i \in Keys, o \in Object \union {Absent} :
             /\ late[r].write \in Write
             /\ Effect(i, late[r].write, o)
             /\ late[r].write.op = "create" => i \notin used
             /\ late[r].write.op # "create" => i = late[r].key
      BY <1>2, LateEffect
    <2>2. server' = [server EXCEPT ![i] = o]
      BY <2>1 DEF Effect
    <2>8. ~ServiceWrites(r)
      BY <1>2, AbsentAssumption DEF LateActs, ServiceWrites, TypeOK
    <2>3. CASE k # i
      BY <2>2, <2>3, <2>8 DEF TypeOK
    <2>4. CASE k = i /\ late[r].write.op = "create"
      <3>1. k \notin used /\ target' = target
        BY <1>2, <2>1, <2>4 DEF LateActs, callVars
      <3> QED
        BY <3>1, LifecycleAssumption DEF CreatedOf
    <2>5. CASE k = i /\ late[r].write.op = "update"
      <3>1. /\ server[k] # Absent /\ late[r].key = k
            /\ server'[k].secret = IF late[r].write.secret = NoSecret
                                   THEN server[k].secret ELSE late[r].write.secret
        BY <2>1, <2>2, <2>5 DEF Effect, TypeOK
      <3>2. \/ late[r].write.secret \in unsettled[k] \union {NoSecret}
            \/ /\ method[r] = "Update" /\ target[r] = k
               /\ late[r].write.secret = request[r].secret
        BY <1>2, <2>5, <3>1 DEF LateOf, LateActs
      <3> QED
        BY <1>2, <2>8, <3>1, <3>2
    <2>6. CASE k = i /\ late[r].write.op = "delete"
      BY <2>1, <2>2, <2>6 DEF Effect, TypeOK
    <2>7. late[r].write.op \in {"create", "update", "delete"}
      BY <2>1 DEF Write
    <2> QED
      BY <2>3, <2>4, <2>5, <2>6, <2>7
  <1>3. CASE ~ServiceWrites(r) /\ ~LateActs(r)
    BY <1>3, ServerStays
  <1> QED
    BY <1>1, <1>2, <1>3

\* A resource knows the secret of its object, whatever it does itself.
LEMMA SecretOnSelf ==
  ASSUME TypeOK, NEW r \in Resources, UsedInv, PlaceOf(r), NamedOf(r), RequestOf(r), SecretPlanOf(r), family.key = "assigned", CreatedOf(r), LateOf(r), NEW k \in Keys, server'[k] # Absent, server[k] # Absent => SecretOn(r, k),
         Method(r) \/ Service(r)
  PROVE  SecretOn(r, k)'
  <1> USE LifecycleAssumption, AbsentAssumption DEF TypeOK, serverVars, callVars, historyVars, PlaceOf, SecretOn, NoneGiven, Sending, Reading, Writing, Managed
  <1>1. CASE CreateStart(r)
    <2>1. PICK i \in CreateKeys : target' = [target EXCEPT ![r] = i]
      BY <1>1, Zenon DEF CreateStart, Begin
    <2>2. target'[r] # k
      BY <2>1, CreateKeysNamed
    <2>3. stored' = stored /\ ~Managed(r) /\ method'[r] = "Create"
      BY <1>1 DEF CreateStart, Begin
    <2> QED
      BY <2>2, <2>3
  <1>2. CASE ReadStart(r)
    BY <1>2 DEF ReadStart, Managed, Begin, Ask
  <1>3. CASE ImportStart(r)
    BY <1>3 DEF ImportStart, Managed, Begin, Ask
  <1>4. CASE UpdateStart(r)
    BY <1>4 DEF UpdateStart, Managed, Begin, Ask
  <1>5. CASE DeleteStart(r)
    BY <1>5 DEF DeleteStart, Managed, Begin, Ask
  <1>6. CASE ReadsBack(r)
    BY <1>6 DEF ReadsBack, Writing, Answered, Ask
  <1>7. CASE FollowsUp(r)
    BY <1>7 DEF FollowsUp, Answered, Ask, NeedsFollowUp
  <1>8. CASE AsksDetails(r)
    BY <1>8 DEF AsksDetails, HasReadBack, Writing, Answered, Ask
  <1>9. CASE WriteEnds(r)
    <2>1. PICK s \in State :
             /\ s.key = target[r] /\ s.version = plan[r].version
             /\ stored' = [stored EXCEPT ![r] = s]
      BY <1>9, StoresSeen
    <2>2. /\ method'[r] = "none" /\ UNCHANGED <<server, unsettled, family>>
          /\ stored'[r] = s
      BY <1>9, <2>1 DEF WriteEnds, End
    <2>3. /\ method[r] \in {"Create", "Update"} /\ PlanOK(plan[r])
          /\ call[r] \in {"get", "details"}
      BY <1>9 DEF WriteEnds, HasReadBack, Answered, SecretPlanOf
    <2>4. CASE k = target[r] /\ s.version # 0 /\ method[r] = "Create"
      <3>1. server[k].secret \in {plan[r].secret} \union unsettled[k]
        BY <2>2, <2>4
      <3>2. plan[r].secret \in {s.version} \union NoneGiven
        <4>1. plan[r].secret \in {NoSecret, s.version} /\ family.secret # "no"
          BY <2>1, <2>3, <2>4 DEF PlanOK
        <4>2. family.secret \in {"required", "rotated"} => plan[r].secret # NoSecret
          BY <2>4 DEF SecretPlanOf, CreateSecretOK
        <4>3. family.secret \in {"no", "optional", "enabled", "required", "rotated"}
          BY DEF Family
        <4> QED
          BY <4>1, <4>2, <4>3
      <3> QED
        BY <2>2, <3>1, <3>2
    <2>5. CASE k = target[r] /\ s.version # 0 /\ method[r] = "Update"
      <3>1. s.version = IF request[r].secret = NoSecret THEN stored[r].version ELSE request[r].secret
        BY <2>1, <2>5 DEF SecretPlanOf
      <3>2. Managed(r) /\ stored[r].key = k
        BY <2>5
      <3>3. server[k].secret \in {s.version} \union unsettled[k] \union NoneGiven
        BY <2>2, <2>3, <2>5, <3>1, <3>2
      <3> QED
        BY <2>2, <3>3
    <2> QED
      BY <2>1, <2>2, <2>3, <2>4, <2>5
  <1>10. CASE WriteFails(r)
    BY <1>10 DEF WriteFails, Writing, Answered, Report, End
  <1>11. CASE ReadEnds(r)
    BY <1>11 DEF ReadEnds, Reading, Answered, SetReadState, SetState, Managed, End
  <1>12. CASE ReadRemoves(r)
    BY <1>12 DEF ReadRemoves, Answered, NotFound, Forget, End
  <1>13. CASE ReadFails(r)
    BY <1>13 DEF ReadFails, Reading, Answered, End
  <1>14. CASE DeleteEnds(r)
    BY <1>14 DEF DeleteEnds, Answered, NotFound, Forget, End
  <1>15. CASE DeleteFails(r)
    BY <1>15 DEF DeleteFails, Answered, End
  <1>16. CASE ServiceWrites(r)
    <2>1. /\ UNCHANGED <<method, call, request, plan, stored, unsettled, family>>
          /\ reply'[r] = "ok"
      BY <1>16 DEF ServiceWrites
    <2>2. \/ /\ server[k] # Absent /\ server'[k].secret = server[k].secret
             /\ ServiceWrites(r) =>
                  /\ target'[r] = k => target[r] = k
                  /\ ~(method[r] = "Update" /\ target[r] = k /\ request[r].secret # NoSecret)
          \/ /\ k \notin used
             /\ method[r] = "Create" => target[r] # k
             /\ method[r] = "Create" /\ target'[r] = k =>
                  ServiceWrites(r) /\ server'[k].secret = plan[r].secret
          \/ server[k] # Absent /\ server'[k].secret \in unsettled[k]
          \/ /\ server[k] # Absent /\ server'[k].secret = request[r].secret
             /\ method[r] = "Update" /\ target[r] = k /\ request[r].secret # NoSecret
      BY SecretChange
    <2>3. Managed(r) => stored[r].key \in used
      BY DEF UsedInv
    <2>4. method[r] = "Update" => target[r] = stored[r].key /\ Managed(r)
      OBVIOUS
    <2>5. Managed(r)' = Managed(r)
      BY <2>1
    <2> HIDE DEF TypeOK, PlaceOf
    <2> QED
      BY <1>16, <2>1, <2>2, <2>3, <2>4, <2>5
  <1>17. CASE ServiceMisses(r)
    BY <1>17 DEF ServiceMisses
  <1>18. CASE ServiceReads(r)
    BY <1>18 DEF ServiceReads
  <1>19. CASE ServiceDetails(r)
    BY <1>19 DEF ServiceDetails
  <1>20. CASE AnswerLost(r)
    BY <1>20 DEF AnswerLost, GiveUp
  <1>21. CASE CutOff(r)
    BY <1>21 DEF CutOff, GiveUp, Report, End
  <1>22. CASE LateActs(r)
    <2>1. /\ UNCHANGED <<method, call, request, plan, stored, unsettled, family>>
          /\ ~ServiceWrites(r) /\ UNCHANGED <<target, reply>>
      BY <1>22 DEF LateActs, ServiceWrites
    <2>2. \/ /\ server[k] # Absent /\ server'[k].secret = server[k].secret
             /\ ServiceWrites(r) =>
                  /\ target'[r] = k => target[r] = k
                  /\ ~(method[r] = "Update" /\ target[r] = k /\ request[r].secret # NoSecret)
          \/ /\ k \notin used
             /\ method[r] = "Create" => target[r] # k
             /\ method[r] = "Create" /\ target'[r] = k =>
                  ServiceWrites(r) /\ server'[k].secret = plan[r].secret
          \/ server[k] # Absent /\ server'[k].secret \in unsettled[k]
          \/ /\ server[k] # Absent /\ server'[k].secret = request[r].secret
             /\ method[r] = "Update" /\ target[r] = k /\ request[r].secret # NoSecret
      BY SecretChange
    <2>3. Managed(r) => stored[r].key \in used
      BY DEF UsedInv
    <2>4. method[r] = "Update" => target[r] = stored[r].key /\ Managed(r)
      OBVIOUS
    <2>5. Managed(r)' = Managed(r)
      BY <2>1
    <2> HIDE DEF TypeOK, PlaceOf
    <2> QED
      BY <1>22, <2>1, <2>2, <2>3, <2>4, <2>5
  <1>23. CASE TokenMisses(r)
    BY <1>23 DEF TokenMisses, GiveUp
  <1> QED
    BY <1>1, <1>2, <1>3, <1>4, <1>5, <1>6, <1>7, <1>8, <1>9, <1>10, <1>11,
       <1>12, <1>13, <1>14, <1>15, <1>16, <1>17, <1>18, <1>19, <1>20,
       <1>21, <1>22, <1>23 DEF Method, Service

\* A resource that does nothing plans and keeps what it did, and knows the
\* secret of its object: nobody else has it, and names are given once.
LEMMA SecretsKept ==
  ASSUME TypeOK, NEW q \in Resources, SecretPlanOf(q),
         UNCHANGED <<method[q], call[q], reply[q], target[q], request[q],
                     plan[q], stored[q], late[q], family>>,
         used \subseteq used', \A k \in Keys : unsettled[k] \subseteq unsettled'[k]
  PROVE  /\ SecretPlanOf(q)'
         /\ CreatedOf(q) => CreatedOf(q)'
         /\ LateOf(q) => LateOf(q)'
  <1>1. SecretPlanOf(q)'
    <2>1. PlanOK(plan[q])' = PlanOK(plan[q]) /\ CreateSecretOK(plan[q])' = CreateSecretOK(plan[q])
      BY DEF PlanOK, CreateSecretOK
    <2> QED
      BY <2>1 DEF SecretPlanOf, Managed, Writing
  <1>2. CreatedOf(q) => CreatedOf(q)'
    BY DEF CreatedOf
  <1>3. LateOf(q) => LateOf(q)'
    BY DEF LateOf, TypeOK
  <1> QED
    BY <1>1, <1>2, <1>3

LEMMA SecretOnKept ==
  ASSUME TypeOK, UsedInv, NEW q \in Resources, CreatedOf(q),
         UNCHANGED <<method[q], call[q], reply[q], target[q], request[q],
                     plan[q], stored[q], family>>,
         NEW k \in Keys, unsettled[k] \subseteq unsettled'[k],
         server[k] # Absent => SecretOn(q, k),
         \/ server[k] # Absent /\ server'[k].secret \in {server[k].secret} \union unsettled[k]
         \/ k \notin used
  PROVE  SecretOn(q, k)'
  <1>1. CASE server[k] # Absent /\ server'[k].secret \in {server[k].secret} \union unsettled[k]
    <2>1. NoneGiven' = NoneGiven /\ Sending(q)' = Sending(q) /\ Managed(q)' = Managed(q)
      BY DEF NoneGiven, Sending, Managed
    <2> QED
      BY <1>1, <2>1 DEF SecretOn
  <1>2. CASE k \notin used
    <2>1. /\ Managed(q) => stored[q].key # k
          /\ method[q] = "Create" => target[q] # k
      BY <1>2, LifecycleAssumption DEF UsedInv, CreatedOf
    <2> QED
      BY <2>1 DEF SecretOn, Managed
  <1> QED
    BY <1>1, <1>2

LEMMA SecretStep ==
  LifecycleInv /\ SecretInv /\ [Next]_vars => SecretInv'
  <1> SUFFICES ASSUME LifecycleInv, SecretInv, [Next]_vars
               PROVE  SecretInv'
    OBVIOUS
  <1>0. /\ TypeOK /\ UsedInv
        /\ \A q \in Resources : /\ PlaceOf(q) /\ NamedOf(q) /\ RequestOf(q)
                                /\ GoneOf(q) /\ SecretPlanOf(q)
        /\ family.secret # "no" =>
             /\ family.key = "assigned"
             /\ \A q \in Resources : CreatedOf(q) /\ LateOf(q) /\ SecretOf(q)
    BY SecretsAssumption DEF LifecycleInv, SecretInv, TypeOK
  <1>1. ASSUME NEW r \in Resources, Method(r) \/ Service(r)
        PROVE  SecretInv'
    <2>1. \A q \in Resources \ {r} :
             UNCHANGED <<method[q], call[q], reply[q], target[q], request[q],
                         plan[q], seen[q], stored[q], late[q], family>>
      BY <1>0, <1>1, OthersStay
    <2>2. used \subseteq used' /\ \A k \in Keys : unsettled[k] \subseteq unsettled'[k]
      BY <1>0, <1>1, UsedSelf, UnsettledGrows
    <2>3. SecretPlanOf(r)'
      BY <1>0, <1>1, SecretPlanSelf
    <2>4. ASSUME NEW q \in Resources \ {r}
          PROVE  /\ SecretPlanOf(q)'
                 /\ CreatedOf(q) => CreatedOf(q)'
                 /\ LateOf(q) => LateOf(q)'
      BY <1>0, <2>1, <2>2, <2>4, SecretsKept
    <2>5. family' = family
      BY <1>0, <1>1, FamilyStays
    <2>6. CASE family.secret = "no"
      BY <2>3, <2>4, <2>5, <2>6 DEF SecretInv
    <2>7. CASE family.secret # "no"
      <3>1. CreatedOf(r)' /\ LateOf(r)'
        BY <1>0, <1>1, <2>7, CreatedSelf, LateSelf
      <3>2. ASSUME NEW q \in Resources, NEW k \in Keys, server'[k] # Absent, Alone(q, k)'
            PROVE  Alone(q, k) \/ server'[k].secret \in unsettled'[k]
        <4> SUFFICES ASSUME NEW p \in Resources \ {q}, Managed(p), stored[p].key = k,
                            server'[k].secret \notin unsettled'[k]
                     PROVE  FALSE
          BY DEF Alone
        <4>1. CASE p = r
          <5>1. Managed(r)' /\ stored'[r].key = k
            BY <1>0, <1>1, <2>7, <3>2, <4>1, StateKept
          <5> QED
            BY <3>2, <4>1, <5>1 DEF Alone
        <4>2. CASE p # r
          BY <2>1, <3>2, <4>2 DEF Alone, Managed
        <4> QED
          BY <4>1, <4>2
      <3>3. SecretOf(r)'
        <4> SUFFICES ASSUME NEW k \in Keys, server'[k] # Absent, Alone(r, k)'
                     PROVE  SecretOn(r, k)'
          BY DEF SecretOf
        <4>1. CASE server'[k].secret \in unsettled'[k]
          BY <4>1 DEF SecretOn
        <4>2. CASE Alone(r, k)
          <5>1. server[k] # Absent => SecretOn(r, k)
            BY <1>0, <2>7, <4>2 DEF SecretOf
          <5> QED
            BY <1>0, <1>1, <2>7, <5>1, SecretOnSelf
        <4> QED
          BY <3>2, <4>1, <4>2
      <3>4. ASSUME NEW q \in Resources \ {r}
            PROVE  SecretOf(q)'
        <4> SUFFICES ASSUME NEW k \in Keys, server'[k] # Absent, Alone(q, k)'
                     PROVE  SecretOn(q, k)'
          BY DEF SecretOf
        <4>4. CASE server'[k].secret \in unsettled'[k]
          BY <4>4 DEF SecretOn
        <4> SUFFICES ASSUME Alone(q, k)
                     PROVE  SecretOn(q, k)'
          BY <3>2, <4>4
        <4>1. Alone(q, k) /\ (server[k] # Absent => SecretOn(q, k))
          BY <1>0, <2>7 DEF SecretOf
        <4>2. ~(method[r] = "Update" /\ target[r] = k)
          BY <1>0, <3>4, <4>1 DEF Alone, PlaceOf
        <4>3. \/ server[k] # Absent /\ server'[k].secret \in {server[k].secret} \union unsettled[k]
              \/ k \notin used
          BY <1>0, <1>1, <2>7, <4>2, SecretChange
        <4> QED
          BY <1>0, <2>1, <2>2, <2>7, <4>1, <4>3, SecretOnKept
      <3> QED
        BY <2>3, <2>4, <2>7, <1>0, <3>1, <3>3, <3>4 DEF SecretInv
    <2> QED
      BY <2>6, <2>7
  <1>2. CASE Elsewhere
    <2>1. PICK i \in Keys, o \in Object \union {Absent} :
             /\ server' = [server EXCEPT ![i] = o]
             /\ used \subseteq used'
             /\ family.key = "assigned" /\ server[i] = Absent => i \notin used
             /\ server[i] # Absent /\ o # Absent => o.secret = server[i].secret
      BY <1>0, <1>2, ElsewhereEffect
    <2>2. UNCHANGED <<family, late, method, call, reply, target, request, plan, stored, unsettled>>
      BY <1>2 DEF Elsewhere, callVars
    <2>3. ASSUME NEW q \in Resources
          PROVE  /\ SecretPlanOf(q)'
                 /\ CreatedOf(q) => CreatedOf(q)'
                 /\ LateOf(q) => LateOf(q)'
      BY <1>0, <2>1, <2>2, SecretsKept
    <2>4. ASSUME NEW q \in Resources, family.secret # "no"
          PROVE  SecretOf(q)'
      <3> SUFFICES ASSUME NEW k \in Keys, server'[k] # Absent, Alone(q, k)'
                   PROVE  SecretOn(q, k)'
        BY DEF SecretOf
      <3>1. server[k] # Absent => SecretOn(q, k)
        BY <1>0, <2>2, <2>4 DEF SecretOf, Alone, Managed
      <3>2. \/ server[k] # Absent /\ server'[k].secret \in {server[k].secret} \union unsettled[k]
            \/ k \notin used
        BY <1>0, <2>1, <2>4 DEF TypeOK, UsedInv
      <3> QED
        BY <1>0, <2>2, <2>4, <3>1, <3>2, SecretOnKept
    <2> QED
      BY <1>0, <2>2, <2>3, <2>4 DEF SecretInv
  <1>3. CASE UNCHANGED vars
    <2>1. UNCHANGED <<family, server, used, late, method, call, reply, target, request,
                      plan, stored, unsettled>>
      BY <1>3 DEF vars, serverVars, callVars, historyVars
    <2>2. ASSUME NEW q \in Resources
          PROVE  /\ SecretPlanOf(q)'
                 /\ CreatedOf(q) => CreatedOf(q)'
                 /\ LateOf(q) => LateOf(q)'
      BY <1>0, <2>1, SecretsKept
    <2>3. ASSUME NEW q \in Resources, family.secret # "no"
          PROVE  SecretOf(q)'
      <3> SUFFICES ASSUME NEW k \in Keys, server'[k] # Absent, Alone(q, k)'
                   PROVE  SecretOn(q, k)'
        BY DEF SecretOf
      <3>1. server[k] # Absent /\ SecretOn(q, k)
        BY <1>0, <2>1, <2>3 DEF SecretOf, Alone, Managed
      <3> QED
        BY <1>0, <2>1, <2>3, <3>1, SecretOnKept
    <2> QED
      BY <1>0, <2>1, <2>2, <2>3 DEF SecretInv
  <1> QED
    BY <1>1, <1>2, <1>3 DEF Next

\* As long as one resource has an object, the version trigger in its state
\* tells which secret the object has, unless an Update that sent another one
\* is on its way or ended with a diagnostic, or another resource has left the
\* object on a 404 of the token endpoint: whatever answers are lost and however
\* late a write acts.
THEOREM SecretsFollowTheirVersions == Spec => []SecretFollowsVersion
  <1>1. Init => SecretInv
    <2> SUFFICES ASSUME Init, NEW r \in Resources
                 PROVE  SecretPlanOf(r) /\ CreatedOf(r) /\ LateOf(r) /\ SecretOf(r)
      BY DEF SecretInv
    <2>1. SecretPlanOf(r) /\ CreatedOf(r) /\ LateOf(r)
      BY DEF Init, SecretPlanOf, CreatedOf, LateOf, Managed, Writing
    <2>2. SecretOf(r)
      BY DEF Init, SecretOf
    <2> QED
      BY <2>1, <2>2
  <1>2. LifecycleInv /\ SecretInv => SecretFollowsVersion
    <2> SUFFICES ASSUME LifecycleInv, SecretInv, NEW r \in Resources, NEW k \in Keys,
                        SoleOwner(r, k), stored[r].version # 0, server[k] # Absent
                 PROVE  \/ server[k].secret \in
                             {stored[r].version} \union unsettled[k] \union InFlight(k)
                        \/ /\ server[k].secret = NoSecret
                           /\ family.secret \in {"optional", "enabled"}
      BY DEF SecretFollowsVersion
    <2>1. TypeOK /\ PlaceOf(r) /\ SecretPlanOf(r) /\ Managed(r) /\ stored[r].key = k
      BY DEF LifecycleInv, SecretInv, SoleOwner
    <2>2. family.secret # "no"
      BY <2>1 DEF SecretPlanOf
    <2>3. SecretOn(r, k)
      BY <2>2 DEF SecretInv, SecretOf, SoleOwner
    <2>4. server[k].secret \in
            {stored[r].version} \union unsettled[k] \union NoneGiven \union Sending(r)
      BY <2>1, <2>3 DEF SecretOn
    <2>5. Sending(r) \subseteq InFlight(k)
      BY <2>1 DEF Sending, InFlight, PlaceOf
    <2> QED
      BY <2>4, <2>5 DEF NoneGiven
  <1> QED
    BY <1>1, <1>2, SecretStep, InitLifecycleInv, LifecycleStep, PTL DEF Spec

----------------------------------------------------------------------------
(* The step simulation of StateContract.                                   *)

\* What StateContract speaks of stays as it is.
Unmoved ==
  UNCHANGED <<family, presentKeys, used, keptKey, pendingKey, made, reported, dropped>>

\* The names in the states change where a state is set.
LEMMA KeptKeyMoves ==
  ASSUME TypeOK, NEW r \in Resources, NEW s,
         stored' = [stored EXCEPT ![r] = s]
  PROVE  keptKey' = [keptKey EXCEPT ![r] = IF s # Absent THEN s.key ELSE NoKey]
  BY DEF TypeOK, keptKey, Managed

LEMMA PendingKeyMoves ==
  ASSUME TypeOK, NEW r \in Resources, NEW m, NEW k,
         method' = [method EXCEPT ![r] = m], target' = [target EXCEPT ![r] = k]
  PROVE  pendingKey' = [pendingKey EXCEPT ![r] = IF m = "Create" THEN k ELSE NoKey]
  BY DEF TypeOK, pendingKey

\* Objects come and go one at a time.
LEMMA PresentKeysMove ==
  ASSUME TypeOK, NEW k \in Keys, NEW o, server' = [server EXCEPT ![k] = o]
  PROVE  presentKeys' = IF o = Absent THEN presentKeys \ {k} ELSE presentKeys \union {k}
  BY DEF TypeOK, presentKeys

\* A method that ends was about its target, and is about nothing now.
LEMMA PendingKeyEnds ==
  ASSUME TypeOK, NEW r \in Resources, End(r)
  PROVE  /\ pendingKey' = [pendingKey EXCEPT ![r] = NoKey]
         /\ method[r] # "Create" => pendingKey' = pendingKey
<1>1. pendingKey' = [pendingKey EXCEPT ![r] = NoKey]
  BY PendingKeyMoves DEF End
<1>2. method[r] # "Create" => pendingKey[r] = NoKey
  BY DEF pendingKey
<1>3. pendingKey = [pendingKey EXCEPT ![r] = pendingKey[r]]
  BY DEF pendingKey
<1> QED
  BY <1>1, <1>2, <1>3

LEMMA StateContractInitial == Init => Contract!Init
<1> SUFFICES ASSUME Init PROVE Contract!Init
  OBVIOUS
<1>1. presentKeys = {}
  BY DEF Init, presentKeys
<1>2. keptKey = [r \in Resources |-> NoKey] /\ pendingKey = [r \in Resources |-> NoKey]
  BY DEF Init, keptKey, pendingKey, Managed
<1>3. (family.key # "assigned") \in BOOLEAN
  OBVIOUS
<1>4. used \in SUBSET Keys
  BY DEF Init
<1> QED
  BY <1>1, <1>2, <1>3, <1>4 DEF Init, Contract!Init

\* A method that starts makes a name of the configuration its own, if it is a
\* Create, and is otherwise none of Terraform's business.
LEMMA StartSimulates ==
  ASSUME LifecycleInv, NEW r \in Resources,
         CreateStart(r) \/ ReadStart(r) \/ ImportStart(r) \/ UpdateStart(r) \/ DeleteStart(r)
  PROVE  Unmoved \/ \E k \in Keys : Contract!Begins(r, k)
<1> USE DEF LifecycleInv
<1>1. TypeOK /\ method[r] = "none" /\ UNCHANGED <<family, server, used, stored, made, reported, dropped>>
  BY DEF CreateStart, ReadStart, ImportStart, UpdateStart, DeleteStart, Begin, serverVars
<1>2. keptKey' = keptKey /\ presentKeys' = presentKeys
  BY <1>1 DEF keptKey, presentKeys, Managed
<1>3. pendingKey[r] = NoKey /\ pendingKey = [pendingKey EXCEPT ![r] = pendingKey[r]]
  BY <1>1 DEF pendingKey
<1>4. CASE CreateStart(r)
  <2>1. PICK k \in CreateKeys : target' = [target EXCEPT ![r] = k]
    BY <1>4, Zenon DEF CreateStart, Begin
  <2>2. method' = [method EXCEPT ![r] = "Create"]
    BY <1>4 DEF CreateStart, Begin
  <2>3. pendingKey' = [pendingKey EXCEPT ![r] = k]
    BY <1>1, <2>1, <2>2, PendingKeyMoves
  <2>4. CASE family.key = "assigned"
    <3>1. k = NoKey
      BY <1>1, <2>1, <2>4, CreateKeysNamed
    <3> QED
      BY <1>1, <1>2, <1>3, <2>3, <3>1 DEF Unmoved
  <2>5. CASE family.key # "assigned"
    <3>1. k \in Keys
      BY <1>1, <2>1, <2>5, CreateKeysNamed
    <3>2. keptKey[r] = NoKey
      BY <1>4 DEF CreateStart, keptKey
    <3>3. Contract!Begins(r, k)
      BY <1>1, <1>2, <1>3, <2>3, <2>5, <3>2 DEF Contract!Begins
    <3> QED
      BY <3>1, <3>3
  <2> QED
    BY <2>4, <2>5
<1>5. CASE ReadStart(r) \/ ImportStart(r) \/ UpdateStart(r) \/ DeleteStart(r)
  <2>1. PICK k \in Keys \union {NoKey}, m \in {"Read", "Import", "Update", "Delete"} :
          target' = [target EXCEPT ![r] = k] /\ method' = [method EXCEPT ![r] = m]
    <3>1. CASE ReadStart(r) \/ UpdateStart(r) \/ DeleteStart(r)
      <4>1. stored[r].key \in Keys
        BY <1>1, <3>1 DEF ReadStart, UpdateStart, DeleteStart, Managed, TypeOK, State
      <4> QED
        BY <3>1, <4>1 DEF ReadStart, UpdateStart, DeleteStart, Begin
    <3>2. CASE ImportStart(r)
      BY <1>1, <3>2, CreateKeysNamed DEF ImportStart, Begin
    <3> QED
      BY <1>5, <3>1, <3>2
  <2>2. pendingKey' = [pendingKey EXCEPT ![r] = NoKey]
    BY <1>1, <2>1, PendingKeyMoves
  <2> QED
    BY <1>1, <1>2, <1>3, <2>2 DEF Unmoved
<1> QED
  BY <1>4, <1>5

\* A call that goes on, or an answer, changes nothing Terraform sees.
LEMMA CallSimulates ==
  ASSUME LifecycleInv, NEW r \in Resources,
         \/ ReadsBack(r) \/ FollowsUp(r) \/ AsksDetails(r)
         \/ ServiceMisses(r) \/ ServiceReads(r) \/ ServiceDetails(r) \/ AnswerLost(r)
         \/ TokenMisses(r)
  PROVE  Unmoved
<1>1. UNCHANGED <<family, server, used, stored, made, reported, dropped, method, target>>
  BY DEF ReadsBack, FollowsUp, AsksDetails, ServiceMisses, ServiceReads, ServiceDetails,
         AnswerLost, TokenMisses, serverVars, historyVars
<1> QED
  BY <1>1 DEF Unmoved, presentKeys, keptKey, pendingKey, Managed

\* A Create that ends well keeps its object, an Update the object it has.
LEMMA WriteEndSimulates ==
  ASSUME LifecycleInv, NEW r \in Resources, WriteEnds(r)
  PROVE  Contract!Keeps(r) \/ Contract!Refreshes(r)
<1>1. TypeOK /\ PlaceOf(r) /\ RequestOf(r) /\ UsedInv
  BY DEF LifecycleInv
<1>2. /\ UNCHANGED <<family, server, used, made>>
      /\ End(r) /\ method[r] \in {"Create", "Update"}
  BY DEF WriteEnds, serverVars, Writing
<1>3. PICK s \in State : /\ s.key = target[r]
                         /\ stored' = [stored EXCEPT ![r] = s]
                         /\ reported' = reported \ {target[r]}
                         /\ dropped' = dropped \ {target[r]}
  BY <1>1, StoresSeen
<1>4. keptKey' = [keptKey EXCEPT ![r] = target[r]]
  BY <1>1, <1>3, KeptKeyMoves, AbsentAssumption
<1>5. presentKeys' = presentKeys
  BY <1>2 DEF presentKeys
<1>6. HasSeen(r) /\ target[r] \in used
  BY <1>1 DEF WriteEnds, HasReadBack, HasSeen, Answered, UsedInv
<1>7. CASE method[r] = "Create"
  <2>1. keptKey[r] = NoKey /\ pendingKey[r] = target[r]
    BY <1>1, <1>7 DEF PlaceOf, keptKey, pendingKey
  <2> QED
    BY <1>1, <1>2, <1>3, <1>4, <1>5, <1>6, <2>1, PendingKeyEnds DEF Contract!Keeps, Contract!Finds
<1>8. CASE method[r] = "Update"
  <2>1. keptKey[r] = target[r] /\ target[r] # NoKey
    BY <1>1, <1>8, <1>6, LifecycleAssumption DEF PlaceOf, keptKey, TypeOK
  <2>2. keptKey' = keptKey
    BY <1>4, <2>1 DEF keptKey
  <2> QED
    BY <1>1, <1>2, <1>3, <1>5, <1>8, <2>1, <2>2, PendingKeyEnds DEF Contract!Refreshes, Contract!Finds
<1> QED
  BY <1>2, <1>7, <1>8

\* A Read that ends well keeps the object the state has, an import takes one.
LEMMA ReadEndSimulates ==
  ASSUME LifecycleInv, NEW r \in Resources, ReadEnds(r)
  PROVE  Contract!Refreshes(r) \/ \E k \in Keys : Contract!Adopts(r, k)
<1>1. TypeOK /\ PlaceOf(r) /\ RequestOf(r) /\ UsedInv
  BY DEF LifecycleInv
<1>2. /\ UNCHANGED <<family, server, used>>
      /\ End(r) /\ method[r] \in {"Read", "Import"}
  BY DEF ReadEnds, serverVars, Reading
<1>3. PICK s \in State : /\ s.key = target[r]
                         /\ stored' = [stored EXCEPT ![r] = s]
                         /\ reported' = reported \ {target[r]}
                         /\ dropped' = dropped \ {target[r]}
  BY <1>1, StoresSeen
<1>4. keptKey' = [keptKey EXCEPT ![r] = target[r]]
  BY <1>1, <1>3, KeptKeyMoves, AbsentAssumption
<1>5. presentKeys' = presentKeys
  BY <1>2 DEF presentKeys
<1>6. HasSeen(r) /\ target[r] \in used /\ target[r] \in Keys
  BY <1>1 DEF ReadEnds, HasSeen, Answered, UsedInv, TypeOK
<1>7. made' = made \union ({target[r]} \intersect presentKeys)
  BY <1>6 DEF ReadEnds, presentKeys
<1>8. pendingKey' = pendingKey /\ pendingKey[r] = NoKey
  BY <1>1, <1>2, PendingKeyEnds DEF pendingKey
<1>9. CASE method[r] = "Import"
  <2>1. keptKey[r] = NoKey
    BY <1>1, <1>9 DEF PlaceOf, keptKey
  <2>2. Contract!Adopts(r, target[r])
    BY <1>2, <1>3, <1>4, <1>5, <1>6, <1>7, <1>8, <2>1 DEF Contract!Adopts, Contract!Finds
  <2> QED
    BY <1>6, <2>2
<1>10. CASE method[r] = "Read"
  <2>1. keptKey[r] = target[r] /\ target[r] # NoKey
    BY <1>1, <1>10, <1>6, LifecycleAssumption DEF PlaceOf, keptKey
  <2>2. keptKey' = keptKey
    BY <1>4, <2>1 DEF keptKey
  <2> QED
    BY <1>2, <1>3, <1>5, <1>7, <1>8, <2>1, <2>2 DEF Contract!Refreshes, Contract!Finds
<1> QED
  BY <1>2, <1>9, <1>10

\* A method that ends with a diagnostic has named what it may leave behind.
LEMMA FailureSimulates ==
  ASSUME LifecycleInv, NEW r \in Resources,
         WriteFails(r) \/ CutOff(r) \/ ReadFails(r) \/ DeleteFails(r)
  PROVE  Contract!Fails({r})
<1>1. TypeOK /\ End(r) /\ UNCHANGED <<family, server, used, stored, made, dropped>>
  BY DEF LifecycleInv, WriteFails, CutOff, ReadFails, DeleteFails, Report, serverVars
<1>2. keptKey' = keptKey /\ presentKeys' = presentKeys
  BY <1>1 DEF keptKey, presentKeys, Managed
<1>3. pendingKey' = [q \in Resources |-> IF q \in {r} THEN NoKey ELSE pendingKey[q]]
  BY <1>1, PendingKeyEnds DEF pendingKey
<1>4. reported' = reported \union ({pendingKey[r]} \ {NoKey})
  BY DEF WriteFails, CutOff, ReadFails, DeleteFails, Report, pendingKey, Reading
<1>5. {pendingKey[q] : q \in {r}} = {pendingKey[r]}
  OBVIOUS
<1> QED
  BY <1>1, <1>2, <1>3, <1>4, <1>5 DEF Contract!Fails

\* A resource leaves the state when there is nothing that it alone stands for,
\* or drops what it has.
LEMMA LeavingSimulates ==
  ASSUME LifecycleInv, NEW r \in Resources, ReadRemoves(r) \/ DeleteEnds(r)
  PROVE  Contract!Forgets(r) \/ Contract!Drops(r)
<1>1. TypeOK /\ PlaceOf(r) /\ GoneOf(r) /\ HeldInv
  BY DEF LifecycleInv
<1>2. /\ End(r) /\ Forget(r) /\ method[r] \in {"Read", "Delete"}
      /\ UNCHANGED <<family, server, used, made, reported>>
      /\ Losing(r) \/ reply[r] = "notoken"
  BY DEF ReadRemoves, DeleteEnds, Answered, NotFound, Losing, serverVars
<1>3. Managed(r) /\ stored[r].key \in Keys /\ target[r] = stored[r].key
  BY <1>1, <1>2, AbsentAssumption DEF PlaceOf, Managed, TypeOK, State
<1>4. keptKey[r] = target[r] /\ target[r] \in Keys /\ target[r] # NoKey
  BY <1>3, LifecycleAssumption DEF keptKey
<1>5. keptKey' = [keptKey EXCEPT ![r] = NoKey]
  BY <1>1, <1>2, KeptKeyMoves DEF Forget
<1>6. presentKeys' = presentKeys /\ pendingKey' = pendingKey
  BY <1>1, <1>2, PendingKeyEnds DEF presentKeys
<1>7. CASE reply[r] = "notoken"
  <2>1. dropped' = dropped \union ({keptKey[r]} \intersect made)
    BY <1>2, <1>3, <1>4, <1>7 DEF Forget
  <2> QED
    BY <1>2, <1>4, <1>5, <1>6, <2>1 DEF Contract!Drops
<1>8. CASE Losing(r)
  <2>1. reply[r] # "notoken" /\ dropped' = dropped
    BY <1>1, <1>2, <1>8 DEF Losing, Forget
  <2>2. family.key = "assigned" => target[r] \notin presentKeys
    BY <1>1, <1>8 DEF GoneOf, presentKeys
  <2>3. ASSUME target[r] \in made
        PROVE  \/ target[r] \in reported \union dropped
               \/ \E q \in Resources \ {r} : target[r] \in {keptKey[q], pendingKey[q]}
    <3>1. CASE target[r] \in reported \union dropped
      BY <3>1
    <3>2. CASE \E q \in Resources : Holds(q, target[r])
      <4>1. PICK q \in Resources : Holds(q, target[r])
        BY <3>2
      <4>2. q # r
        BY <1>2, <1>8, <4>1 DEF Holds, Writing
      <4>3. PlaceOf(q)
        BY DEF LifecycleInv
      <4>4. CASE Managed(q) /\ stored[q].key = target[r]
        BY <4>2, <4>4 DEF keptKey
      <4>5. CASE Writing(q) /\ target[q] = target[r]
        <5>1. method[q] = "Create" => pendingKey[q] = target[r]
          BY <4>5 DEF pendingKey
        <5>2. method[q] = "Update" => keptKey[q] = target[r]
          BY <4>3, <4>5 DEF PlaceOf, keptKey
        <5> QED
          BY <4>2, <4>5, <5>1, <5>2 DEF Writing
      <4> QED
        BY <4>1, <4>4, <4>5 DEF Holds
    <3> QED
      BY <1>1, <2>3, <3>1, <3>2 DEF HeldInv
  <2> QED
    BY <1>2, <1>4, <1>5, <1>6, <2>1, <2>2, <2>3 DEF Contract!Forgets
<1> QED
  BY <1>2, <1>7, <1>8

\* A request makes, changes or removes one object.
LEMMA WriteSimulates ==
  ASSUME LifecycleInv, NEW r \in Resources, ServiceWrites(r)
  PROVE  Unmoved \/ \E k \in Keys : Contract!Makes(r, k) \/ Contract!Removes(k)
<1>1. TypeOK /\ PlaceOf(r) /\ NamedOf(r) /\ RequestOf(r)
  BY DEF LifecycleInv
<1>2. /\ call[r] \in {"write", "follow"} /\ reply[r] = "none"
      /\ UNCHANGED <<family, method, stored, reported>>
  BY DEF ServiceWrites
<1>3. PICK k \in Keys, o \in Object \union {Absent} :
         /\ Effect(k, request[r], o)
         /\ target' = [target EXCEPT ![r] = k]
         /\ (request[r].op = "create" /\ family.key = "assigned") \/ k = target[r]
         /\ family.key = "assigned" /\ request[r].op = "create" => k \notin used
  BY <1>1, WriteEffect
<1>4. keptKey' = keptKey
  BY <1>2 DEF keptKey, Managed
<1>5. method' = [method EXCEPT ![r] = method[r]]
  BY <1>1, <1>2 DEF TypeOK
<1>6. pendingKey' = [pendingKey EXCEPT ![r] = IF method[r] = "Create" THEN k ELSE NoKey]
  BY <1>1, <1>3, <1>5, PendingKeyMoves
<1>7. presentKeys' = IF o = Absent THEN presentKeys \ {k} ELSE presentKeys \union {k}
  BY <1>1, <1>3, PresentKeysMove DEF Effect
<1>8. method[r] # "none" /\ method[r] \notin {"Read", "Import"}
  BY <1>1, <1>2 DEF PlaceOf, Reading
<1>9. k = target[r] => pendingKey' = pendingKey
  BY <1>6 DEF pendingKey
<1>10. CASE request[r].op = "create"
  <2>1. method[r] = "Create" /\ call[r] = "write"
    BY <1>1, <1>2, <1>8, <1>10 DEF RequestOf
  <2>2. /\ o # Absent /\ used' = used \union {k} /\ made' = made \union {k}
        /\ dropped' = dropped \ {k}
    BY <1>3, <1>10, AbsentAssumption DEF Effect
  <2>3. keptKey[r] = NoKey /\ pendingKey[r] = target[r]
    BY <1>1, <2>1 DEF PlaceOf, keptKey, pendingKey
  <2>4. family.key = "assigned" => pendingKey[r] = NoKey /\ k \notin used
    BY <1>1, <1>2, <1>3, <1>10, <2>1, <2>3 DEF NamedOf
  <2>5. family.key # "assigned" => pendingKey[r] = k
    BY <1>3, <2>3
  <2>6. Contract!Makes(r, k)
    BY <1>2, <1>4, <1>6, <1>7, <2>1, <2>2, <2>3, <2>4, <2>5 DEF Contract!Makes
  <2> QED
    BY <2>6
<1>11. CASE request[r].op = "update"
  <2>1. o # Absent /\ server[k] # Absent /\ UNCHANGED <<used, made, dropped>>
    BY <1>3, <1>11, AbsentAssumption DEF Effect
  <2>2. presentKeys' = presentKeys
    BY <1>7, <2>1 DEF presentKeys
  <2> QED
    BY <1>2, <1>3, <1>4, <1>9, <1>11, <2>1, <2>2 DEF Unmoved
<1>12. CASE request[r].op = "delete"
  <2>1. /\ o = Absent /\ used' = used /\ made' = made \ {k}
        /\ dropped' = dropped \ {k}
    BY <1>3, <1>12 DEF Effect
  <2>2. Contract!Removes(k)
    BY <1>2, <1>3, <1>4, <1>7, <1>9, <1>12, <2>1 DEF Contract!Removes
  <2> QED
    BY <2>2
<1>13. request[r].op \in {"create", "update", "delete"}
  BY <1>1, <1>2, <1>8 DEF RequestOf, TypeOK, Write
<1> QED
  BY <1>10, <1>11, <1>12, <1>13

\* So does a request that was given up; what it makes was reported.
LEMMA LateSimulates ==
  ASSUME LifecycleInv, NEW r \in Resources, LateActs(r)
  PROVE  Unmoved \/ \E k \in Keys : Contract!Appears(k) \/ Contract!Removes(k)
<1>1. TypeOK /\ NamedOf(r)
  BY DEF LifecycleInv
<1>2. UNCHANGED <<family, method, target, stored>>
  BY DEF LateActs, callVars
<1>3. PICK k \in Keys, o \in Object \union {Absent} :
         /\ late[r].write \in Write
         /\ Effect(k, late[r].write, o)
         /\ family.key = "assigned" /\ late[r].write.op = "create" => k \notin used
         /\ reported' = IF late[r].write.op = "create"
                        THEN reported \union {k} ELSE reported
  BY <1>1, LateEffect
<1>4. keptKey' = keptKey /\ pendingKey' = pendingKey
  BY <1>2 DEF keptKey, pendingKey, Managed
<1>5. presentKeys' = IF o = Absent THEN presentKeys \ {k} ELSE presentKeys \union {k}
  BY <1>1, <1>3, PresentKeysMove DEF Effect
<1>6. CASE late[r].write.op = "create"
  <2>1. /\ o # Absent /\ used' = used \union {k} /\ made' = made \union {k}
        /\ reported' = reported \union {k} /\ dropped' = dropped \ {k}
    BY <1>3, <1>6, AbsentAssumption DEF Effect
  <2>2. Contract!Appears(k)
    BY <1>2, <1>3, <1>4, <1>5, <1>6, <2>1 DEF Contract!Appears
  <2> QED
    BY <2>2
<1>7. CASE late[r].write.op = "update"
  <2>1. o # Absent /\ server[k] # Absent /\ UNCHANGED <<used, made, reported, dropped>>
    BY <1>3, <1>7, AbsentAssumption DEF Effect
  <2>2. presentKeys' = presentKeys
    BY <1>5, <2>1 DEF presentKeys
  <2> QED
    BY <1>2, <1>4, <2>1, <2>2 DEF Unmoved
<1>8. CASE late[r].write.op = "delete"
  <2>1. /\ o = Absent /\ UNCHANGED <<used, reported>> /\ made' = made \ {k}
        /\ dropped' = dropped \ {k}
    BY <1>3, <1>8 DEF Effect
  <2>2. Contract!Removes(k)
    BY <1>2, <1>4, <1>5, <2>1 DEF Contract!Removes
  <2> QED
    BY <2>2
<1>9. late[r].write.op \in {"create", "update", "delete"}
  BY <1>3 DEF Write
<1> QED
  BY <1>6, <1>7, <1>8, <1>9

\* Other administrators edit, remove and create objects that are not ours.
LEMMA ElsewhereSimulates ==
  ASSUME LifecycleInv, Elsewhere
  PROVE  Unmoved \/ \E k \in Keys : Contract!Appears(k) \/ Contract!Removes(k)
<1>1. TypeOK
  BY DEF LifecycleInv
<1>2. UNCHANGED <<family, method, target, stored, reported>>
  BY DEF Elsewhere, callVars
<1>3. keptKey' = keptKey /\ pendingKey' = pendingKey
  BY <1>2 DEF keptKey, pendingKey, Managed
<1>4. PICK k \in Keys :
        \/ /\ server[k] # Absent
           /\ \E given \in [Fields -> Values] :
                 server' = [server EXCEPT ![k].fields = given]
           /\ UNCHANGED <<used, made, dropped>>
        \/ /\ server[k] # Absent
           /\ server' = [server EXCEPT ![k] = Absent]
           /\ made' = made \ {k}
           /\ dropped' = dropped \ {k}
           /\ UNCHANGED used
        \/ /\ server[k] = Absent /\ (family.key = "assigned" => k \notin used)
           /\ family.key = "singleton" => k \in used
           /\ \E given \in [Fields -> Values] :
                 server' = [server EXCEPT ![k] =
                              [fields |-> given, secret |-> NoSecret]]
           /\ used' = used \union {k}
           /\ UNCHANGED <<made, dropped>>
  BY DEF Elsewhere
<1>5. CASE /\ server[k] # Absent
           /\ \E given \in [Fields -> Values] :
                 server' = [server EXCEPT ![k].fields = given]
           /\ UNCHANGED <<used, made, dropped>>
  <2>1. PICK given \in [Fields -> Values] : server' = [server EXCEPT ![k].fields = given]
    BY <1>5
  <2> DEFINE o == [server[k] EXCEPT !.fields = given]
  <2>2. server[k] \in Object
    BY <1>1, <1>5 DEF TypeOK
  <2>3. o \in Object /\ server' = [server EXCEPT ![k] = o]
    BY <2>1, <2>2 DEF Object
  <2> HIDE DEF o
  <2>4. presentKeys' = presentKeys \union {k} /\ k \in presentKeys
    BY <1>1, <1>5, <2>3, PresentKeysMove, AbsentAssumption DEF presentKeys
  <2> QED
    BY <1>2, <1>3, <1>5, <2>4 DEF Unmoved
<1>6. CASE /\ server[k] # Absent
           /\ server' = [server EXCEPT ![k] = Absent]
           /\ made' = made \ {k}
           /\ dropped' = dropped \ {k}
           /\ UNCHANGED used
  <2>1. presentKeys' = presentKeys \ {k}
    BY <1>1, <1>6, PresentKeysMove
  <2> QED
    BY <1>2, <1>3, <1>6, <2>1 DEF Contract!Removes
<1>7. CASE /\ server[k] = Absent /\ (family.key = "assigned" => k \notin used)
           /\ family.key = "singleton" => k \in used
           /\ \E given \in [Fields -> Values] :
                 server' = [server EXCEPT ![k] =
                              [fields |-> given, secret |-> NoSecret]]
           /\ used' = used \union {k}
           /\ UNCHANGED <<made, dropped>>
  <2>1. PICK given \in [Fields -> Values] :
           server' = [server EXCEPT ![k] = [fields |-> given, secret |-> NoSecret]]
    BY <1>7
  <2> DEFINE o == [fields |-> given, secret |-> NoSecret]
  <2>2. o \in Object
    BY DEF Object, Secrets
  <2> HIDE DEF o
  <2>3. server' = [server EXCEPT ![k] = o]
    BY <2>1 DEF o
  <2>4. presentKeys' = presentKeys \union {k}
    BY <1>1, <2>2, <2>3, PresentKeysMove, AbsentAssumption
  <2> QED
    BY <1>2, <1>3, <1>7, <2>4 DEF Contract!Appears
<1> QED
  BY <1>4, <1>5, <1>6, <1>7

LEMMA StateContractSimulation ==
  LifecycleInv /\ [Next]_vars => [Contract!Next]_(Contract!contractVars)
<1> SUFFICES ASSUME LifecycleInv, [Next]_vars
             PROVE  [Contract!Next]_(Contract!contractVars)
  OBVIOUS
<1>1. Unmoved => UNCHANGED Contract!contractVars
  BY DEF Unmoved, Contract!contractVars
<1>2. ASSUME NEW r \in Resources, Method(r)
      PROVE  [Contract!Next]_(Contract!contractVars)
  <2>1. CASE CreateStart(r) \/ ReadStart(r) \/ ImportStart(r) \/ UpdateStart(r)
             \/ DeleteStart(r)
    BY <1>1, <2>1, StartSimulates DEF Contract!Next
  <2>2. CASE ReadsBack(r) \/ FollowsUp(r) \/ AsksDetails(r)
    BY <1>1, <2>2, CallSimulates
  <2>3. CASE WriteEnds(r)
    BY <2>3, WriteEndSimulates DEF Contract!Next
  <2>4. CASE ReadEnds(r)
    BY <2>4, ReadEndSimulates DEF Contract!Next
  <2>5. CASE WriteFails(r) \/ ReadFails(r) \/ DeleteFails(r)
    BY <2>5, FailureSimulates DEF Contract!Next
  <2>6. CASE ReadRemoves(r) \/ DeleteEnds(r)
    BY <2>6, LeavingSimulates DEF Contract!Next
  <2> QED
    BY <1>2, <2>1, <2>2, <2>3, <2>4, <2>5, <2>6 DEF Method
<1>3. ASSUME NEW r \in Resources, Service(r)
      PROVE  [Contract!Next]_(Contract!contractVars)
  <2>1. CASE ServiceWrites(r)
    BY <1>1, <2>1, WriteSimulates DEF Contract!Next
  <2>2. CASE ServiceMisses(r) \/ ServiceReads(r) \/ ServiceDetails(r) \/ AnswerLost(r)
             \/ TokenMisses(r)
    BY <1>1, <2>2, CallSimulates
  <2>3. CASE CutOff(r)
    BY <2>3, FailureSimulates DEF Contract!Next
  <2>4. CASE LateActs(r)
    BY <1>1, <2>4, LateSimulates DEF Contract!Next
  <2> QED
    BY <1>3, <2>1, <2>2, <2>3, <2>4 DEF Service
<1>4. CASE Elsewhere
  BY <1>1, <1>4, ElsewhereSimulates DEF Contract!Next
<1>5. CASE UNCHANGED vars
  <2>1. Unmoved
    BY <1>5 DEF vars, serverVars, callVars, historyVars, Unmoved, presentKeys, keptKey,
            pendingKey, Managed
  <2> QED
    BY <1>1, <2>1
<1> QED
  BY <1>2, <1>3, <1>4, <1>5 DEF Next

\* The CRUD methods of every resource behave towards Terraform as StateContract
\* says, Drops for a 404 of the token endpoint: whatever the answers, however
\* methods end and whoever else is there.
THEOREM LifecycleImplementsStateContract == Spec => ImplementsStateContract
  BY StateContractInitial, StateContractSimulation, LifecycleInvHolds, PTL
     DEF Spec, ImplementsStateContract, Contract!Spec
=============================================================================
