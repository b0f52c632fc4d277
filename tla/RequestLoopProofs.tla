-------------------------- MODULE RequestLoopProofs --------------------------
(***************************************************************************)
(* Theorems about RequestLoop, for any calls, any MaxRetries and both      *)
(* values of ReadOnly: IndInv is inductive, the safety properties follow   *)
(* from it, and the request path implements CallContract.                  *)
(***************************************************************************)
EXTENDS RequestLoop, FiniteSetTheorems, TLAPS

\* Before any call is made nothing is held, cached, sent or promised.
LEMMA InitIndInv == Init => IndInv
  <1> SUFFICES ASSUME Init PROVE IndInv
    OBVIOUS
  <1> USE DEF Init
  <1>1. TypeOK
    BY DEF TypeOK, PC, Result, Answer
  <1>2. LockInv
    BY CallsAssumption DEF LockInv
  <1>3. BudgetInv
    BY ConfigAssumption DEF BudgetInv, Started, Answered
  <1>4. EffectInv
    BY DEF EffectInv, Answer
  <1>5. RefusalInv
    BY DEF RefusalInv
  <1>6. TokenOrderInv
    BY DEF TokenOrderInv
  <1>7. SingleFlightInv
    BY DEF SingleFlightInv
  <1>8. TokensAccounted
    BY FS_EmptySet DEF TokensAccounted, Usable
  <1> QED
    BY <1>1, <1>2, <1>3, <1>4, <1>5, <1>6, <1>7, <1>8 DEF IndInv

\* Every action assigns values of the declared types.
LEMMA TypeStep == TypeOK /\ [Next]_vars => TypeOK'
  <1> SUFFICES ASSUME TypeOK, [Next]_vars PROVE TypeOK'
    OBVIOUS
  <1> USE DEF TypeOK, PC, Result, Answer, callVars, tokenVars, history,
              Return, Goto
  <1>1. ASSUME NEW c \in Calls, Refuse(c) PROVE TypeOK'
    BY <1>1 DEF Refuse
  <1>2. ASSUME NEW c \in Calls, Begin(c) PROVE TypeOK'
    BY <1>2 DEF Begin
  <1>3. ASSUME NEW c \in Calls, BuildFails(c) PROVE TypeOK'
    BY <1>3 DEF BuildFails
  <1>4. ASSUME NEW c \in Calls, ReuseToken(c) PROVE TypeOK'
    BY <1>4 DEF ReuseToken
  <1>5. ASSUME NEW c \in Calls, RequestToken(c) PROVE TypeOK'
    BY <1>5 DEF RequestToken
  <1>6. ASSUME NEW c \in Calls, TokenGranted(c) PROVE TypeOK'
    <2>1. issued' \in Nat /\ accessToken' \in Nat
      BY <1>6 DEF TokenGranted
    <2>4. live' \in SUBSET Nat
      <3>1. live' = live \union {issued + 1}
        BY <1>6 DEF TokenGranted
      <3>2. issued + 1 \in Nat /\ live \in SUBSET Nat
        OBVIOUS
      <3> QED
        BY <3>1, <3>2
    <2>2. tokenExpiry' \in {"ahead", "past"}
      BY <1>6, Zenon DEF TokenGranted
    <2>5. aged' \in Nat
      <3>1. aged' = aged \/ aged' = aged + 1
        BY <1>6, Zenon DEF TokenGranted
      <3> QED
        BY <3>1
    <2>3. bearer' \in [Calls -> Nat] /\ pc' \in [Calls -> PC]
      BY <1>6 DEF TokenGranted
    <2> QED
      BY <1>6, <2>1, <2>2, <2>3, <2>4, <2>5 DEF TokenGranted
  <1>7. ASSUME NEW c \in Calls, TokenFails(c) PROVE TypeOK'
    BY <1>7 DEF TokenFails, HandleError
  <1>8. ASSUME NEW c \in Calls, Send(c) PROVE TypeOK'
    BY <1>8 DEF Send
  <1>9. ASSUME NEW c \in Calls, SendFails(c) PROVE TypeOK'
    BY <1>9 DEF SendFails
  <1>10. ASSUME NEW c \in Calls, ReceiveSuccess(c) PROVE TypeOK'
    BY <1>10 DEF ReceiveSuccess
  <1>11. ASSUME NEW c \in Calls, ReceiveError(c) PROVE TypeOK'
    <2>1. net' \in [Calls -> Answer \union {"none", "request"}]
      BY <1>11 DEF ReceiveError
    <2>2. rejected' \in [Calls -> Nat]
      BY <1>11 DEF ReceiveError
    <2>3. /\ pc' \in [Calls -> PC]
          /\ result' \in [Calls -> Result]
          /\ bearer' \in [Calls -> Nat]
      BY <1>11 DEF ReceiveError, HandleError
    <2>4. UNCHANGED <<attempt, tokenMu, accessToken, tokenExpiry, live, issued,
                      aged, cleared, asked, sent, applied>>
      BY <1>11 DEF ReceiveError
    <2> QED
      BY <2>1, <2>2, <2>3, <2>4
  <1>12. ASSUME NEW c \in Calls, AnswerLost(c) PROVE TypeOK'
    BY <1>12 DEF AnswerLost
  <1>13. ASSUME NEW c \in Calls, ClearToken(c) PROVE TypeOK'
    BY <1>13 DEF ClearToken
  <1>14. ASSUME NEW c \in Calls, RetryAttempt(c) PROVE TypeOK'
    BY <1>14 DEF RetryAttempt
  <1>15. ASSUME NEW c \in Calls, CancelBackoff(c) PROVE TypeOK'
    BY <1>15 DEF CancelBackoff
  <1>16. ASSUME NEW c \in Calls, ServiceAnswers(c) PROVE TypeOK'
    <2>1. net' \in [Calls -> Answer \union {"none", "request"}]
      BY <1>16 DEF ServiceAnswers
    <2>2. applied' \in [Calls -> Nat]
      BY <1>16 DEF ServiceAnswers
    <2>3. UNCHANGED <<pc, attempt, bearer, rejected, result, tokenMu,
                      accessToken, tokenExpiry, live, issued, aged, cleared, asked,
                      sent>>
      BY <1>16 DEF ServiceAnswers
    <2> QED
      BY <2>1, <2>2, <2>3
  <1>17. ASSUME NEW c \in Calls, ServiceActsLate(c) PROVE TypeOK'
    BY <1>17 DEF ServiceActsLate
  <1>18. CASE TokenAges
    BY <1>18 DEF TokenAges
  <1>19. CASE ServiceRevokes
    BY <1>19 DEF ServiceRevokes
  <1>20. CASE UNCHANGED vars
    BY <1>20 DEF vars
  <1> QED
    BY <1>1, <1>2, <1>3, <1>4, <1>5, <1>6, <1>7, <1>8, <1>9, <1>10, <1>11,
       <1>12, <1>13, <1>14, <1>15, <1>16, <1>17, <1>18, <1>19, <1>20
       DEF Next, CallStep

\* RequestToken takes tokenMu and each of its exits gives it back.
LEMMA LockStep == TypeOK /\ LockInv /\ [Next]_vars => LockInv'
  <1> SUFFICES ASSUME TypeOK, LockInv, [Next]_vars
               PROVE  LockInv'
    OBVIOUS
  <1> USE CallsAssumption DEF TypeOK, LockInv, PC, Return, Goto, callVars,
           tokenVars, history
  <1>1. ASSUME NEW c \in Calls, Refuse(c) PROVE LockInv'
    BY <1>1 DEF Refuse
  <1>2. ASSUME NEW c \in Calls, Begin(c) PROVE LockInv'
    BY <1>2 DEF Begin
  <1>3. ASSUME NEW c \in Calls, BuildFails(c) PROVE LockInv'
    BY <1>3 DEF BuildFails
  <1>4. ASSUME NEW c \in Calls, ReuseToken(c) PROVE LockInv'
    BY <1>4 DEF ReuseToken
  <1>5. ASSUME NEW c \in Calls, RequestToken(c) PROVE LockInv'
    BY <1>5 DEF RequestToken
  <1>6. ASSUME NEW c \in Calls, TokenGranted(c) PROVE LockInv'
    BY <1>6 DEF TokenGranted
  <1>7. ASSUME NEW c \in Calls, TokenFails(c) PROVE LockInv'
    BY <1>7 DEF TokenFails, HandleError, RefreshesOn, RetriesOn, SafeRead
  <1>8. ASSUME NEW c \in Calls, Send(c) PROVE LockInv'
    BY <1>8 DEF Send
  <1>9. ASSUME NEW c \in Calls, SendFails(c) PROVE LockInv'
    BY <1>9 DEF SendFails
  <1>10. ASSUME NEW c \in Calls, ReceiveSuccess(c) PROVE LockInv'
    BY <1>10 DEF ReceiveSuccess
  <1>11. ASSUME NEW c \in Calls, ReceiveError(c) PROVE LockInv'
    BY <1>11 DEF ReceiveError, HandleError, RefreshesOn, RetriesOn, SafeRead
  <1>12. ASSUME NEW c \in Calls, AnswerLost(c) PROVE LockInv'
    BY <1>12 DEF AnswerLost
  <1>13. ASSUME NEW c \in Calls, ClearToken(c) PROVE LockInv'
    BY <1>13 DEF ClearToken
  <1>14. ASSUME NEW c \in Calls, RetryAttempt(c) PROVE LockInv'
    BY <1>14 DEF RetryAttempt
  <1>15. ASSUME NEW c \in Calls, CancelBackoff(c) PROVE LockInv'
    BY <1>15 DEF CancelBackoff
  <1>16. ASSUME NEW c \in Calls, ServiceAnswers(c) PROVE LockInv'
    BY <1>16 DEF ServiceAnswers
  <1>17. ASSUME NEW c \in Calls, ServiceActsLate(c) PROVE LockInv'
    BY <1>17 DEF ServiceActsLate
  <1>18. CASE TokenAges
    BY <1>18 DEF TokenAges
  <1>19. CASE ServiceRevokes
    BY <1>19 DEF ServiceRevokes
  <1>20. CASE UNCHANGED vars
    BY <1>20 DEF vars
  <1> QED
    BY <1>1, <1>2, <1>3, <1>4, <1>5, <1>6, <1>7, <1>8, <1>9, <1>10,
       <1>11, <1>12, <1>13, <1>14, <1>15, <1>16, <1>17, <1>18, <1>19,
       <1>20
       DEF Next, CallStep

\* Only the holder of tokenMu can make a token usable.
LEMMA SingleFlightStep ==
  TypeOK /\ LockInv /\ SingleFlightInv /\ [Next]_vars => SingleFlightInv'
  <1> SUFFICES ASSUME TypeOK, LockInv, SingleFlightInv, [Next]_vars
               PROVE  SingleFlightInv'
    OBVIOUS
  <1> USE CallsAssumption DEF TypeOK, LockInv, SingleFlightInv, Usable, PC,
           Return, Goto, callVars, tokenVars, history
  <1>1. ASSUME NEW c \in Calls, Refuse(c) PROVE SingleFlightInv'
    BY <1>1 DEF Refuse
  <1>2. ASSUME NEW c \in Calls, Begin(c) PROVE SingleFlightInv'
    BY <1>2 DEF Begin
  <1>3. ASSUME NEW c \in Calls, BuildFails(c) PROVE SingleFlightInv'
    BY <1>3 DEF BuildFails
  <1>4. ASSUME NEW c \in Calls, ReuseToken(c) PROVE SingleFlightInv'
    BY <1>4 DEF ReuseToken
  <1>5. ASSUME NEW c \in Calls, RequestToken(c) PROVE SingleFlightInv'
    BY <1>5 DEF RequestToken
  <1>6. ASSUME NEW c \in Calls, TokenGranted(c) PROVE SingleFlightInv'
    BY <1>6 DEF TokenGranted
  <1>7. ASSUME NEW c \in Calls, TokenFails(c) PROVE SingleFlightInv'
    BY <1>7 DEF TokenFails, HandleError, RefreshesOn, RetriesOn, SafeRead
  <1>8. ASSUME NEW c \in Calls, Send(c) PROVE SingleFlightInv'
    BY <1>8 DEF Send
  <1>9. ASSUME NEW c \in Calls, SendFails(c) PROVE SingleFlightInv'
    BY <1>9 DEF SendFails
  <1>10. ASSUME NEW c \in Calls, ReceiveSuccess(c) PROVE SingleFlightInv'
    BY <1>10 DEF ReceiveSuccess
  <1>11. ASSUME NEW c \in Calls, ReceiveError(c) PROVE SingleFlightInv'
    BY <1>11 DEF ReceiveError, HandleError, RefreshesOn, RetriesOn, SafeRead
  <1>12. ASSUME NEW c \in Calls, AnswerLost(c) PROVE SingleFlightInv'
    BY <1>12 DEF AnswerLost
  <1>13. ASSUME NEW c \in Calls, ClearToken(c) PROVE SingleFlightInv'
    BY <1>13 DEF ClearToken
  <1>14. ASSUME NEW c \in Calls, RetryAttempt(c) PROVE SingleFlightInv'
    BY <1>14 DEF RetryAttempt
  <1>15. ASSUME NEW c \in Calls, CancelBackoff(c) PROVE SingleFlightInv'
    BY <1>15 DEF CancelBackoff
  <1>16. ASSUME NEW c \in Calls, ServiceAnswers(c) PROVE SingleFlightInv'
    BY <1>16 DEF ServiceAnswers
  <1>17. ASSUME NEW c \in Calls, ServiceActsLate(c) PROVE SingleFlightInv'
    BY <1>17 DEF ServiceActsLate
  <1>18. CASE TokenAges
    BY <1>18 DEF TokenAges
  <1>19. CASE ServiceRevokes
    BY <1>19 DEF ServiceRevokes
  <1>20. CASE UNCHANGED vars
    BY <1>20 DEF vars
  <1> QED
    BY <1>1, <1>2, <1>3, <1>4, <1>5, <1>6, <1>7, <1>8, <1>9, <1>10,
       <1>11, <1>12, <1>13, <1>14, <1>15, <1>16, <1>17, <1>18, <1>19,
       <1>20
       DEF Next, CallStep

\* A request is made once per round of do(), and a round is only begun by
\* adding one to attempt below the bound.
LEMMA BudgetStep == TypeOK /\ BudgetInv /\ [Next]_vars => BudgetInv'
  <1> SUFFICES ASSUME TypeOK, BudgetInv, [Next]_vars
               PROVE  BudgetInv'
    OBVIOUS
  <1> USE CallsAssumption, ConfigAssumption DEF TypeOK, BudgetInv, PC,
           Started, Answered, Return, Goto, callVars, tokenVars, history
  <1>1. ASSUME NEW c \in Calls, Refuse(c) PROVE BudgetInv'
    BY <1>1 DEF Refuse
  <1>2. ASSUME NEW c \in Calls, Begin(c) PROVE BudgetInv'
    BY <1>2 DEF Begin
  <1>3. ASSUME NEW c \in Calls, BuildFails(c) PROVE BudgetInv'
    BY <1>3 DEF BuildFails
  <1>4. ASSUME NEW c \in Calls, ReuseToken(c) PROVE BudgetInv'
    BY <1>4 DEF ReuseToken
  <1>5. ASSUME NEW c \in Calls, RequestToken(c) PROVE BudgetInv'
    BY <1>5 DEF RequestToken
  <1>6. ASSUME NEW c \in Calls, TokenGranted(c) PROVE BudgetInv'
    BY <1>6 DEF TokenGranted
  <1>7. ASSUME NEW c \in Calls, TokenFails(c) PROVE BudgetInv'
    BY <1>7 DEF TokenFails, HandleError, RefreshesOn, RetriesOn, SafeRead
  <1>8. ASSUME NEW c \in Calls, Send(c) PROVE BudgetInv'
    BY <1>8 DEF Send
  <1>9. ASSUME NEW c \in Calls, SendFails(c) PROVE BudgetInv'
    BY <1>9 DEF SendFails
  <1>10. ASSUME NEW c \in Calls, ReceiveSuccess(c) PROVE BudgetInv'
    BY <1>10 DEF ReceiveSuccess
  <1>11. ASSUME NEW c \in Calls, ReceiveError(c) PROVE BudgetInv'
    BY <1>11 DEF ReceiveError, HandleError, RefreshesOn, RetriesOn, SafeRead
  <1>12. ASSUME NEW c \in Calls, AnswerLost(c) PROVE BudgetInv'
    BY <1>12 DEF AnswerLost
  <1>13. ASSUME NEW c \in Calls, ClearToken(c) PROVE BudgetInv'
    BY <1>13 DEF ClearToken
  <1>14. ASSUME NEW c \in Calls, RetryAttempt(c) PROVE BudgetInv'
    BY <1>14 DEF RetryAttempt
  <1>15. ASSUME NEW c \in Calls, CancelBackoff(c) PROVE BudgetInv'
    BY <1>15 DEF CancelBackoff
  <1>16. ASSUME NEW c \in Calls, ServiceAnswers(c) PROVE BudgetInv'
    BY <1>16 DEF ServiceAnswers
  <1>17. ASSUME NEW c \in Calls, ServiceActsLate(c) PROVE BudgetInv'
    BY <1>17 DEF ServiceActsLate
  <1>18. CASE TokenAges
    BY <1>18 DEF TokenAges
  <1>19. CASE ServiceRevokes
    BY <1>19 DEF ServiceRevokes
  <1>20. CASE UNCHANGED vars
    BY <1>20 DEF vars
  <1> QED
    BY <1>1, <1>2, <1>3, <1>4, <1>5, <1>6, <1>7, <1>8, <1>9, <1>10,
       <1>11, <1>12, <1>13, <1>14, <1>15, <1>16, <1>17, <1>18, <1>19,
       <1>20
       DEF Next, CallStep

\* A write has one request, and the service acts once on what is on its way.
LEMMA EffectStep ==
  TypeOK /\ BudgetInv /\ EffectInv /\ [Next]_vars => EffectInv'
  <1> SUFFICES ASSUME TypeOK, BudgetInv, EffectInv, [Next]_vars
               PROVE  EffectInv'
    OBVIOUS
  <1> USE CallsAssumption DEF TypeOK, BudgetInv, EffectInv, PC, Answer,
           Answered, Return, Goto, callVars, tokenVars, history
  <1>1. ASSUME NEW c \in Calls, Refuse(c) PROVE EffectInv'
    BY <1>1 DEF Refuse
  <1>2. ASSUME NEW c \in Calls, Begin(c) PROVE EffectInv'
    BY <1>2 DEF Begin
  <1>3. ASSUME NEW c \in Calls, BuildFails(c) PROVE EffectInv'
    BY <1>3 DEF BuildFails
  <1>4. ASSUME NEW c \in Calls, ReuseToken(c) PROVE EffectInv'
    BY <1>4 DEF ReuseToken
  <1>5. ASSUME NEW c \in Calls, RequestToken(c) PROVE EffectInv'
    BY <1>5 DEF RequestToken
  <1>6. ASSUME NEW c \in Calls, TokenGranted(c) PROVE EffectInv'
    BY <1>6 DEF TokenGranted
  <1>7. ASSUME NEW c \in Calls, TokenFails(c) PROVE EffectInv'
    BY <1>7 DEF TokenFails, HandleError, RefreshesOn, RetriesOn, SafeRead
  <1>8. ASSUME NEW c \in Calls, Send(c) PROVE EffectInv'
    BY <1>8 DEF Send
  <1>9. ASSUME NEW c \in Calls, SendFails(c) PROVE EffectInv'
    BY <1>9 DEF SendFails
  <1>10. ASSUME NEW c \in Calls, ReceiveSuccess(c) PROVE EffectInv'
    BY <1>10 DEF ReceiveSuccess
  <1>11. ASSUME NEW c \in Calls, ReceiveError(c) PROVE EffectInv'
    BY <1>11 DEF ReceiveError, HandleError, RefreshesOn, RetriesOn, SafeRead
  <1>12. ASSUME NEW c \in Calls, AnswerLost(c) PROVE EffectInv'
    BY <1>12 DEF AnswerLost
  <1>13. ASSUME NEW c \in Calls, ClearToken(c) PROVE EffectInv'
    BY <1>13 DEF ClearToken
  <1>14. ASSUME NEW c \in Calls, RetryAttempt(c) PROVE EffectInv'
    BY <1>14 DEF RetryAttempt
  <1>15. ASSUME NEW c \in Calls, CancelBackoff(c) PROVE EffectInv'
    BY <1>15 DEF CancelBackoff
  <1>16. ASSUME NEW c \in Calls, ServiceAnswers(c) PROVE EffectInv'
    BY <1>16 DEF ServiceAnswers
  <1>17. ASSUME NEW c \in Calls, ServiceActsLate(c) PROVE EffectInv'
    BY <1>17 DEF ServiceActsLate
  <1>18. CASE TokenAges
    BY <1>18 DEF TokenAges
  <1>19. CASE ServiceRevokes
    BY <1>19 DEF ServiceRevokes
  <1>20. CASE UNCHANGED vars
    BY <1>20 DEF vars
  <1> QED
    BY <1>1, <1>2, <1>3, <1>4, <1>5, <1>6, <1>7, <1>8, <1>9, <1>10,
       <1>11, <1>12, <1>13, <1>14, <1>15, <1>16, <1>17, <1>18, <1>19,
       <1>20
       DEF Next, CallStep

\* A call that must be refused takes no step but Refuse.
LEMMA RefusalStep ==
  TypeOK /\ EffectInv /\ RefusalInv /\ [Next]_vars => RefusalInv'
  <1> SUFFICES ASSUME TypeOK, EffectInv, RefusalInv, [Next]_vars
               PROVE  RefusalInv'
    OBVIOUS
  <1> USE DEF TypeOK, RefusalInv, EffectInv, Refusable, PC, Return, Goto,
           callVars, tokenVars, history
  <1>1. ASSUME NEW c \in Calls, Refuse(c) PROVE RefusalInv'
    BY <1>1 DEF Refuse
  <1>2. ASSUME NEW c \in Calls, Begin(c) PROVE RefusalInv'
    BY <1>2 DEF Begin
  <1>3. ASSUME NEW c \in Calls, BuildFails(c) PROVE RefusalInv'
    BY <1>3 DEF BuildFails
  <1>4. ASSUME NEW c \in Calls, ReuseToken(c) PROVE RefusalInv'
    BY <1>4 DEF ReuseToken
  <1>5. ASSUME NEW c \in Calls, RequestToken(c) PROVE RefusalInv'
    BY <1>5 DEF RequestToken
  <1>6. ASSUME NEW c \in Calls, TokenGranted(c) PROVE RefusalInv'
    BY <1>6 DEF TokenGranted
  <1>7. ASSUME NEW c \in Calls, TokenFails(c) PROVE RefusalInv'
    BY <1>7 DEF TokenFails, HandleError, RefreshesOn, RetriesOn, SafeRead
  <1>8. ASSUME NEW c \in Calls, Send(c) PROVE RefusalInv'
    BY <1>8 DEF Send
  <1>9. ASSUME NEW c \in Calls, SendFails(c) PROVE RefusalInv'
    BY <1>9 DEF SendFails
  <1>10. ASSUME NEW c \in Calls, ReceiveSuccess(c) PROVE RefusalInv'
    BY <1>10 DEF ReceiveSuccess
  <1>11. ASSUME NEW c \in Calls, ReceiveError(c) PROVE RefusalInv'
    BY <1>11 DEF ReceiveError, HandleError, RefreshesOn, RetriesOn, SafeRead
  <1>12. ASSUME NEW c \in Calls, AnswerLost(c) PROVE RefusalInv'
    BY <1>12 DEF AnswerLost
  <1>13. ASSUME NEW c \in Calls, ClearToken(c) PROVE RefusalInv'
    BY <1>13 DEF ClearToken
  <1>14. ASSUME NEW c \in Calls, RetryAttempt(c) PROVE RefusalInv'
    BY <1>14 DEF RetryAttempt
  <1>15. ASSUME NEW c \in Calls, CancelBackoff(c) PROVE RefusalInv'
    BY <1>15 DEF CancelBackoff
  <1>16. ASSUME NEW c \in Calls, ServiceAnswers(c) PROVE RefusalInv'
    BY <1>16 DEF ServiceAnswers
  <1>17. ASSUME NEW c \in Calls, ServiceActsLate(c) PROVE RefusalInv'
    BY <1>17 DEF ServiceActsLate
  <1>18. CASE TokenAges
    BY <1>18 DEF TokenAges
  <1>19. CASE ServiceRevokes
    BY <1>19 DEF ServiceRevokes
  <1>20. CASE UNCHANGED vars
    BY <1>20 DEF vars
  <1> QED
    BY <1>1, <1>2, <1>3, <1>4, <1>5, <1>6, <1>7, <1>8, <1>9, <1>10,
       <1>11, <1>12, <1>13, <1>14, <1>15, <1>16, <1>17, <1>18, <1>19,
       <1>20
       DEF Next, CallStep

\* Tokens are numbered as they are granted, and a cleared one never returns.
LEMMA TokenOrderStep ==
  TypeOK /\ BudgetInv /\ TokenOrderInv /\ [Next]_vars => TokenOrderInv'
  <1> SUFFICES ASSUME TypeOK, BudgetInv, TokenOrderInv, [Next]_vars
               PROVE  TokenOrderInv'
    OBVIOUS
  <1> USE DEF TypeOK, TokenOrderInv, BudgetInv, PC, Return, Goto, callVars,
           tokenVars, history
  <1>1. ASSUME NEW c \in Calls, Refuse(c) PROVE TokenOrderInv'
    BY <1>1 DEF Refuse
  <1>2. ASSUME NEW c \in Calls, Begin(c) PROVE TokenOrderInv'
    BY <1>2 DEF Begin
  <1>3. ASSUME NEW c \in Calls, BuildFails(c) PROVE TokenOrderInv'
    BY <1>3 DEF BuildFails
  <1>4. ASSUME NEW c \in Calls, ReuseToken(c) PROVE TokenOrderInv'
    BY <1>4 DEF ReuseToken, Usable
  <1>5. ASSUME NEW c \in Calls, RequestToken(c) PROVE TokenOrderInv'
    BY <1>5 DEF RequestToken
  <1>6. ASSUME NEW c \in Calls, TokenGranted(c) PROVE TokenOrderInv'
    BY <1>6 DEF TokenGranted
  <1>7. ASSUME NEW c \in Calls, TokenFails(c) PROVE TokenOrderInv'
    BY <1>7 DEF TokenFails, HandleError, RefreshesOn, RetriesOn, SafeRead
  <1>8. ASSUME NEW c \in Calls, Send(c) PROVE TokenOrderInv'
    BY <1>8 DEF Send
  <1>9. ASSUME NEW c \in Calls, SendFails(c) PROVE TokenOrderInv'
    BY <1>9 DEF SendFails
  <1>10. ASSUME NEW c \in Calls, ReceiveSuccess(c) PROVE TokenOrderInv'
    BY <1>10 DEF ReceiveSuccess
  <1>11. ASSUME NEW c \in Calls, ReceiveError(c) PROVE TokenOrderInv'
    BY <1>11 DEF ReceiveError, HandleError, RefreshesOn, RetriesOn, SafeRead
  <1>12. ASSUME NEW c \in Calls, AnswerLost(c) PROVE TokenOrderInv'
    BY <1>12 DEF AnswerLost
  <1>13. ASSUME NEW c \in Calls, ClearToken(c) PROVE TokenOrderInv'
    BY <1>13 DEF ClearToken
  <1>14. ASSUME NEW c \in Calls, RetryAttempt(c) PROVE TokenOrderInv'
    BY <1>14 DEF RetryAttempt
  <1>15. ASSUME NEW c \in Calls, CancelBackoff(c) PROVE TokenOrderInv'
    BY <1>15 DEF CancelBackoff
  <1>16. ASSUME NEW c \in Calls, ServiceAnswers(c) PROVE TokenOrderInv'
    BY <1>16 DEF ServiceAnswers
  <1>17. ASSUME NEW c \in Calls, ServiceActsLate(c) PROVE TokenOrderInv'
    BY <1>17 DEF ServiceActsLate
  <1>18. CASE TokenAges
    BY <1>18 DEF TokenAges
  <1>19. CASE ServiceRevokes
    BY <1>19 DEF ServiceRevokes
  <1>20. CASE UNCHANGED vars
    BY <1>20 DEF vars
  <1> QED
    BY <1>1, <1>2, <1>3, <1>4, <1>5, <1>6, <1>7, <1>8, <1>9, <1>10,
       <1>11, <1>12, <1>13, <1>14, <1>15, <1>16, <1>17, <1>18, <1>19,
       <1>20
       DEF Next, CallStep

\* The calls that cleared the token can be counted.
LEMMA ClearedFinite ==
  ASSUME TypeOK
  PROVE  IsFiniteSet(cleared) /\ Cardinality(cleared) \in Nat
  BY CallsAssumption, FS_Subset, FS_CardinalityType DEF TypeOK

\* A grant adds a token and makes a usable one where there was none; ageing
\* and clearing take the usable one away and are counted.
LEMMA TokensAccountedStep ==
  TypeOK /\ SingleFlightInv /\ BudgetInv /\ TokensAccounted /\ [Next]_vars
    => TokensAccounted'
  <1> SUFFICES ASSUME TypeOK, SingleFlightInv, BudgetInv, TokensAccounted,
                      [Next]_vars
               PROVE  TokensAccounted'
    OBVIOUS
  <1> DEFINE n == Cardinality(cleared)
  <1>type. /\ n \in Nat /\ IsFiniteSet(cleared)
           /\ issued \in Nat /\ aged \in Nat
    BY ClearedFinite DEF TypeOK
  <1>1. CASE UNCHANGED <<issued, aged, cleared, accessToken, tokenExpiry>>
    BY <1>1 DEF TokensAccounted, Usable
  <1>2. ASSUME NEW c \in Calls, TokenGranted(c) PROVE TokensAccounted'
    <2>1. issued <= aged + n
      BY <1>2, <1>type DEF TokenGranted, SingleFlightInv, TokensAccounted
    <2>2. issued' = issued + 1 /\ n' = n /\ accessToken' = issued + 1
      BY <1>2 DEF TokenGranted, history
    <2>3. \/ tokenExpiry' = "ahead" /\ aged' = aged
          \/ aged' = aged + 1
      BY <1>2 DEF TokenGranted
    <2> QED
      BY <2>1, <2>2, <2>3, <1>type DEF TokensAccounted, Usable
  <1>3. ASSUME NEW c \in Calls, ClearToken(c) PROVE TokensAccounted'
    <2>1. c \notin cleared
      BY <1>3 DEF ClearToken, BudgetInv, TypeOK
    <2>2. n' = n + 1
      BY <2>1, <1>3, <1>type, FS_AddElement DEF ClearToken
    <2>3. issued' = issued /\ aged' = aged
      BY <1>3 DEF ClearToken
    <2> QED
      BY <2>2, <2>3, <1>type DEF TokensAccounted
  <1>4. CASE TokenAges
    BY <1>4, <1>type DEF TokenAges, TokensAccounted, Usable, history
  <1> USE DEF callVars, tokenVars, history
  <1>5. ASSUME NEW c \in Calls,
               \/ Refuse(c) \/ Begin(c) \/ BuildFails(c) \/ ReuseToken(c)
               \/ RequestToken(c) \/ TokenFails(c) \/ Send(c) \/ SendFails(c)
               \/ ReceiveSuccess(c) \/ ReceiveError(c) \/ AnswerLost(c)
               \/ RetryAttempt(c) \/ CancelBackoff(c) \/ ServiceAnswers(c)
               \/ ServiceActsLate(c)
        PROVE  UNCHANGED <<issued, aged, cleared, accessToken, tokenExpiry>>
    BY <1>5 DEF Refuse, Begin, BuildFails, ReuseToken, RequestToken,
                TokenFails, Send, SendFails, ReceiveSuccess, ReceiveError,
                AnswerLost, RetryAttempt, CancelBackoff, ServiceAnswers,
                ServiceActsLate
  <1>6. CASE ServiceRevokes
    BY <1>6, <1>1 DEF ServiceRevokes
  <1>7. CASE UNCHANGED vars
    BY <1>7, <1>1 DEF vars
  <1> QED
    BY <1>1, <1>2, <1>3, <1>4, <1>5, <1>6, <1>7 DEF Next, CallStep

(***************************************************************************)
(* IndInv is inductive.                                                    *)
(***************************************************************************)
LEMMA IndStep == IndInv /\ [Next]_vars => IndInv'
  BY TypeStep, LockStep, SingleFlightStep, BudgetStep, EffectStep, RefusalStep,
     TokenOrderStep, TokensAccountedStep
     DEF IndInv

\* Every reachable state satisfies the inductive invariant of do(),
\* bearerToken and clearToken.
THEOREM IndInvHolds == Spec => []IndInv
  BY InitIndInv, IndStep, PTL DEF Spec

\* The variables keep their types for any set of calls and any MaxRetries.
THEOREM TypeCorrect == Spec => []TypeOK
  <1>1. IndInv => TypeOK
    BY DEF IndInv
  <1> QED
    BY <1>1, IndInvHolds, PTL

\* A write is sent and takes effect at most once, and a reported success took
\* effect: do() never repeats a call that is not a safe read.
THEOREM WritesAppliedOnce == Spec => []WriteAppliedOnce
  <1>1. IndInv => WriteAppliedOnce
    BY DEF IndInv, WriteAppliedOnce, BudgetInv, EffectInv, TypeOK, Answered,
           Calls, Answer
  <1> QED
    BY <1>1, IndInvHolds, PTL

\* Read-only writes and POSTs off the allowlist never get as far as OAuth.
THEOREM RefusalBeforeOAuth == Spec => []RefusedBeforeOAuth
  <1>1. IndInv => RefusedBeforeOAuth
    BY DEF IndInv, RefusedBeforeOAuth, RefusalInv, LockInv, Refusable, Calls
  <1> QED
    BY <1>1, IndInvHolds, PTL

\* No call spends more than its retry budget on API or token requests.
THEOREM AttemptsAreBounded == Spec => []AttemptsBounded
  <1>1. IndInv => AttemptsBounded
    BY ConfigAssumption
       DEF IndInv, AttemptsBounded, BudgetInv, TypeOK, Started, Answered
  <1> QED
    BY <1>1, IndInvHolds, PTL

\* The retry after a 401 carries a token newer than the refused one.
THEOREM RejectedTokenIsNotReused == Spec => []RejectedTokenNotReused
  <1>1. IndInv => RejectedTokenNotReused
    BY DEF IndInv, RejectedTokenNotReused, TokenOrderInv, TypeOK
  <1> QED
    BY <1>1, IndInvHolds, PTL

\* n concurrent calls do not fetch n tokens: each token after the first is
\* owed to an expiry or to a clearToken.
THEOREM TokensAreAccounted == Spec => []TokensAccounted
  <1>1. IndInv => TokensAccounted
    BY DEF IndInv
  <1> QED
    BY <1>1, IndInvHolds, PTL

(***************************************************************************)
(* The step simulation of CallContract.                                    *)
(***************************************************************************)
LEMMA ContractInitial == Init => Contract!ContractInit
  BY DEF Init, Contract!ContractInit, Contract!ContractCalls, callStatus, Calls

\* A step of call c that leaves the others alone is, to the callers, a change
\* of status[c] at most.
LEMMA StatusStep ==
  ASSUME TypeOK, NEW c \in Calls, NEW l, NEW r,
         pc' = [pc EXCEPT ![c] = l], result' = [result EXCEPT ![c] = r]
  PROVE  callStatus' =
           [callStatus EXCEPT ![c] =
              CASE l = "idle" -> "idle"
                [] l = "done" -> IF r = "unauthorized" THEN "failed" ELSE r
                [] OTHER -> "running"]
  BY DEF TypeOK, callStatus

\* Every step of a call is a step of CallContract, or none that its caller
\* could see.
LEMMA ContractSimulation ==
  IndInv /\ [Next]_vars => [Contract!ContractNext]_(Contract!contractVars)
  <1> SUFFICES ASSUME IndInv, [Next]_vars
               PROVE  [Contract!ContractNext]_(Contract!contractVars)
    OBVIOUS
  <1> DEFINE Stutter == callStatus' = callStatus /\ applied' = applied
             Becomes(c, s) == callStatus' = [callStatus EXCEPT ![c] = s]
  <1>inv. TypeOK /\ BudgetInv /\ EffectInv
    BY DEF IndInv
  <1>calls. Contract!ContractCalls = Calls
    BY DEF Contract!ContractCalls, Calls
  <1>stutter. Stutter => [Contract!ContractNext]_(Contract!contractVars)
    BY DEF Contract!contractVars
  <1>status. ASSUME NEW c \in Calls
             PROVE  /\ pc[c] = "idle" => callStatus[c] = "idle"
                    /\ pc[c] \notin {"idle", "done"} => callStatus[c] = "running"
                    /\ pc[c] = "done" /\ result[c] = "failed"
                         => callStatus[c] = "failed"
    BY DEF callStatus
  \* an internal step of do(): the caller sees nothing
  <1>1. ASSUME NEW c \in Calls, NEW l \in PC \ {"idle", "done"}, Goto(c, l),
               pc[c] \notin {"idle", "done"}, applied' = applied
        PROVE  [Contract!ContractNext]_(Contract!contractVars)
    <2>1. callStatus' = callStatus
      BY <1>1, <1>inv DEF callStatus, Goto, TypeOK
    <2> QED
      BY <2>1, <1>1, <1>stutter
  \* do() returns an error
  <1>2. ASSUME NEW c \in Calls, NEW r \in {"failed", "unauthorized"},
               Return(c, r), pc[c] \notin {"idle", "done"}, applied' = applied
        PROVE  [Contract!ContractNext]_(Contract!contractVars)
    <2>1. Becomes(c, "failed")
      BY <1>2, <1>inv, StatusStep DEF Return
    <2>2. Contract!ContractFail(c)
      BY <2>1, <1>2, <1>status DEF Contract!ContractFail
    <2> QED
      BY <2>2, <1>calls DEF Contract!ContractNext
  <1>3. ASSUME NEW c \in Calls, Refuse(c)
        PROVE  [Contract!ContractNext]_(Contract!contractVars)
    <2>1. Becomes(c, "refused")
      BY <1>3, <1>inv, StatusStep DEF Refuse, Return
    <2>2. Contract!ContractRefuse(c)
      BY <2>1, <1>3, <1>status
         DEF Contract!ContractRefuse, Contract!MustRefuse, Refuse
    <2> QED
      BY <2>2, <1>calls DEF Contract!ContractNext
  <1>4. ASSUME NEW c \in Calls, Begin(c)
        PROVE  [Contract!ContractNext]_(Contract!contractVars)
    <2>1. result' = [result EXCEPT ![c] = result[c]]
      BY <1>4, <1>inv DEF Begin, Goto, TypeOK
    <2>2. Becomes(c, "running")
      <3>1. pc' = [pc EXCEPT ![c] = "doOnce"]
        BY <1>4 DEF Begin, Goto
      <3>2. callStatus' =
              [callStatus EXCEPT ![c] =
                 CASE "doOnce" = "idle" -> "idle"
                   [] "doOnce" = "done" ->
                        IF result[c] = "unauthorized" THEN "failed"
                                                      ELSE result[c]
                   [] OTHER -> "running"]
        BY ONLY <3>1, <2>1, <1>inv, <1>4, StatusStep
      <3> QED
        BY <3>2
    <2>3. Contract!ContractBegin(c)
      BY <2>2, <1>4, <1>status
         DEF Contract!ContractBegin, Contract!MustRefuse, Begin
    <2> QED
      BY <2>3, <1>calls DEF Contract!ContractNext
  <1>5. ASSUME NEW c \in Calls, ReceiveSuccess(c)
        PROVE  [Contract!ContractNext]_(Contract!contractVars)
    <2>1. Becomes(c, "ok")
      BY <1>5, <1>inv, StatusStep DEF ReceiveSuccess, Return
    <2>2. applied[c] > 0
      BY <1>5, <1>inv DEF ReceiveSuccess, EffectInv
    <2>3. Contract!ContractSucceed(c)
      BY <2>1, <2>2, <1>5, <1>status
         DEF Contract!ContractSucceed, ReceiveSuccess
    <2> QED
      BY <2>3, <1>calls DEF Contract!ContractNext
  \* the service answers, or acts late
  <1>6. ASSUME NEW c \in Calls, net[c] = "request",
               \/ pc[c] = "wait"
               \/ pc[c] = "done" /\ result[c] = "failed",
               UNCHANGED <<pc, result>>,
               applied' = [applied EXCEPT ![c] = @ + 1]
        PROVE  [Contract!ContractNext]_(Contract!contractVars)
    <2>1. callStatus' = callStatus
      BY <1>6 DEF callStatus
    <2>2. c \in Writes => applied[c] = 0
      BY <1>6, <1>inv DEF EffectInv, BudgetInv, TypeOK, Answered
    <2>3. callStatus[c] \in {"running", "failed"}
      BY <1>6, <1>status
    <2>4. Contract!ContractApply(c)
      BY <2>1, <2>2, <2>3, <1>6 DEF Contract!ContractApply
    <2> QED
      BY <2>4, <1>calls DEF Contract!ContractNext
  <1>7. ASSUME UNCHANGED <<pc, result, applied>>
        PROVE  [Contract!ContractNext]_(Contract!contractVars)
    BY <1>7, <1>stutter DEF callStatus
  <1> USE DEF PC
  <1>10. ASSUME NEW c \in Calls, BuildFails(c) \/ SendFails(c) \/ AnswerLost(c)
                                 \/ CancelBackoff(c)
         PROVE  [Contract!ContractNext]_(Contract!contractVars)
    BY <1>10, <1>2 DEF BuildFails, SendFails, AnswerLost, CancelBackoff
  <1>11. ASSUME NEW c \in Calls, \/ ReuseToken(c) \/ RequestToken(c)
                                 \/ TokenGranted(c) \/ Send(c)
                                 \/ ClearToken(c) \/ RetryAttempt(c)
         PROVE  [Contract!ContractNext]_(Contract!contractVars)
    BY <1>11, <1>1 DEF ReuseToken, RequestToken, TokenGranted, Send,
                       ClearToken, RetryAttempt
  <1>12. ASSUME NEW c \in Calls, NEW err, HandleError(c, err),
                pc[c] \notin {"idle", "done"}, applied' = applied
         PROVE  [Contract!ContractNext]_(Contract!contractVars)
    <2>1. CASE Goto(c, "clear") \/ Goto(c, "backoff")
      BY <2>1, <1>12, <1>1
    <2>2. CASE Return(c, IF err = "unauthorized" THEN "unauthorized"
                                                 ELSE "failed")
      BY <2>2, <1>12, <1>2
    <2> QED
      BY <2>1, <2>2, <1>12 DEF HandleError
  <1>13. ASSUME NEW c \in Calls, TokenFails(c)
         PROVE  [Contract!ContractNext]_(Contract!contractVars)
    <2>1. PICK err \in ErrorClass : HandleError(c, err)
      BY <1>13 DEF TokenFails
    <2> QED
      BY <2>1, <1>12, <1>13 DEF TokenFails
  <1>14. ASSUME NEW c \in Calls, ReceiveError(c)
         PROVE  [Contract!ContractNext]_(Contract!contractVars)
    BY <1>14, <1>12 DEF ReceiveError
  <1>15. ASSUME NEW c \in Calls, ServiceAnswers(c)
         PROVE  [Contract!ContractNext]_(Contract!contractVars)
    BY <1>15, <1>6, <1>7 DEF ServiceAnswers, callVars
  <1>16. ASSUME NEW c \in Calls, ServiceActsLate(c)
         PROVE  [Contract!ContractNext]_(Contract!contractVars)
    <2>1. result[c] = "failed"
      BY <1>16, <1>inv DEF ServiceActsLate, EffectInv
    <2> QED
      BY <2>1, <1>16, <1>6 DEF ServiceActsLate, callVars
  <1>17. CASE TokenAges \/ ServiceRevokes \/ UNCHANGED vars
    BY <1>17, <1>7 DEF TokenAges, ServiceRevokes, vars, callVars
  <1> QED
    BY <1>3, <1>4, <1>5, <1>10, <1>11, <1>13, <1>14, <1>15, <1>16, <1>17
       DEF Next, CallStep

\* The retry loop, the shared token and the network together behave towards
\* every caller as CallContract allows, for any calls and any MaxRetries.
THEOREM RequestLoopImplementsContract == Spec => ImplementsContract
  BY ContractInitial, ContractSimulation, IndInvHolds, PTL
     DEF Spec, ImplementsContract, Contract!ContractSpec
=============================================================================
