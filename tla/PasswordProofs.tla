--------------------------- MODULE PasswordProofs ---------------------------
(***************************************************************************)
(* What PasswordReset and PasswordChange promise for any number of users,  *)
(* handlers, tokens, sessions and passwords.                               *)
(***************************************************************************)
EXTENDS PasswordChange, TLAPS

-----------------------------------------------------------------------------
(* PasswordReset.                                                          *)

\* The strengthening: types, what a handler has in hand, what a row is.
Sound == TypeOK /\ HandlersFit /\ RowsFit

LEMMA IdleType == Idle \in Task
  BY DEF Idle, Task

LEMMA NoTokenType == NoToken \in Token
  BY DEF NoToken, Token

LEMMA ConstantTypes == TokenTtl \in Nat /\ MaxTokens \in Nat /\ MaxTime \in Nat
  BY TokenTtlAssumption, BoundAssumption

LEMMA InitSound == Init => Sound /\ OnlyOverlappingLinksCoexist
  BY IdleType, NoTokenType, ConstantTypes
  DEF Init, Sound, TypeOK, HandlersFit, Fits, RowsFit, OnlyOverlappingLinksCoexist, Of,
      Idle, NoToken, Tokens

-----------------------------------------------------------------------------
(* Each action keeps the strengthening.                                    *)

\* A handler that takes another step, or ends, changes no other handler.
LEMMA RequestSound ==
  ASSUME Sound, NEW h \in Handlers, NEW u \in Users, requestPasswordReset(h, u)
  PROVE  Sound'
<1> DEFINE t == [Idle EXCEPT !.pc = "clear", !.user = u, !.at = now]
<1>0. now \in Nat
  BY ConstantTypes DEF Sound, TypeOK
<1>1. t \in Task /\ t.pc = "clear" /\ t.user = u
  BY <1>0 DEF Task, Idle
<1>2. task' = [task EXCEPT ![h] = t]
  BY DEF requestPasswordReset
<1> HIDE DEF t
<1> USE DEF requestPasswordReset, Sound
<1>3. TypeOK'
  BY <1>1, <1>2 DEF TypeOK
<1>4. HandlersFit'
  BY <1>1, <1>2 DEF TypeOK, HandlersFit, Fits, Of
<1>5. RowsFit'
  BY DEF RowsFit
<1> QED BY <1>3, <1>4, <1>5

LEMMA FinishSound ==
  ASSUME Sound, NEW h \in Handlers, Finish(h),
         UNCHANGED <<token, issued, resets>>,
         delivered' \subseteq Tokens, abandoned' \subseteq Tokens, now' = now
  PROVE  Sound'
<1> USE DEF Finish, Sound
<1>1. Idle.pc = "idle"
  BY DEF Idle
<1>2. TypeOK'
  BY IdleType DEF TypeOK
<1>3. HandlersFit'
  BY <1>1 DEF TypeOK, HandlersFit, Fits, Of
<1>4. RowsFit'
  BY DEF RowsFit
<1> QED BY <1>2, <1>3, <1>4

LEMMA DeleteSound ==
  ASSUME Sound, NEW h \in Handlers, DeleteTokens(h)
  PROVE  Sound'
<1> DEFINE t == [task[h] EXCEPT !.pc = "create", !.cleared = issued]
<1>1. /\ task[h] \in Task /\ task[h].pc = "clear" /\ task[h].user \in Users
      /\ issued \in Nat
  BY ConstantTypes DEF DeleteTokens, Sound, TypeOK, HandlersFit, Fits, Tokens
<1>2. /\ t \in Task /\ t.pc = "create" /\ t.cleared = issued
      /\ t.user = task[h].user
  BY <1>1 DEF Task
<1>3. /\ task' = [task EXCEPT ![h] = t] /\ UNCHANGED <<issued, delivered, resets, abandoned, now>>
      /\ token' = [i \in Tokens |-> IF i \in Of(task[h].user) THEN NoToken ELSE token[i]]
  BY DEF DeleteTokens
<1> HIDE DEF t
<1>4. /\ \A i \in Tokens : token'[i].status # "none" => token'[i] = token[i]
      /\ \A i \in Tokens :
           ~(token'[i].status # "none" /\ token'[i].user = task[h].user)
  BY <1>3 DEF NoToken, Of
<1>5. TypeOK'
  BY <1>2, <1>3, NoTokenType DEF Sound, TypeOK
<1>6. HandlersFit'
  <2> SUFFICES ASSUME NEW g \in Handlers PROVE Fits(task[g])'
    BY DEF HandlersFit
  <2>1. Fits(task[g])
    BY DEF Sound, HandlersFit
  <2>2. CASE g = h
    <3>1. task'[g] = t
      BY <1>3, <2>2 DEF Sound, TypeOK
    <3> QED BY <1>1, <1>2, <1>3, <1>4, <3>1 DEF Fits, Of
  <2>3. CASE g # h
    <3>1. task'[g] = task[g]
      BY <1>3, <2>3 DEF Sound, TypeOK
    <3>2. 1..issued \subseteq Tokens
      BY ConstantTypes DEF Sound, TypeOK, Tokens
    <3> QED BY <1>3, <1>4, <2>1, <3>1, <3>2 DEF Fits, Of
  <2> QED BY <2>2, <2>3
<1>7. RowsFit'
  BY <1>3, <1>4 DEF Sound, RowsFit
<1> QED BY <1>5, <1>6, <1>7 DEF Sound

LEMMA CreateSound ==
  ASSUME Sound, NEW h \in Handlers, CreateToken(h)
  PROVE  Sound'
<1> DEFINE new == [status |-> "unused", user |-> task[h].user,
                   expiresAt |-> ExpiresAt(task[h].at),
                   born |-> resets[task[h].user], cleared |-> task[h].cleared]
           i == issued + 1
<1>1. /\ task[h] \in Task /\ task[h].pc = "create" /\ task[h].user \in Users
      /\ issued \in Nat /\ i \in Tokens
  BY ConstantTypes DEF CreateToken, Sound, TypeOK, HandlersFit, Fits, Tokens
<1>2. /\ new \in Token /\ new.status = "unused" /\ new.user = task[h].user
      /\ new.born = resets[task[h].user]
  BY <1>1, ConstantTypes DEF Token, Task, ExpiresAt, Sound, TypeOK
<1>3. /\ token' = [token EXCEPT ![i] = new]
      /\ issued' = i /\ UNCHANGED <<delivered, resets, abandoned, now>>
      /\ task' = [task EXCEPT ![h].pc = "mail", ![h].id = i]
  BY DEF CreateToken
<1> HIDE DEF new
<1>4. TypeOK'
  BY <1>1, <1>2, <1>3 DEF Sound, TypeOK, Task, Tokens
<1>5. token[i].status = "none"
  BY <1>1 DEF Sound, RowsFit
<1>6. HandlersFit'
  BY <1>1, <1>2, <1>3, <1>5 DEF Sound, TypeOK, HandlersFit, Fits, Of, Task, Tokens
<1>7. RowsFit'
  BY <1>1, <1>2, <1>3 DEF Sound, TypeOK, RowsFit, Tokens
<1> QED BY <1>4, <1>6, <1>7 DEF Sound

LEMMA MailSound ==
  ASSUME Sound, NEW h \in Handlers, sendPasswordResetEmail(h)
  PROVE  Sound'
<1> USE DEF sendPasswordResetEmail
<1>1. delivered' \subseteq Tokens
  BY ConstantTypes DEF Sound, TypeOK, HandlersFit, Fits, Tokens
<1>2. CASE Finish(h)
  BY <1>1, <1>2, FinishSound DEF Sound, TypeOK
<1>3. CASE task' = [task EXCEPT ![h].pc = "withdraw"]
  <2>1. TypeOK'
    BY <1>1, <1>3, ZenonT(30) DEF Sound, TypeOK, Task
  <2>2. HandlersFit'
    BY <1>3 DEF Sound, TypeOK, HandlersFit, Fits, Of, Task
  <2>3. RowsFit'
    BY DEF Sound, RowsFit
  <2> QED BY <2>1, <2>2, <2>3 DEF Sound
<1> QED BY <1>2, <1>3

LEMMA WithdrawSound ==
  ASSUME Sound, NEW h \in Handlers, WithdrawToken(h)
  PROVE  Sound'
<1> USE DEF WithdrawToken, Finish, Sound
<1>1. TypeOK'
  BY NoTokenType, IdleType DEF TypeOK
<1>2. \A i \in Tokens : token'[i].status # "none" => token'[i] = token[i]
  BY DEF NoToken, TypeOK
<1>3. Idle.pc = "idle"
  BY DEF Idle
<1>4. HandlersFit'
  BY <1>1, <1>2, <1>3, ConstantTypes DEF TypeOK, HandlersFit, Fits, Of, Tokens
<1>5. RowsFit'
  BY <1>2 DEF RowsFit
<1> QED BY <1>1, <1>4, <1>5

LEMMA PresentSound ==
  ASSUME Sound, NEW h \in Handlers, NEW i \in Tokens, resetPasswordWithToken(h, i)
  PROVE  Sound'
<1> DEFINE t == [Idle EXCEPT !.pc = "commit", !.user = token[i].user, !.id = i,
                             !.at = now, !.began = resets[token[i].user]]
<1>1. /\ token[i].status = "unused" /\ now < token[i].expiresAt /\ i <= issued
      /\ token[i].user \in Users /\ token[i].born = resets[token[i].user]
      /\ resets[token[i].user] \in Nat /\ now \in Nat /\ i \in 1..issued
  BY ConstantTypes DEF resetPasswordWithToken, IsValid, Sound, RowsFit, TypeOK, Tokens
<1>2. /\ t \in Task /\ t.pc = "commit" /\ t.user = token[i].user /\ t.id = i
      /\ t.at = now /\ t.began = resets[token[i].user]
  BY <1>1 DEF Idle, Task
<1>3. task' = [task EXCEPT ![h] = t] /\ UNCHANGED <<token, issued, delivered, resets, abandoned, now>>
  BY DEF resetPasswordWithToken
<1> HIDE DEF t
<1>4. TypeOK'
  BY <1>2, <1>3 DEF Sound, TypeOK
<1>5. HandlersFit'
  BY <1>1, <1>2, <1>3 DEF Sound, TypeOK, HandlersFit, Fits, Of
<1>6. RowsFit'
  BY <1>3 DEF Sound, RowsFit
<1> QED BY <1>4, <1>5, <1>6 DEF Sound

LEMMA CommitSound ==
  ASSUME Sound, NEW h \in Handlers, ResetCommit(h)
  PROVE  Sound'
<1> DEFINE t == task[h]
<1>1. t \in Task /\ t.pc = "commit" /\ t.user \in Users /\ t.id \in Tokens
  BY ConstantTypes DEF ResetCommit, Sound, TypeOK, HandlersFit, Fits, Tokens
<1>2. CASE token[t.id].status = "none"
  BY <1>2, FinishSound DEF ResetCommit, Sound, TypeOK
<1>3. CASE token[t.id].status # "none"
  <2>1. /\ token' = [i \in Tokens |-> IF i \in Of(t.user)
                       THEN [token[i] EXCEPT !.status = "used"] ELSE token[i]]
        /\ resets' = [resets EXCEPT ![t.user] = @ + 1]
        /\ task' = [task EXCEPT ![h] = Idle]
        /\ UNCHANGED <<issued, delivered, abandoned, now>>
    BY <1>3 DEF ResetCommit, Spend, Finish
  <2> HIDE DEF t
  <2>2. \A i \in Of(t.user) : [token[i] EXCEPT !.status = "used"] \in Token
    BY DEF Sound, TypeOK, Token, Of
  <2>3. TypeOK'
    BY <1>1, <2>1, <2>2, IdleType DEF Sound, TypeOK
  <2>4. \A i \in Tokens :
          /\ token'[i].status # "none" <=> token[i].status # "none"
          /\ token'[i].user = token[i].user /\ token'[i].born = token[i].born
          /\ token'[i].expiresAt = token[i].expiresAt
          /\ token'[i].status = "unused" =>
               token[i].status = "unused" /\ token[i].user # t.user
    BY <2>1 DEF Sound, TypeOK, Token, Of
  <2>5. \A u : Of(u)' = Of(u)
    BY <2>4 DEF Of
  <2>6. Idle.pc = "idle"
    BY DEF Idle
  <2>7. HandlersFit'
    BY <2>1, <2>4, <2>5, <2>6, ConstantTypes DEF Sound, TypeOK, HandlersFit, Fits, Tokens
  <2>8. RowsFit'
    BY <1>1, <2>1, <2>4 DEF Sound, TypeOK, RowsFit
  <2> QED BY <2>3, <2>7, <2>8 DEF Sound
<1> QED BY <1>2, <1>3

LEMMA TickSound ==
  ASSUME Sound, Tick
  PROVE  Sound'
<1>1. TypeOK'
  BY ConstantTypes DEF Tick, Sound, TypeOK
<1>2. HandlersFit' /\ RowsFit'
  BY DEF Tick, Sound, HandlersFit, Fits, RowsFit, Of
<1> QED BY <1>1, <1>2 DEF Sound

LEMMA StutterSound == Sound /\ UNCHANGED vars => Sound'
  BY DEF vars, Sound, TypeOK, HandlersFit, Fits, RowsFit, Of

LEMMA SoundStep == Sound /\ [Next]_vars => Sound'
<1> SUFFICES ASSUME Sound, [Next]_vars PROVE Sound'
  OBVIOUS
<1>1. ASSUME NEW h \in Handlers, Abort(h) PROVE Sound'
  BY <1>1, FinishSound DEF Abort, Sound, TypeOK
<1> QED
  BY <1>1, RequestSound, DeleteSound, CreateSound, MailSound, WithdrawSound,
     PresentSound, CommitSound, TickSound, StutterSound DEF Next

\* The types of PasswordReset, and what handlers and rows hold, for any number
\* of users, handlers and tokens.
THEOREM TypeCorrect == Spec => []TypeOK
<1>1. Sound => TypeOK
  BY DEF Sound
<1> QED BY InitSound, SoundStep, <1>1, PTL DEF Spec

LEMMA SpecSound == Spec => []Sound
  BY InitSound, SoundStep, PTL DEF Spec
-----------------------------------------------------------------------------
(* The links of one user.                                                  *)

\* The rows of a user after a step: what they were, or the one just created.
LEMMA CoexistStep ==
  Sound /\ OnlyOverlappingLinksCoexist /\ [Next]_vars => OnlyOverlappingLinksCoexist'
<1> DEFINE Kept == \A i \in Tokens :
             token'[i].status # "none" =>
               /\ token[i].status # "none" /\ token'[i].user = token[i].user
               /\ token'[i].cleared = token[i].cleared
<1>1. ASSUME OnlyOverlappingLinksCoexist, Kept PROVE OnlyOverlappingLinksCoexist'
  BY <1>1 DEF OnlyOverlappingLinksCoexist, Of
<1> SUFFICES ASSUME Sound, OnlyOverlappingLinksCoexist, [Next]_vars
             PROVE  OnlyOverlappingLinksCoexist'
  OBVIOUS
<1>2. ASSUME NEW h \in Handlers, DeleteTokens(h) PROVE Kept
  BY <1>2 DEF DeleteTokens, NoToken
<1>3. ASSUME NEW h \in Handlers, WithdrawToken(h) PROVE Kept
  BY <1>3 DEF WithdrawToken, NoToken, Sound, TypeOK
<1>4. ASSUME NEW h \in Handlers, ResetCommit(h) PROVE Kept
  BY <1>4 DEF ResetCommit, Spend, Sound, TypeOK, Token, Of
<1>5. ASSUME NEW h \in Handlers, CreateToken(h) PROVE OnlyOverlappingLinksCoexist'
  <2> DEFINE t == task[h]
             n == issued + 1
  <2>1. /\ issued \in Nat /\ n \in Tokens /\ token[n].status = "none"
        /\ t.pc = "create" /\ t \in Task
        /\ t.cleared <= issued /\ \A i \in Of(t.user) : t.cleared < i
    BY <1>5, ConstantTypes
    DEF CreateToken, Sound, TypeOK, HandlersFit, Fits, RowsFit, Tokens
  <2>2. /\ token'[n].user = t.user /\ token'[n].cleared = t.cleared
        /\ \A i \in Tokens \ {n} : token'[i] = token[i]
    BY <1>5, <2>1 DEF CreateToken, Sound, TypeOK
  <2>3. \A i \in Tokens : token[i].status # "none" => i < n
    BY <2>1, ConstantTypes DEF Sound, RowsFit, Tokens
  <2> HIDE DEF n, t
  <2>4. SUFFICES ASSUME NEW u \in Users, NEW i \in Of(u)', NEW j \in Of(u)', i < j
                 PROVE  token'[j].cleared < i
    BY DEF OnlyOverlappingLinksCoexist
  <2>5. i \in Tokens /\ j \in Tokens /\ i \in Nat /\ j \in Nat
    BY ConstantTypes DEF Of, Tokens
  <2>6. i # n
    BY <2>2, <2>3, <2>4, <2>5 DEF Of, n
  <2>7. CASE j = n
    BY <2>1, <2>2, <2>4, <2>5, <2>6, <2>7 DEF Of
  <2>8. CASE j # n
    BY <2>2, <2>4, <2>5, <2>6, <2>8 DEF OnlyOverlappingLinksCoexist, Of
  <2> QED BY <2>7, <2>8
<1>6. CASE UNCHANGED token
  BY <1>6 DEF OnlyOverlappingLinksCoexist, Of
<1> HIDE DEF Kept
<1> QED
  BY <1>1, <1>2, <1>3, <1>4, <1>5, <1>6
  DEF Next, vars, requestPasswordReset, sendPasswordResetEmail,
      resetPasswordWithToken, Abort, Tick

\* Two links of a user are there together only if their requests overlapped,
\* for any number of requests in flight.
THEOREM LinksCoexistOnlyByOverlap == Spec => []OnlyOverlappingLinksCoexist
  BY InitSound, SoundStep, CoexistStep, PTL DEF Spec

\* A password changes only by a link that was fresh when it was presented.
THEOREM ResetsNeedFreshLinks == Spec => ResetNeedsFreshLink
<1> DEFINE Fresh == \A h \in Handlers :
             LET t == task[h]
             IN  t.pc = "commit" /\ resets' # resets /\ task'[h].pc = "idle"
                   => t.began = token[t.id].born /\ t.at < token[t.id].expiresAt
<1>1. Sound /\ [Next]_vars => [Fresh]_vars
  <2> SUFFICES ASSUME Sound, Next, NEW h \in Handlers, task[h].pc = "commit",
                      resets' # resets, task'[h].pc = "idle"
               PROVE  /\ task[h].began = token[task[h].id].born
                      /\ task[h].at < token[task[h].id].expiresAt
    OBVIOUS
  <2>1. PICK g \in Handlers : ResetCommit(g)
    BY DEF Next, requestPasswordReset, DeleteTokens, CreateToken, sendPasswordResetEmail,
           WithdrawToken, resetPasswordWithToken, Abort, Tick
  <2>2. g = h
    BY <2>1 DEF ResetCommit, Finish, Sound, TypeOK
  <2>3. token[task[h].id].status # "none"
    BY <2>1, <2>2 DEF ResetCommit
  <2> QED BY <2>3 DEF Sound, HandlersFit, Fits
<1> HIDE DEF Fresh
<1>2. Spec => [][Fresh]_vars
  BY InitSound, SoundStep, <1>1, PTL DEF Spec
<1> QED BY <1>2 DEF ResetNeedsFreshLink, Fresh

\* A user's links are touched by handlers of that user only.
THEOREM UsersStayApart == Spec => UsersAreIndependent
<1> DEFINE Apart == \A i \in Tokens :
             token[i].status # "none" /\ token'[i] # token[i]
               => \E h \in Handlers :
                    task'[h] # task[h] /\ task[h].user = token[i].user
<1>1. Sound /\ [Next]_vars => [Apart]_vars
  <2> SUFFICES ASSUME Sound, Next, NEW i \in Tokens,
                      token[i].status # "none", token'[i] # token[i]
               PROVE  \E h \in Handlers :
                        task'[h] # task[h] /\ task[h].user = token[i].user
    OBVIOUS
  <2>1. ASSUME NEW h \in Handlers, DeleteTokens(h)
        PROVE  task'[h] # task[h] /\ task[h].user = token[i].user
    BY <2>1 DEF DeleteTokens, Of, Sound, TypeOK, Task
  <2>2. ASSUME NEW h \in Handlers, WithdrawToken(h)
        PROVE  task'[h] # task[h] /\ task[h].user = token[i].user
    BY <2>2 DEF WithdrawToken, Finish, Idle, Sound, TypeOK, HandlersFit, Fits
  <2>3. ASSUME NEW h \in Handlers, ResetCommit(h)
        PROVE  task'[h] # task[h] /\ task[h].user = token[i].user
    BY <2>3 DEF ResetCommit, Spend, Of, Finish, Idle, Sound, TypeOK
  <2>4. ASSUME NEW h \in Handlers, CreateToken(h) PROVE FALSE
    BY <2>4, ConstantTypes DEF CreateToken, Sound, TypeOK, RowsFit, Tokens
  <2> QED
    BY <2>1, <2>2, <2>3, <2>4
    DEF Next, requestPasswordReset, sendPasswordResetEmail, resetPasswordWithToken,
        Abort, Tick
<1> HIDE DEF Apart
<1>2. Spec => [][Apart]_vars
  BY InitSound, SoundStep, <1>1, PTL DEF Spec
<1> QED BY <1>2 DEF UsersAreIndependent, Apart

-----------------------------------------------------------------------------
(* Mails that fail.                                                        *)

LEMMA UnmailedStep ==
  ASSUME Sound, UnmailedLinkIsWithdrawn, [Next]_vars
  PROVE  UnmailedLinkIsWithdrawn'
<1> SUFFICES ASSUME NEW i \in Tokens,
                    token'[i].status = "unused", i \notin delivered', i \notin abandoned'
             PROVE  \E h \in Handlers :
                      task'[h].id = i /\ task'[h].pc \in {"mail", "withdraw"}
  BY DEF UnmailedLinkIsWithdrawn
<1> DEFINE Works(t) == t.id = i /\ t.pc \in {"mail", "withdraw"}
<1>1. ASSUME token[i].status = "unused", i \notin delivered, i \notin abandoned
      PROVE  \E h \in Handlers : Works(task[h])
  BY <1>1 DEF UnmailedLinkIsWithdrawn
<1>2. ASSUME NEW g \in Handlers, NEW t, task' = [task EXCEPT ![g] = t],
             task[g].pc \notin {"mail", "withdraw"},
             token[i].status = "unused", i \notin delivered, i \notin abandoned
      PROVE  \E h \in Handlers : Works(task'[h])
  BY <1>1, <1>2 DEF Sound, TypeOK
<1>3. ASSUME NEW g \in Handlers, NEW u \in Users, requestPasswordReset(g, u)
      PROVE  \E h \in Handlers : Works(task'[h])
  BY <1>2, <1>3 DEF requestPasswordReset
<1>4. ASSUME NEW g \in Handlers, DeleteTokens(g)
      PROVE  \E h \in Handlers : Works(task'[h])
  BY <1>1, <1>4 DEF DeleteTokens, NoToken, Sound, TypeOK
<1>5. ASSUME NEW g \in Handlers, CreateToken(g)
      PROVE  \E h \in Handlers : Works(task'[h])
  <2>1. CASE i = issued + 1
    BY <1>5, <2>1 DEF CreateToken, Sound, TypeOK, Task
  <2>2. CASE i # issued + 1
    BY <1>1, <1>5, <2>2 DEF CreateToken, Sound, TypeOK
  <2> QED BY <2>1, <2>2
<1>6. ASSUME NEW g \in Handlers, sendPasswordResetEmail(g)
      PROVE  \E h \in Handlers : Works(task'[h])
  <2>1. PICK h \in Handlers : Works(task[h])
    BY <1>1, <1>6 DEF sendPasswordResetEmail
  <2> QED BY <1>6, <2>1 DEF sendPasswordResetEmail, Finish, Sound, TypeOK, Task
<1>7. ASSUME NEW g \in Handlers, WithdrawToken(g)
      PROVE  \E h \in Handlers : Works(task'[h])
  <2>1. i # task[g].id
    BY <1>7 DEF WithdrawToken, NoToken, Sound, TypeOK
  <2>2. PICK h \in Handlers : Works(task[h])
    BY <1>1, <1>7, <2>1 DEF WithdrawToken, Sound, TypeOK
  <2>3. h # g
    BY <2>1, <2>2
  <2> QED BY <1>7, <2>2, <2>3 DEF WithdrawToken, Finish, Sound, TypeOK
<1>8. ASSUME NEW g \in Handlers, NEW k \in Tokens, resetPasswordWithToken(g, k)
      PROVE  \E h \in Handlers : Works(task'[h])
  BY <1>2, <1>8 DEF resetPasswordWithToken
<1>9. ASSUME NEW g \in Handlers, ResetCommit(g)
      PROVE  \E h \in Handlers : Works(task'[h])
  <2>1. token[i].status = "unused" /\ i \notin delivered /\ i \notin abandoned
    BY <1>9 DEF ResetCommit, Spend, Sound, TypeOK, Token, Of
  <2> QED BY <1>2, <1>9, <2>1 DEF ResetCommit, Finish
<1>10. ASSUME UNCHANGED <<token, delivered, abandoned, task>>
       PROVE  \E h \in Handlers : Works(task'[h])
  BY <1>1, <1>10
<1>11. ASSUME NEW g \in Handlers, Abort(g)
       PROVE  \E h \in Handlers : Works(task'[h])
  <2>1. PICK h \in Handlers : Works(task[h])
    BY <1>1, <1>11 DEF Abort
  <2>2. h # g
    BY <1>11, <2>1 DEF Abort
  <2> QED BY <1>11, <2>1, <2>2 DEF Abort, Finish, Sound, TypeOK
<1> HIDE DEF Works
<1>12. \E h \in Handlers : Works(task'[h])
  BY <1>3, <1>4, <1>5, <1>6, <1>7, <1>8, <1>9, <1>10, <1>11, Zenon DEF Next, Tick, vars
<1> QED BY <1>12 DEF Works

\* A link whose mail did not arrive is on its way out or gone, unless its
\* handler was cut short.
THEOREM UnmailedLinksAreWithdrawn == Spec => []UnmailedLinkIsWithdrawn
<1>1. Init => UnmailedLinkIsWithdrawn
  BY DEF Init, NoToken, UnmailedLinkIsWithdrawn
<1>2. Sound /\ UnmailedLinkIsWithdrawn /\ [Next]_vars => UnmailedLinkIsWithdrawn'
  BY UnmailedStep
<1> QED BY InitSound, SoundStep, <1>1, <1>2, PTL DEF Spec

-----------------------------------------------------------------------------
(* PasswordChange.                                                         *)

\* Each step is a step of PasswordReset or leaves its variables alone.
LEMMA StepOfReset == [PasswordNext]_passwordVars => [Next]_vars
  BY DEF PasswordNext, passwordVars, ResetStep, changePassword, ChangeCommit, AbortChange

\* PasswordChange implements PasswordReset: changing a password leaves the
\* links alone.
THEOREM ResetsAreImplemented == PasswordSpec => ImplementsPasswordReset
<1>1. PasswordInit => Init
  BY DEF PasswordInit
<1> QED BY <1>1, StepOfReset, PTL DEF PasswordSpec, Spec, ImplementsPasswordReset

-----------------------------------------------------------------------------

\* The strengthening: a change in flight has its user and passwords, and one whose
\* current password goes back to an earlier reset was crossed by the last one.
ChangeFits(s) ==
  InFlight(s) =>
    /\ change[s].user \in Users /\ change[s].new \in Passwords
    /\ change[s].behind < resets[change[s].user] => change[s].user \in crossed
PasswordSound ==
  /\ Sound
  /\ password \in [Users -> Passwords]
  /\ standing \in [Users -> [Passwords -> Nat]]
  /\ change \in [Sessions -> Change]
  /\ \A s \in Sessions : ChangeFits(s)

LEMMA NoChangeType == NoChange \in Change
  BY DEF NoChange, Change

LEMMA InitShuts == PasswordInit => PasswordSound /\ ResetShutsOldPasswordOut
<1> SUFFICES ASSUME PasswordInit PROVE PasswordSound /\ ResetShutsOldPasswordOut
  OBVIOUS
<1>1. Sound
  BY InitSound DEF PasswordInit
<1>2. /\ password \in [Users -> Passwords] /\ standing \in [Users -> [Passwords -> Nat]]
      /\ change \in [Sessions -> Change] /\ \A s \in Sessions : ~InFlight(s)
  BY NoChangeType DEF PasswordInit, InFlight
<1>3. \A u \in Users : standing[u][password[u]] = 0 /\ resets[u] = 0
  BY <1>2 DEF PasswordInit, Init
<1> QED BY <1>1, <1>2, <1>3 DEF PasswordSound, ChangeFits, ResetShutsOldPasswordOut

\* A reset is of one user, whose count it takes further.
LEMMA ResetsStep ==
  ASSUME Sound, Next, NEW u \in Users, resets'[u] # resets[u]
  PROVE  \A v \in Users \ {u} : resets'[v] = resets[v]
<1>1. PICK h \in Handlers : ResetCommit(h)
  BY DEF Next, requestPasswordReset, DeleteTokens, CreateToken, sendPasswordResetEmail,
         WithdrawToken, resetPasswordWithToken, Abort, Tick
<1> QED BY <1>1 DEF ResetCommit, Sound, TypeOK

\* What a write leaves of a user's password and of its standing.
LEMMA Written ==
  ASSUME PasswordSound, NEW u \in Users, NEW p \in Passwords, NEW b \in Nat, Write(u, p, b)
  PROVE  /\ password' \in [Users -> Passwords]
         /\ standing' \in [Users -> [Passwords -> Nat]]
         /\ password'[u] = p /\ standing'[u][p] = b
         /\ \A v \in Users \ {u} : password'[v] = password[v] /\ standing'[v] = standing[v]
<1>1. /\ password \in [Users -> Passwords] /\ password' = [password EXCEPT ![u] = p]
      /\ standing \in [Users -> [Passwords -> Nat]]
      /\ standing' = [standing EXCEPT ![u] = [standing[u] EXCEPT ![p] = b]]
  BY DEF Write, PasswordSound
<1> QED BY <1>1

\* A reset sets a password that goes back to it. Who has a change of the user in
\* flight is crossed by it.
LEMMA PasswordOfResetShuts ==
  ASSUME PasswordSound, ResetShutsOldPasswordOut, Sound', Next, UNCHANGED change,
         NEW u \in Users, NEW p \in Passwords, PasswordOfReset(u, p)
  PROVE  PasswordSound' /\ ResetShutsOldPasswordOut'
<1>0. Sound
  BY DEF PasswordSound
<1>1. /\ resets'[u] # resets[u] /\ Write(u, p, resets'[u])
      /\ \A v \in Users \ {u} :
           resets'[v] = resets[v] /\ (v \in crossed <=> v \in crossed')
  BY <1>0, ResetsStep DEF PasswordOfReset
<1>2. resets'[u] \in Nat
  BY DEF Sound, TypeOK
<1>3. /\ password' \in [Users -> Passwords] /\ standing' \in [Users -> [Passwords -> Nat]]
      /\ password'[u] = p /\ standing'[u][p] = resets'[u]
      /\ \A v \in Users \ {u} : password'[v] = password[v] /\ standing'[v] = standing[v]
  BY <1>1, <1>2, Written
<1>4. ASSUME NEW s \in Sessions PROVE ChangeFits(s)'
  <2> SUFFICES ASSUME InFlight(s) PROVE ChangeFits(s)'
    BY DEF ChangeFits, InFlight
  <2>1. /\ change[s].user \in Users /\ change[s].new \in Passwords
        /\ change[s].behind < resets[change[s].user] => change[s].user \in crossed
    BY DEF PasswordSound, ChangeFits
  <2>2. CASE change[s].user = u
    <3>1. u \in crossed'
      BY <2>2 DEF PasswordOfReset
    <3>2. change'[s] = change[s]
      OBVIOUS
    <3> QED BY <2>1, <2>2, <3>1, <3>2 DEF ChangeFits
  <2>3. CASE change[s].user # u
    <3>1. /\ change'[s] = change[s]
          /\ resets'[change[s].user] = resets[change[s].user]
          /\ change[s].user \in crossed => change[s].user \in crossed'
      BY <1>1, <2>1, <2>3
    <3> QED BY <2>1, <3>1 DEF ChangeFits
  <2> QED BY <2>2, <2>3
<1>5. ResetShutsOldPasswordOut'
  <2> SUFFICES ASSUME NEW v \in Users, standing'[v][password'[v]] < resets'[v]
               PROVE  v \in crossed'
    BY DEF ResetShutsOldPasswordOut
  <2>1. v # u
    BY <1>2, <1>3
  <2> QED BY <1>1, <1>3, <2>1 DEF ResetShutsOldPasswordOut
<1> QED BY <1>3, <1>4, <1>5 DEF PasswordSound

\* A change begins with the password in force, and with what that goes back to.
LEMMA ChangeBeginShuts ==
  ASSUME PasswordSound, ResetShutsOldPasswordOut, Sound',
         NEW s \in Sessions, NEW u \in Users, NEW current \in Passwords,
         NEW new \in Passwords, changePassword(s, u, current, new)
  PROVE  PasswordSound' /\ ResetShutsOldPasswordOut'
<1> DEFINE c == [user |-> u, current |-> current, new |-> new,
                 behind |-> standing[u][current]]
<1>1. /\ change' = [change EXCEPT ![s] = c] /\ current = password[u]
      /\ UNCHANGED <<vars, password, standing, crossed>>
  BY DEF changePassword, Begin
<1>2. standing[u][current] \in Nat
  BY DEF PasswordSound
<1>3. /\ c \in Change /\ c.user = u /\ c.new = new
      /\ c.behind = standing[u][password[u]]
  BY <1>1, <1>2 DEF Change
<1> HIDE DEF c
<1>4. change' \in [Sessions -> Change] /\ resets' = resets
  BY <1>1, <1>3 DEF PasswordSound, vars
<1>5. ASSUME NEW r \in Sessions PROVE ChangeFits(r)'
  <2>1. CASE r = s
    <3>1. change'[r] = c
      BY <1>1, <2>1 DEF PasswordSound
    <3>2. c.behind < resets[u] => u \in crossed
      BY <1>3 DEF ResetShutsOldPasswordOut
    <3> QED BY <1>1, <1>3, <1>4, <3>1, <3>2 DEF ChangeFits
  <2>2. CASE r # s
    <3>1. change'[r] = change[r] /\ ChangeFits(r)
      BY <1>1, <2>2 DEF PasswordSound
    <3> QED BY <1>1, <1>4, <3>1 DEF ChangeFits, InFlight
  <2> QED BY <2>1, <2>2
<1>6. ResetShutsOldPasswordOut'
  BY <1>1, <1>4 DEF ResetShutsOldPasswordOut
<1> QED BY <1>1, <1>4, <1>5, <1>6 DEF PasswordSound

\* The end of a change leaves the other changes as they are.
LEMMA OthersStay ==
  ASSUME PasswordSound, NEW s \in Sessions, EndChange(s), UNCHANGED <<resets, crossed>>
  PROVE  change' \in [Sessions -> Change] /\ \A r \in Sessions : ChangeFits(r)'
<1>1. change \in [Sessions -> Change] /\ change' = [change EXCEPT ![s] = NoChange]
  BY DEF EndChange, PasswordSound
<1>2. change' \in [Sessions -> Change]
  BY <1>1, NoChangeType
<1>3. ASSUME NEW r \in Sessions PROVE ChangeFits(r)'
  <2>1. CASE r = s
    BY <1>1, <2>1 DEF ChangeFits, InFlight
  <2>2. CASE r # s
    BY <1>1, <2>2 DEF ChangeFits, InFlight, PasswordSound
  <2> QED BY <2>1, <2>2
<1> QED BY <1>2, <1>3

LEMMA ChangeCommitShuts ==
  ASSUME PasswordSound, ResetShutsOldPasswordOut, Sound', NEW s \in Sessions, ChangeCommit(s)
  PROVE  PasswordSound' /\ ResetShutsOldPasswordOut'
<1>1. PICK u \in Users, p \in Passwords, b \in Nat :
        /\ Write(u, p, b)
        /\ b < resets[u] => u \in crossed
  BY DEF ChangeCommit, PasswordSound, ChangeFits, Change
<1>2. EndChange(s) /\ UNCHANGED <<resets, crossed>>
  BY DEF ChangeCommit, vars
<1>3. /\ password' \in [Users -> Passwords] /\ standing' \in [Users -> [Passwords -> Nat]]
      /\ password'[u] = p /\ standing'[u][p] = b
      /\ \A v \in Users \ {u} : password'[v] = password[v] /\ standing'[v] = standing[v]
  BY <1>1, Written
<1>4. ResetShutsOldPasswordOut'
  <2> SUFFICES ASSUME NEW v \in Users, standing'[v][password'[v]] < resets'[v]
               PROVE  v \in crossed'
    BY DEF ResetShutsOldPasswordOut
  <2>1. CASE v = u
    BY <1>1, <1>2, <1>3, <2>1
  <2>2. CASE v # u
    BY <1>2, <1>3, <2>2 DEF ResetShutsOldPasswordOut
  <2> QED BY <2>1, <2>2
<1> QED BY <1>2, <1>3, <1>4, OthersStay DEF PasswordSound

LEMMA StepShuts ==
  PasswordSound /\ ResetShutsOldPasswordOut /\ [PasswordNext]_passwordVars
    => PasswordSound' /\ ResetShutsOldPasswordOut'
<1> SUFFICES ASSUME PasswordSound, ResetShutsOldPasswordOut, [PasswordNext]_passwordVars
             PROVE  PasswordSound' /\ ResetShutsOldPasswordOut'
  OBVIOUS
<1>1. Sound'
  BY SoundStep, StepOfReset DEF PasswordSound
<1>2. ASSUME UNCHANGED <<password, standing, crossed, change>>, resets' = resets
      PROVE  PasswordSound' /\ ResetShutsOldPasswordOut'
  BY <1>1, <1>2 DEF PasswordSound, ChangeFits, InFlight, ResetShutsOldPasswordOut
<1>3. CASE ResetStep
  BY <1>1, <1>2, <1>3, PasswordOfResetShuts DEF ResetStep
<1>4. ASSUME NEW s \in Sessions, AbortChange(s)
      PROVE  PasswordSound' /\ ResetShutsOldPasswordOut'
  <2>1. EndChange(s) /\ UNCHANGED <<resets, crossed, password, standing>>
    BY <1>4 DEF AbortChange, vars
  <2> QED BY <1>1, <2>1, OthersStay DEF PasswordSound, ResetShutsOldPasswordOut
<1>5. CASE UNCHANGED passwordVars
  BY <1>2, <1>5 DEF passwordVars, vars
<1> QED
  BY <1>1, <1>3, <1>4, <1>5, ChangeBeginShuts, ChangeCommitShuts DEF PasswordNext

\* The password in force goes back to the last reset, whatever was changed and
\* reset before, unless that reset met a change in flight.
THEOREM ResetsShutOldPasswordsOut == PasswordSpec => []ResetShutsOldPasswordOut
  BY InitShuts, StepShuts, PTL DEF PasswordSpec
=============================================================================
