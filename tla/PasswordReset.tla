---------------------------- MODULE PasswordReset ----------------------------
(***************************************************************************)
(* Recovery of a password by a mailed link                                 *)
(* (src/src/modules/auth/passwordReset.service.ts).                        *)
(*                                                                         *)
(* Asking for a link is three database calls and a mail, none of them in a *)
(* transaction; using one is a read, the hashing of the password and a     *)
(* transaction. Handlers interleave at each of these.                      *)
(***************************************************************************)
EXTENDS Integers

CONSTANTS
  Users,       \* the accounts
  Handlers,    \* handlers that can be in flight together
  TokenTtl,    \* PASSWORD_RESET_TOKEN_TTL_MS, in ticks
  MaxTokens,   \* bound: tokens ever created
  MaxTime      \* bound: last value of the clock

ASSUME TokenTtlAssumption == TokenTtl \in Nat \ {0}
ASSUME BoundAssumption == MaxTokens \in Nat /\ MaxTime \in Nat

VARIABLES
  token,      \* PasswordResetToken: the rows, by order of creation
  issued,     \* tokens created so far
  delivered,  \* links that reached a mailbox
  resets,     \* history: resets committed for each user
  abandoned,  \* history: tokens whose handler was cut short
  task,       \* the handler in flight
  now         \* the clock

vars == <<token, issued, delivered, resets, abandoned, task, now>>

NoUser == "nobody"
Tokens == 1..MaxTokens

\* born and cleared are history: the resets of the owner when the row was
\* created, and the tokens created before its request deleted the old ones.
Token == [status : {"none", "unused", "used"}, user : Users \cup {NoUser},
          expiresAt : Nat, born : Nat, cleared : Nat]
NoToken == [status |-> "none", user |-> NoUser, expiresAt |-> 0, born |-> 0,
            cleared |-> 0]

Task == [pc : {"idle", "clear", "create", "mail", "withdraw", "commit"},
         user : Users \cup {NoUser}, id : Tokens \cup {0}, at : Nat,
         cleared : Nat, began : Nat]
Idle == [pc |-> "idle", user |-> NoUser, id |-> 0, at |-> 0, cleared |-> 0,
         began |-> 0]

Of(u) == {i \in Tokens : token[i].status # "none" /\ token[i].user = u}
Finish(h) == task' = [task EXCEPT ![h] = Idle]

Init ==
  /\ token = [i \in Tokens |-> NoToken] /\ issued = 0
  /\ delivered = {}
  /\ resets = [u \in Users |-> 0]
  /\ abandoned = {}
  /\ task = [h \in Handlers |-> Idle]
  /\ now = 0

-----------------------------------------------------------------------------
(* requestPasswordReset, for an email that has an account. *)

requestPasswordReset(h, u) ==
  /\ task[h].pc = "idle"
  /\ task' = [task EXCEPT ![h] = [Idle EXCEPT !.pc = "clear", !.user = u, !.at = now]]
  /\ UNCHANGED <<token, issued, delivered, resets, abandoned, now>>

\* Mutant: the links mailed before stay.
KeepTokens(h) ==
  /\ task[h].pc = "clear"
  /\ task' = [task EXCEPT ![h].pc = "create", ![h].cleared = issued]
  /\ UNCHANGED <<token, issued, delivered, resets, abandoned, now>>

DeleteTokens(h) ==
  /\ task[h].pc = "clear"
  /\ token' = [i \in Tokens |-> IF i \in Of(task[h].user) THEN NoToken ELSE token[i]]
  /\ task' = [task EXCEPT ![h].pc = "create", ![h].cleared = issued]
  /\ UNCHANGED <<issued, delivered, resets, abandoned, now>>

ExpiresAt(at) == at + TokenTtl

CreateToken(h) ==
  LET t == task[h]
      i == issued + 1
  IN  /\ t.pc = "create" /\ i <= MaxTokens
      /\ token' = [token EXCEPT ![i] =
                     [status |-> "unused", user |-> t.user,
                      expiresAt |-> ExpiresAt(t.at),
                      born |-> resets[t.user], cleared |-> t.cleared]]
      /\ issued' = i
      /\ task' = [task EXCEPT ![h].pc = "mail", ![h].id = i]
      /\ UNCHANGED <<delivered, resets, abandoned, now>>

\* The mail arrives or not; an arrival may still be reported as a failure.
sendPasswordResetEmail(h) ==
  /\ task[h].pc = "mail"
  /\ \/ delivered' = delivered \cup {task[h].id} /\ Finish(h)
     \/ /\ delivered' \in {delivered, delivered \cup {task[h].id}}
        /\ task' = [task EXCEPT ![h].pc = "withdraw"]
  /\ UNCHANGED <<token, issued, resets, abandoned, now>>

\* Mutant: a failed mail is reported and nothing else.
LeaveToken(h) ==
  /\ task[h].pc = "withdraw"
  /\ Finish(h)
  /\ UNCHANGED <<token, issued, delivered, resets, abandoned, now>>

\* The delete of a row that is gone already is swallowed.
WithdrawToken(h) ==
  /\ task[h].pc = "withdraw"
  /\ token' = [token EXCEPT ![task[h].id] = NoToken]
  /\ Finish(h)
  /\ UNCHANGED <<issued, delivered, resets, abandoned, now>>

-----------------------------------------------------------------------------
(* resetPasswordWithToken, by whoever holds a link. *)

IsValid(i) == token[i].status = "unused" /\ now < token[i].expiresAt

resetPasswordWithToken(h, i) ==
  /\ task[h].pc = "idle"
  /\ i \in delivered /\ IsValid(i)
  /\ task' = [task EXCEPT ![h] =
                [Idle EXCEPT !.pc = "commit", !.user = token[i].user, !.id = i,
                             !.at = now, !.began = resets[token[i].user]]]
  /\ UNCHANGED <<token, issued, delivered, resets, abandoned, now>>

\* Mutant: only the link itself is spent.
SpendOne(t) == [token EXCEPT ![t.id].status = "used"]

\* All links of the user are spent, the one at hand and the others.
Spend(t) ==
  [i \in Tokens |-> IF i \in Of(t.user)
                    THEN [token[i] EXCEPT !.status = "used"] ELSE token[i]]

\* The transaction; it fails when the row of the link has been deleted since.
ResetCommit(h) ==
  LET t == task[h]
  IN  /\ t.pc = "commit"
      /\ IF token[t.id].status = "none"
         THEN UNCHANGED <<token, resets>>
         ELSE /\ token' = Spend(t)
              /\ resets' = [resets EXCEPT ![t.user] = @ + 1]
      /\ Finish(h)
      /\ UNCHANGED <<issued, delivered, abandoned, now>>

-----------------------------------------------------------------------------

\* The process stops or a database call fails: the handler is gone.
Abort(h) ==
  /\ task[h].pc # "idle"
  /\ Finish(h)
  /\ abandoned' = abandoned \cup ({task[h].id} \cap Tokens)
  /\ UNCHANGED <<token, issued, delivered, resets, now>>

Tick ==
  /\ now < MaxTime
  /\ now' = now + 1
  /\ UNCHANGED <<token, issued, delivered, resets, abandoned, task>>

Next ==
  \/ \E h \in Handlers :
       \/ \E u \in Users : requestPasswordReset(h, u)
       \/ DeleteTokens(h) \/ CreateToken(h)
       \/ sendPasswordResetEmail(h) \/ WithdrawToken(h)
       \/ \E i \in Tokens : resetPasswordWithToken(h, i)
       \/ ResetCommit(h)
       \/ Abort(h)
  \/ Tick

Spec == Init /\ [][Next]_vars

-----------------------------------------------------------------------------
(* Properties. *)

TypeOK ==
  /\ token \in [Tokens -> Token]
  /\ issued \in Tokens \cup {0}
  /\ delivered \subseteq Tokens
  /\ resets \in [Users -> Nat]
  /\ abandoned \subseteq Tokens
  /\ task \in [Handlers -> Task]
  /\ now \in 0..MaxTime

\* What a handler in flight has in hand: its user; the tokens it has deleted,
\* while it creates the next; the row of its link, as it was read.
Fits(t) ==
  /\ t.pc # "idle" => t.user \in Users
  /\ t.pc = "create" => t.cleared <= issued /\ \A i \in Of(t.user) : t.cleared < i
  /\ t.pc \in {"mail", "withdraw", "commit"} =>
       /\ t.id \in 1..issued
       /\ token[t.id].status # "none" => token[t.id].user = t.user
  /\ t.pc = "commit" /\ token[t.id].status # "none" =>
       t.began = token[t.id].born /\ t.at < token[t.id].expiresAt
HandlersFit == \A h \in Handlers : Fits(task[h])

\* A row is one that was issued, and it is unused only while its owner has not
\* reset the password since.
RowsFit ==
  \A i \in Tokens :
    /\ token[i].status # "none" => i <= issued /\ token[i].user \in Users
    /\ token[i].status = "unused" => token[i].born = resets[token[i].user]

\* A link may sit beside an older one of the same user only if their requests
\* overlapped: the later request deleted the old links before the other link
\* was there.
OnlyOverlappingLinksCoexist ==
  \A u \in Users : \A i, j \in Of(u) : i < j => token[j].cleared < i

\* Nobody is left with a link whose mail failed: an unused row that no handler
\* is working on has been delivered, or else its handler was cut short.
UnmailedLinkIsWithdrawn ==
  \A i \in Tokens :
    token[i].status = "unused" /\ i \notin delivered \cup abandoned
      => \E h \in Handlers : task[h].id = i /\ task[h].pc \in {"mail", "withdraw"}

\* The password changes only by a link that was, when it was presented, not
\* expired and younger than the user's last reset: using one link spends all
\* that were there, also those still being mailed.
ResetNeedsFreshLink ==
  [][\A h \in Handlers :
       LET t == task[h]
       IN  t.pc = "commit" /\ resets' # resets /\ task'[h].pc = "idle"
             => t.began = token[t.id].born /\ t.at < token[t.id].expiresAt]_vars

\* A user's links are deleted and spent by handlers of that user only.
UsersAreIndependent ==
  [][\A i \in Tokens :
       token[i].status # "none" /\ token'[i] # token[i]
         => \E h \in Handlers : task'[h] # task[h] /\ task[h].user = token[i].user]_vars
=============================================================================
