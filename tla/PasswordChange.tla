--------------------------- MODULE PasswordChange ---------------------------
(***************************************************************************)
(* The password of an account, written by two handlers that know nothing   *)
(* of each other: a link (PasswordReset) and POST /auth/change-password    *)
(* (src/src/routes/auth.ts).                                               *)
(*                                                                         *)
(* A change compares the current password with a hash it has read, hashes  *)
(* the new one, and writes the row without looking at it again.            *)
(***************************************************************************)
EXTENDS PasswordReset

CONSTANTS
  Passwords,   \* what users choose; a hash is the password it was made of
  Sessions     \* sessions that can have a change in flight

VARIABLES
  password,    \* User.passwordHash
  change,      \* the change of each session that is in flight
  standing,    \* history: the reset that each password of a user goes back to
  crossed      \* history: users whose last reset met a change in flight

passwordVars == <<vars, password, change, standing, crossed>>

NoPassword == "none"

\* behind is history: the standing of the current password it presented.
Change == [user : Users \cup {NoUser}, current : Passwords \cup {NoPassword},
           new : Passwords \cup {NoPassword}, behind : Nat]
NoChange == [user |-> NoUser, current |-> NoPassword, new |-> NoPassword, behind |-> 0]

InFlight(s) == change[s] # NoChange
EndChange(s) == change' = [change EXCEPT ![s] = NoChange]

PasswordInit ==
  /\ Init
  /\ password \in [Users -> Passwords]
  /\ change = [s \in Sessions |-> NoChange]
  /\ standing = [u \in Users |-> [p \in Passwords |-> 0]]
  /\ crossed = {}

\* A write of u's password by someone whose knowledge goes back to a reset.
Write(u, p, behind) ==
  /\ password' = [password EXCEPT ![u] = p]
  /\ standing' = [standing EXCEPT ![u][p] = behind]

-----------------------------------------------------------------------------

Begin(s, u, current, new) ==
  change' = [change EXCEPT ![s] = [user |-> u, current |-> current, new |-> new,
                                   behind |-> standing[u][current]]]

\* Mutant: the current password is not compared.
AnyCurrentPassword(s, u, current, new) ==
  /\ ~InFlight(s)
  /\ Begin(s, u, current, new)
  /\ UNCHANGED <<vars, password, standing, crossed>>

\* bcrypt.compare against the hash that was read.
changePassword(s, u, current, new) ==
  /\ ~InFlight(s)
  /\ current = password[u]
  /\ Begin(s, u, current, new)
  /\ UNCHANGED <<vars, password, standing, crossed>>

\* The update of the row, whatever its hash is by now.
ChangeCommit(s) ==
  /\ InFlight(s)
  /\ EndChange(s) /\ Write(change[s].user, change[s].new, change[s].behind)
  /\ UNCHANGED <<vars, crossed>>

\* The process stops or a database call fails.
AbortChange(s) ==
  /\ InFlight(s)
  /\ EndChange(s)
  /\ UNCHANGED <<vars, password, standing, crossed>>

\* The transaction of a reset that commits writes the password with the tokens.
PasswordOfReset(u, p) ==
  /\ resets'[u] # resets[u]
  /\ Write(u, p, resets'[u])
  /\ crossed' = IF \E s \in Sessions : change[s].user = u
                THEN crossed \cup {u} ELSE crossed \ {u}

\* A step of PasswordReset.
ResetStep ==
  /\ Next
  /\ UNCHANGED change
  /\ \/ resets' = resets /\ UNCHANGED <<password, standing, crossed>>
     \/ \E u \in Users, p \in Passwords : PasswordOfReset(u, p)

PasswordNext ==
  \/ ResetStep
  \/ \E s \in Sessions :
       \/ \E u \in Users, current, new \in Passwords :
            changePassword(s, u, current, new)
       \/ ChangeCommit(s)
       \/ AbortChange(s)

PasswordSpec == PasswordInit /\ [][PasswordNext]_passwordVars

-----------------------------------------------------------------------------
(* Properties. *)

\* A reset shuts out whoever knew the password before it. The password in force
\* goes back to the last reset: it is the one the link set, or the new one of a
\* chain of changes that each presented one which goes back to it - unless that
\* reset met a change in flight, whose update comes after it all the same.
ResetShutsOldPasswordOut ==
  \A u \in Users : standing[u][password[u]] < resets[u] => u \in crossed

\* Changes of a password leave the links to PasswordReset: every behaviour is
\* one of PasswordReset, and what holds there holds here.
ImplementsPasswordReset == Spec
=============================================================================
