----------------------------- MODULE MCCredentials ---------------------------
(* Money, credentials and identities: automatic top-ups, paid signup, login,  *)
(* refresh tokens, pairing and enrolment of workers, and the names of the     *)
(* runtime directory. The parts share no state: part says which one a         *)
(* behaviour is of, and the others rest in one initial state.                 *)
EXTENDS Topup, Signup, Login, Tokens, Pairing, Admission, Directory

VARIABLE part

LoginRoots == [l \in LoginIds |-> IF l = "l2" THEN "d2" ELSE "d1"]

\* Bound: the second worker does not wait for its name to be confirmed, and has one name.
DirBound == joining'["r2"] = "no" /\ localName'["r2"] # "b"

\* The variables of all parts.
mcVars == <<part, topupVars, signupVars, loginVars, tokenVars, pairVars, admVars, dirVars>>

Parts == {"topup", "signup", "login", "tokens", "pairing", "admission", "directory"}

MCInit ==
  /\ part \in Parts
  /\ TopupInit
  /\ part # "topup" => keyNow = CHOOSE k \in Keys : TRUE
  /\ SignupInit
  /\ part # "signup" => cred = <<"none">>
  /\ LoginInit
  /\ TokensInit
  /\ PairInit
  /\ AdmInit
  /\ DirInit

\* One part moves.
MCNext ==
  /\ UNCHANGED part
  /\ \/ /\ part = "topup" /\ TopupNext
        /\ UNCHANGED <<signupVars, loginVars, tokenVars, pairVars, admVars, dirVars>>
     \/ /\ part = "signup" /\ SignupNext
        /\ UNCHANGED <<topupVars, loginVars, tokenVars, pairVars, admVars, dirVars>>
     \/ /\ part = "login" /\ LoginNext
        /\ UNCHANGED <<topupVars, signupVars, tokenVars, pairVars, admVars, dirVars>>
     \/ /\ part = "tokens" /\ TokensNext
        /\ UNCHANGED <<topupVars, signupVars, loginVars, pairVars, admVars, dirVars>>
     \/ /\ part = "pairing" /\ PairNext
        /\ UNCHANGED <<topupVars, signupVars, loginVars, tokenVars, admVars, dirVars>>
     \/ /\ part = "admission" /\ AdmNext
        /\ UNCHANGED <<topupVars, signupVars, loginVars, tokenVars, pairVars, dirVars>>
     \/ /\ part = "directory" /\ DirNext /\ DirBound
        /\ UNCHANGED <<topupVars, signupVars, loginVars, tokenVars, pairVars, admVars>>

MCSpec == MCInit /\ [][MCNext]_mcVars

\* Of the signups that were paid for at most one waits for its key, each payment is as
\* quoted, whatever dies or is cancelled meanwhile, and the key that is installed is the one
\* the reply saved.
SignupSafe ==
  /\ [](part = "signup" => SignupInv)

\* Login processes: one per credential store, none survives the end of its record or a
\* restart that recorded it, and an answer is fed once.
LoginSafe ==
  /\ [](part = "login" => LoginInv)
  /\ RecordedOrphansStopped

\* A refresh token is presented once and by one owner, an older sign-in never replaces a
\* newer one, and accounts are held exactly while a refresh is uncertain.
TokensSafe ==
  /\ [](part = "tokens" => TokensInv)
  /\ HoldsFollowRefresh

\* Who a worker is: retried registrations share a slot within the quota, a revoked worker
\* gets nothing more, what is installed was saved; a host is paired by one packet whose token
\* is spent once; and a name in the directory never selects another worker than the operator
\* meant.
EnrolmentSafe ==
  /\ [](part = "admission" => AdmInv)
  /\ RevokedGetsNothing
  /\ [](part = "pairing" => PairInv)
  /\ TokenSpent
  /\ [](part = "directory" => DirInv)
=============================================================================
