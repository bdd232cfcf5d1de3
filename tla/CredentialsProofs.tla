--------------------------- MODULE CredentialsProofs ---------------------------
(***************************************************************************)
(* What the run of MCCredentials checks, for every value of the constants: *)
(* its behaviours are behaviours of the components, where the theorems     *)
(* about Signup and Tokens apply, as those about Topup do.                 *)
(***************************************************************************)
EXTENDS MCCredentials, PaymentsProofs, TokensProofs

\* A behaviour of the composition is one of each component: the part that moves takes its
\* step, and the others stutter.
LEMMA CredentialParts == MCSpec => TopupSpec /\ SignupSpec /\ TokensSpec
<1>1. MCInit => TopupInit /\ SignupInit /\ TokensInit
  BY DEF MCInit
<1>2. [MCNext]_mcVars => [TopupNext]_topupVars
  BY Zenon DEF MCNext, mcVars
<1>3. [MCNext]_mcVars => [SignupNext]_signupVars
  BY Zenon DEF MCNext, mcVars
<1>4. [MCNext]_mcVars => [TokensNext]_tokenVars
  BY Zenon DEF MCNext, mcVars
<1> QED BY <1>1, <1>2, <1>3, <1>4, PTL DEF MCSpec, TopupSpec, SignupSpec, TokensSpec

\* A paid signup is charged once and as quoted, and the key that is installed is the one the
\* reply saved, whatever dies or is cancelled meanwhile (signup.rs).
THEOREM SignupSafeAlways == MCSpec => SignupSafe
<1>1. SignupInv => (part = "signup" => SignupInv)
  OBVIOUS
<1> QED BY <1>1, CredentialParts, SignupInvAlways, PTL DEF SignupSafe

\* A refresh token is presented once unless its answer was lost, has one owner after a
\* transfer, and takes the running attempts along; no sign-in that was cut off comes into
\* force (chatgpt_auth.rs).
THEOREM TokensSafeAlways == MCSpec => TokensSafe
<1>1. TokensInv => (part = "tokens" => TokensInv)
  OBVIOUS
<1> QED BY <1>1, CredentialParts, TokensInvAlways, HoldsAlwaysFollow, PTL DEF TokensSafe
================================================================================
