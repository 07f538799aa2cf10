------------------------- MODULE PreferenceRegister -------------------------
(***************************************************************************)
(* What saving preferences promises: the card holds one value, a save      *)
(* replaces it in one step or leaves it alone, the answer says which, and  *)
(* a power cut before the answer means one or the other.  How a file is    *)
(* replaced does not appear.                                               *)
(***************************************************************************)
CONSTANTS Contents, Nothing

VARIABLES
  stored,   \* what the next boot will load
  asked,    \* what is being saved, or Nothing
  done,     \* whether that has been stored
  told      \* what the block says is stored, or Nothing

vars == <<stored, asked, done, told>>

RegisterInit == asked = Nothing /\ ~done /\ told \in {stored, Nothing}

Ask ==
  /\ asked = Nothing
  /\ asked' \in Contents /\ told' = Nothing
  /\ UNCHANGED <<stored, done>>

Store ==
  /\ asked # Nothing /\ ~done
  /\ stored' = asked /\ done' = TRUE
  /\ UNCHANGED <<asked, told>>

Answer ==
  /\ asked # Nothing
  /\ told' = IF done THEN stored ELSE Nothing
  /\ asked' = Nothing /\ done' = FALSE
  /\ UNCHANGED stored

\* The power fails, or the console starts.
Boot ==
  /\ asked' = Nothing /\ done' = FALSE
  /\ told' \in {stored, Nothing}
  /\ UNCHANGED stored

RegisterNext == Ask \/ Store \/ Answer \/ Boot

RegisterSpec == RegisterInit /\ [][RegisterNext]_vars
=============================================================================
