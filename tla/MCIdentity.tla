---------------------------- MODULE MCIdentity -----------------------------
(***************************************************************************)
(* One agent that is registered and files forms, two handles and one key   *)
(* that are free, a registration signed with the wrong key; two requests   *)
(* at a time on two challenges.                                            *)
(***************************************************************************)
EXTENDS Identity

CONSTANTS h1, h2, h3, k1, k2, o1
MCEnrolled == {[handle |-> h1, key |-> k1, operator |-> o1]}

Registration(h, signer, k) ==
  [what |-> "register", handle |-> h, signer |-> signer, key |-> k, operator |-> o1, form |-> None]
FormFiled(h, signer, f) ==
  [what |-> "homologate", handle |-> h, signer |-> signer, key |-> None, operator |-> None, form |-> f]
MCMessage ==
  {Registration(h2, k2, k2), Registration(h2, k1, k2), Registration(h2, k1, k1), Registration(h3, k2, k2)}
    \cup {FormFiled(h1, k1, "f1"), FormFiled(h1, k1, "f2")}

=============================================================================
