---------------------------- MODULE CompanyRegister ----------------------------
(***************************************************************************)
(* What the company ledger promises: once founded, a register of five      *)
(* parts, each at a version; a step replaces one part by a newer version   *)
(* and leaves the others alone, and the company can always be amended by   *)
(* somebody.                                                               *)
(***************************************************************************)
EXTENDS CompanyRecords

VARIABLE register       \* the empty function, or per part its version and value

Unfounded == [part \in {} |-> {}]

Amendable(r) ==
    ~lockout_after(r["Identities"].value, r["Authorisation"].value)

Init == register = Unfounded

Found ==
    /\ register = Unfounded
    /\ DOMAIN register' = Part
    /\ \A p, q \in Part : register'[p].version = register'[q].version
    /\ Amendable(register')

(* The new version is later than every version in force.                   *)
Amend(part) ==
    /\ register # Unfounded
    /\ DOMAIN register' = Part
    /\ \A p \in Part : register'[part].version > register[p].version
    /\ \A p \in Part \ {part} : register'[p] = register[p]
    /\ Amendable(register')

Next == Found \/ \E part \in Part : Amend(part)

Spec == Init /\ [][Next]_register
=============================================================================
