---------------------------- MODULE MCAdmission ----------------------------
(* Rule lists of up to two rules over two roles, every form of rule, and   *)
(* documents in two states owned by either of two users or by nobody.  The *)
(* tokens are those of a customer, of an admin, of both, of neither, and   *)
(* of a customer with a group no rule names, with the system groups of     *)
(* Keycloak and without them.  The customer group is the default one.      *)
EXTENDS Admission, TLC

CONSTANTS admin, customer, staff, roles, offline, uma, init, closed, u1, u2

MCRoles == {admin, customer}
MCGroups == MCRoles \cup {staff, roles, offline, uma}
MCSystemGroups == {roles, offline, uma}
MCStates == {init, closed}
MCUserIds == {u1, u2}
MCSupported == {customer}

(* `states` and `user` are what an `if` says: a rule of another form has   *)
(* none.  An `if` for the admin names no other's field.                    *)
MCRules == {r \in Rule : /\ r.validates = FALSE
                         /\ r.form # "if" => r.states = States /\ r.user = "none"
                         /\ r.states \in {States, {init}}
                         /\ r.for = admin => r.user \in {"none", "own"}
                                            /\ (r.user = "own" => r.states = States)}

MCLets == {<<>>} \cup {<<r>> : r \in MCRules}
                 \cup {<<r, q>> : r, q \in MCRules}

(* The customer's fields vary; the admin's name u1                         *)
MCDocs == {[state |-> s, owner |-> (admin :> u1) @@ (customer :> o),
            peer |-> (admin :> NoUser) @@ (customer :> p)] :
             s \in States, o \in {u1, NoUser}, p \in {u1, NoUser}}

MCTokens == { {}, MCSystemGroups, {customer}, {admin},
              MCSystemGroups \cup {customer}, {admin, customer},
              MCSystemGroups \cup {customer, admin},
              MCSystemGroups \cup {customer, staff} }
=============================================================================
