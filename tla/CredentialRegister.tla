-------------------------- MODULE CredentialRegister --------------------------
(***************************************************************************)
(* What OnvifCredentials promises its callers: a user name and a password  *)
(* that are each set, and copied, in one step.  It promises nothing about  *)
(* the two together: there is no operation on the pair.                    *)
(***************************************************************************)
CONSTANTS
    Fields,     \* user and pass
    Values,     \* the strings, and NULL
    Readers,    \* the threads that copy fields
    NoCopy      \* a reader holds no copy of a field

VARIABLES
    value,      \* of each field
    copy        \* of each reader and field: the copy it holds

Init ==
    /\ value \in [Fields -> Values]
    /\ copy = [r \in Readers |-> [f \in Fields |-> NoCopy]]

Set(f, v) ==
    /\ value' = [value EXCEPT ![f] = v]
    /\ UNCHANGED copy

Get(r, f) ==
    /\ copy' = [copy EXCEPT ![r][f] = value[f]]
    /\ UNCHANGED value

Free(r) ==
    /\ copy' = [copy EXCEPT ![r] = [f \in Fields |-> NoCopy]]
    /\ UNCHANGED value

Next ==
    \/ \E f \in Fields, v \in Values : Set(f, v)
    \/ \E r \in Readers, f \in Fields : Get(r, f)
    \/ \E r \in Readers : Free(r)

Spec == Init /\ [][Next]_<<value, copy>>
================================================================================
