------------------------------ MODULE Identity ------------------------------
(***************************************************************************)
(* What the ts-multinet daemon promises about the machine's identities: a  *)
(* node runs only with the user's consent, consent outlives the daemon,    *)
(* and an identity is destroyed only when nobody's consent covers it and   *)
(* no node uses it.                                                        *)
(***************************************************************************)
CONSTANTS
  Name,  \* tailnets
  Dir    \* places where an identity can be stored

VARIABLES
  consent,  \* <<n, d>>: the user wants this machine in n, as the identity in d
  member,   \* <<n, d>>: a node of tailnet n runs as the identity in d
  identity  \* places that hold an identity

idVars == <<consent, member, identity>>

IdInit == consent \subseteq Name \X Dir /\ member = {} /\ identity \subseteq Dir

(* The user grants, withdraws or moves the consent for one tailnet. *)
Decide(n) ==
  \E given \in {{}} \cup {{<<n, d>>} : d \in Dir} :
    consent' = {c \in consent : c[1] # n} \cup given

(* Nodes start with consent only; any of them may stop, all do in a crash. *)
Nodes == member' \subseteq member \cup consent'

Enroll(n, d) ==
  /\ <<n, d>> \in member
  /\ identity' = identity \cup {d}
  /\ UNCHANGED <<consent, member>>

Destroy(ds) ==
  /\ \A c \in consent \cup member : c[2] \notin ds
  /\ identity' = identity \ ds
  /\ UNCHANGED <<consent, member>>

IdNext ==
  \/ UNCHANGED <<consent, identity>> /\ Nodes
  \/ \E n \in Name : Decide(n) /\ Nodes /\ UNCHANGED identity
  \/ \E n \in Name, d \in Dir : Enroll(n, d)
  \/ \E ds \in SUBSET Dir : Destroy(ds)

IdSpec == IdInit /\ [][IdNext]_idVars
=============================================================================
