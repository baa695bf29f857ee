------------------------- MODULE ConfigPublication -------------------------
(***************************************************************************)
(* What the devices operator promises a device about the configuration it  *)
(* can download from the artefact server: it is made from versions of the  *)
(* inputs that exist, it is never replaced by one made from older inputs,  *)
(* and the server's credentials are never older than those in it.          *)
(***************************************************************************)
EXTENDS Naturals

VARIABLES
  input,      (* The newest version of the secret, the class, the cluster. *)
  auth,       (* The version of the secret that the server accepts.        *)
  published   (* The versions from which the published config was made.    *)

vars == <<input, auth, published>>

Inputs   == {"secret", "class", "cluster"}
Versions == [secret : Nat, class : Nat, cluster : Nat]
Nothing  == [secret |-> 0, class |-> 0, cluster |-> 0]

Init ==
  /\ input = Nothing
  /\ auth = 0
  /\ published = Nothing

(* Somebody, the operator included, makes a new version of an input. *)
Change(i) ==
  /\ input' = [input EXCEPT ![i] = @ + 1]
  /\ UNCHANGED <<auth, published>>

(* The server is given the credentials of an existing secret. *)
Authorize ==
  /\ auth' \in auth..input.secret
  /\ UNCHANGED <<input, published>>

(* A config made from existing versions, none of them older than what it    *)
(* replaces, becomes available.                                             *)
Publish ==
  /\ published' \in [secret  : published.secret..auth,
                     class   : published.class..input.class,
                     cluster : published.cluster..input.cluster]
  /\ UNCHANGED <<input, auth>>

Next == (\E i \in Inputs : Change(i)) \/ Authorize \/ Publish

Spec == Init /\ [][Next]_vars
=============================================================================
