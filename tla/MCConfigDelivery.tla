-------------------------- MODULE MCConfigDelivery --------------------------
(* Values of the constants for the runs of ConfigDelivery. *)
EXTENDS ConfigDelivery, TLC

Two == {"wifi", "topic"}

Of(a, b) == "wifi" :> a @@ "topic" :> b

(* Settings that the tools handle, and one or two of each of the others.    *)
Good == {<<>>, "wifi" :> "plain", Of("plain", "lines")}
Bad  == {Of("plain", k) : k \in Kinds \ Sound} \cup {Of("torn", "lines"), Of("torn", "full")}
Mixed == Good \cup Bad
=============================================================================
