---------------------------- MODULE MCProvision ----------------------------
(* Two tailnets whose state directories may come to be shared or nested.   *)
EXTENDS Provision

MCDir == {"base", "base/a", "base/b", "base/a/x"}
MCBelow == [d \in MCDir |-> IF d = "base" THEN MCDir
                            ELSE IF d = "base/a" THEN {d, "base/a/x"} ELSE {d}]
MCDefaultDir == [n \in {"a", "b"} |-> IF n = "a" THEN "base/a" ELSE "base/b"]
=============================================================================
