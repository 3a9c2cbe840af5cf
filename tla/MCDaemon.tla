------------------------------ MODULE MCDaemon ------------------------------
(* Two tailnets over three slots: one configuration change can swap them   *)
(* between s1 and s2, and s3 shares the device of s2 and overlaps both     *)
(* ranges, so that files ask for one device, one range or both twice.      *)
(* With one tailnet there are two slots and two hosts, one of them         *)
(* selected, and the file may keep an entry that is disabled.  The ranges  *)
(* of s1 and s2 have two host addresses each.  "Dev" is a name the config  *)
(* spells with a capital.                                                  *)
EXTENDS Daemon

MCName == {"a", "b", "Dev", "dev"}
MCLower == [n \in MCName |-> IF n = "Dev" THEN "dev" ELSE n]
MCRange == [s1 |-> [base |-> 0, size |-> 4], s2 |-> [base |-> 4, size |-> 4],
            s3 |-> [base |-> 0, size |-> 8]]
MCCIDR == {MCRange[s] : s \in DOMAIN MCRange}
MCCidrOf == [s \in Slot |-> MCRange[s]]
MCDevOf == [s \in Slot |-> IF s = "s1" THEN "dev1" ELSE "dev2"]
MCFiles == {f \in Config :
              /\ "b" \in Tailnet => f["a"].slot # "s3"
              /\ \A n \in Tailnet :
                   f[n].slot # NoSlot /\ ~f[n].enabled => f[n].slot = "s1" /\ "b" \notin Tailnet}
MCFQDN == {"a-sel", "a-oth", "b-sel"}
MCHosts == [n \in Tailnet |-> IF n = "b" THEN {"b-sel"}
                            ELSE IF "b" \in Tailnet THEN {"a-sel"} ELSE {"a-sel", "a-oth"}]
MCSelected == [n \in Tailnet |-> IF n = "b" THEN "b-sel" ELSE "a-sel"]
=============================================================================
