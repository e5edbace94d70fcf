---------------------------- MODULE MCWebQueue ----------------------------
(* Instances of WebQueue for TLC: one controller, forced upgrades. *)
EXTENDS WebQueue

report(state, last, version) ==
    [state |-> state, last |-> last, error |-> FALSE, version |-> version]

MCNames == {"a"}
MCReports == {report("WR_WAIT", "WR_VERIFY", "older")}
MCMessages == {[name |-> "a", report |-> r, discovery |-> FALSE, watcher |-> FALSE,
                answer |-> "ANS_UNKNOWN"] : r \in MCReports}
MCUpgrades == [id: Ids, download: {"MTHD_FORCED"}, deploy: {"MTHD_FORCED"},
               packages: {MCNames}]
MCRequires == [n \in MCNames |-> {}]
MCPosition == [n \in MCNames |-> 1]
=============================================================================
