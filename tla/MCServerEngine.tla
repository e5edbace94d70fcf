--------------------------- MODULE MCServerEngine ---------------------------
(***************************************************************************)
(* Instances of ServerEngine for TLC.  "a" and "b" are controllers, "v" is *)
(* a viewer: it reports, answers, and receives no package.                 *)
(***************************************************************************)
EXTENDS ServerEngine

report(state, last, version) ==
    [state |-> state, last |-> last, error |-> state = "WR_ERROR", version |-> version]

\* What a controller reports along a rollout (the deployment shows by its end), its
\* failure and its cancellation.
MCReports == {report("WR_IDLE", "WR_OFFLINE", "older"),
              report("WR_WAIT", "WR_VERIFY", "older"),
              report("WR_IDLE", "WR_DEPLOY", "target"),
              report("WR_IDLE", "WR_CANCEL", "older"),
              report("WR_ERROR", "WR_DOWNLOAD", "older")}

\* Controllers discover the server when they start, and never answer; what a
\* viewer reports of itself matters to nobody.
MCMessages(controllers, reports, viewers, answers) ==
    {[name |-> n, report |-> r, discovery |-> r.last = "WR_OFFLINE", watcher |-> FALSE,
      answer |-> "ANS_UNKNOWN"] : n \in controllers, r \in reports}
    \cup [name: viewers, report: {report("WR_IDLE", "WR_OFFLINE", "older")},
          discovery: {FALSE}, watcher: {TRUE}, answer: answers]

upgrade(id, download_, deploy_, packages) ==
    [id |-> id, download |-> download_, deploy |-> deploy_, packages |-> packages]

\* One controller, an upgrade that asks; a viewer with a name, and one without.
MCSoloNames == {"a", "v", NoName}
MCSoloMessages == MCMessages({"a"}, MCReports, {"v"}, Answer \ {"ANS_OTHER"})
                  \cup MCMessages({}, {}, {NoName}, {"ANS_ACCEPT"})
MCSoloUpgrades == {upgrade(1, "MTHD_ATTEMPT", "MTHD_ATTEMPT", {"a"})}
MCSoloRequires == [n \in MCSoloNames |-> {}]
MCSoloPosition == [n \in MCSoloNames |-> IF n = "a" THEN 1 ELSE IF n = "v" THEN 2 ELSE 3]
=============================================================================
