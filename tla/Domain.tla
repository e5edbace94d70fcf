------------------------------- MODULE Domain -------------------------------
(***************************************************************************)
(* The vocabulary every part of DCUS shares (include/dcus/domain.h,        *)
(* include/dcus/upgrade.h): the states of the server and of the domain     *)
(* controllers, the controls the server broadcasts, the answers of the     *)
(* user, and the predicates of src/domain.cpp over them.                   *)
(***************************************************************************)

\* enum ServerState.
ServerState == {"MR_UNKNOWN", "MR_OFFLINE", "MR_IDLE", "MR_PENDING", "MR_READY",
                "MR_DOWNLOAD", "MR_VERIFY", "MR_DISTRIBUTE", "MR_WAIT", "MR_DEPLOY",
                "MR_CANCEL", "MR_DOWNLOAD_ASK", "MR_DEPLOY_ASK", "MR_CANCEL_ASK",
                "MR_RESUME_ASK", "MR_DONE_ASK", "MR_ERROR_ASK"}

\* enum ClientState.
ClientState == {"WR_UNKNOWN", "WR_OFFLINE", "WR_ERROR", "WR_IDLE", "WR_DOWNLOAD",
                "WR_VERIFY", "WR_PATCH", "WR_WAIT", "WR_DEPLOY", "WR_CANCEL"}

\* enum Control.
Control == {"CTL_UNKNOWN", "CTL_RESET", "CTL_DOWNLOAD", "CTL_DEPLOY", "CTL_CANCEL",
            "CTL_CLEAR"}

\* enum Answer.
Answer == {"ANS_UNKNOWN", "ANS_ACCEPT", "ANS_REFUSE", "ANS_OTHER"}

\* enum Upgrade::Method.
Method == {"MTHD_SKIP", "MTHD_ATTEMPT", "MTHD_FORCED"}

(***************************************************************************)
(* The version a domain reports, seen from the package it is to receive:   *)
(* empty, equal to the package's, one the package may replace, or one it   *)
(* may not.                                                                *)
(***************************************************************************)
Version == {"empty", "older", "target", "newer"}

\* Detail::detectVersionEqual and Detail::detectVersionVaild over the classes.
detectVersionEqual(version) == version = "target"
detectVersionVaild(version) == version = "older"

mrStateIsBusy(state) == state \in {"MR_PENDING", "MR_READY", "MR_DOWNLOAD", "MR_VERIFY",
                                   "MR_DISTRIBUTE", "MR_WAIT", "MR_DEPLOY", "MR_CANCEL"}

mrStateIsAsk(state) == state \in {"MR_DOWNLOAD_ASK", "MR_DEPLOY_ASK", "MR_CANCEL_ASK",
                                  "MR_RESUME_ASK", "MR_DONE_ASK", "MR_ERROR_ASK"}

\* Detail::hasDepends: a package that needs one of the names still waited for.
hasDepends(requires, depends) == requires \cap depends # {}
=============================================================================
